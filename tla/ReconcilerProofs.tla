-------------------------- MODULE ReconcilerProofs --------------------------
(***************************************************************************)
(* Machine-checked theorems about Reconciler and about what RegistryView   *)
(* publishes of it, for every set of products, manifests, limits, feature  *)
(* flags and disturbances.                                                 *)
(***************************************************************************)
EXTENDS RegistryView, CompositionProofs

(* A copy the informer holds as fresh is the server's. *)
FreshCopies == \A p \in fresh : cache[p] = api[p]

(* While the worker's copy is current, the server still has the object. *)
CurrentExists == pc # "idle" /\ current => api[target] \in Objects

(* TypeOK is not inductive by itself: the walk looks up inputs of products *)
(* on its stack, which have types only because they were read, and a       *)
(* status is written to an object only if the server still has it.         *)
TypeInv == TypeOK /\ FramesLoaded(graph, stack) /\ FreshCopies /\ CurrentExists

-----------------------------------------------------------------------------
(* Deciding.                                                               *)

(* setReadiness touches the Ready condition and observedGeneration only. *)
LEMMA SetReadinessFacts ==
  ASSUME NEW o \in Objects, NEW ok \in BOOLEAN, NEW reason \in Reasons, NEW err \in BOOLEAN,
         setReadiness(o, ok, reason, err)
  PROVE  /\ product' \in Objects /\ failed' = err /\ pc' = "write"
         /\ product'.spec = o.spec /\ product'.generation = o.generation
         /\ product'.status.observedGeneration = o.generation
         /\ product'.status.ready \in Conditions
         /\ product'.status.ready.ok = ok
         /\ product'.status.ready.observedGeneration = o.generation
         /\ product'.status.connector = o.status.connector
         /\ product'.status.contracts = o.status.contracts
         /\ product'.status.source = o.status.source
         /\ product'.status.composition = o.status.composition
         /\ product'.status.inputs = o.status.inputs
<1> DEFINE condition == Condition(ok, reason, o.generation)
           status == [o.status EXCEPT !.observedGeneration = o.generation, !.ready = condition]
<1>1. o.generation \in Nat /\ o.status \in Statuses
  BY DEF Objects
<1>2. /\ condition \in Conditions /\ condition.ok = ok
      /\ condition.observedGeneration = o.generation
  BY <1>1, ConditionType
<1>3. product' = [o EXCEPT !.status = status] /\ failed' = err /\ pc' = "write"
  BY DEF setReadiness
<1> HIDE DEF condition
<1>4. /\ status \in Statuses
      /\ status.observedGeneration = o.generation /\ status.ready = condition
      /\ status.connector = o.status.connector /\ status.contracts = o.status.contracts
      /\ status.source = o.status.source /\ status.composition = o.status.composition
      /\ status.inputs = o.status.inputs
  BY <1>1, <1>2 DEF Statuses
<1> HIDE DEF status
<1>5. /\ product' \in Objects /\ product'.status = status
      /\ product'.spec = o.spec /\ product'.generation = o.generation
  BY <1>3, <1>4, StatusReplaced
<1> QED
  BY <1>2, <1>3, <1>4, <1>5

(* A condition that does not pass has a reason. *)
LEMMA FailingReason ==
  ASSUME NEW condition \in Conditions \cup {None}, ~Passing(condition)
  PROVE  condition \in Conditions /\ condition.reason \in Reasons
  BY DEF Passing, Conditions

(* The conditions of an object. *)
LEMMA StatusFields ==
  ASSUME NEW o \in Objects
  PROVE  /\ o.status \in Statuses /\ o.generation \in Nat /\ o.spec \in Specs
         /\ o.status.connector \in Conditions \cup {None}
         /\ o.status.contracts \in Conditions \cup {None}
         /\ o.status.source \in Conditions \cup {None}
         /\ o.status.composition \in Conditions \cup {None}
         /\ o.status.ready \in Conditions \cup {None}
         /\ o.status.inputs \in SUBSET InputStatuses
         /\ o.spec.inputs \in Seq(InputPorts) /\ Len(o.spec.inputs) \in Nat
  BY DEF Objects, Statuses, Specs

(* Proceed waits before an input, or writes Ready as the capabilities say. *)
LEMMA ProceedFacts ==
  ASSUME NEW o \in Objects, NEW i \in Nat, Proceed(o, i)
  PROVE  /\ next' = i
         /\ \/ product' = o /\ pc' = "inputs" /\ failed' = failed
            \/ \E ok \in BOOLEAN, reason \in Reasons :
                 /\ setReadiness(o, ok, reason, FALSE)
                 /\ ok => Passing(o.status.connector) /\ Passing(o.status.contracts)
<1>1. /\ o.status.connector \in Conditions \cup {None}
      /\ o.status.contracts \in Conditions \cup {None}
  BY StatusFields
<1>2. CASE product' = o /\ pc' = "inputs" /\ UNCHANGED failed
  BY <1>2 DEF Proceed
<1>3. CASE ~Passing(o.status.connector)
           /\ setReadiness(o, FALSE, o.status.connector.reason, FALSE)
  BY <1>1, <1>3, FailingReason DEF Proceed
<1>4. CASE ~Passing(o.status.contracts)
           /\ setReadiness(o, FALSE, o.status.contracts.reason, FALSE)
  BY <1>1, <1>4, FailingReason DEF Proceed
<1>5. CASE /\ Passing(o.status.connector) /\ Passing(o.status.contracts)
           /\ setReadiness(o, TRUE, "DependenciesReady", FALSE)
  BY <1>5 DEF Proceed, Reasons
<1> QED
  BY <1>2, <1>3, <1>4, <1>5 DEF Proceed

(* Decide writes False, or proceeds with source and composition passing. *)
LEMMA DecideFacts ==
  ASSUME NEW o \in Objects, NEW err \in BOOLEAN, source \in [ready : BOOLEAN, reason : Reasons],
         err => o.status.composition \in Conditions, Decide(o, err)
  PROVE  \/ /\ next' = next
            /\ \E reason \in Reasons, e \in BOOLEAN : setReadiness(o, FALSE, reason, e)
         \/ /\ source.ready /\ Passing(o.status.composition)
            /\ \E i \in Nat : i >= 1 /\ Proceed(o, i)
<1> DEFINE composition == o.status.composition
<1>1. composition \in Conditions \cup {None} /\ Len(o.spec.inputs) \in Nat
  BY StatusFields
<1>2. CASE err /\ setReadiness(o, FALSE, composition.reason, TRUE) /\ UNCHANGED next
  BY <1>2 DEF Conditions
<1>3. CASE setReadiness(o, FALSE, source.reason, FALSE) /\ UNCHANGED next
  BY <1>3
<1>4. CASE ~Passing(composition) /\ setReadiness(o, FALSE, composition.reason, FALSE)
           /\ UNCHANGED next
  BY <1>1, <1>4, FailingReason
<1>5. CASE /\ source.ready /\ Passing(composition)
           /\ Proceed(o, IF composition = None THEN 1 ELSE Len(o.spec.inputs) + 1)
  <2>1. /\ (IF composition = None THEN 1 ELSE Len(o.spec.inputs) + 1) \in Nat
        /\ (IF composition = None THEN 1 ELSE Len(o.spec.inputs) + 1) >= 1
    BY <1>1
  <2> QED
    BY <1>5, <2>1
<1> QED
  BY <1>2, <1>3, <1>4, <1>5 DEF Decide

(* Deciding keeps the types of what it writes. *)
LEMMA DecideType ==
  ASSUME NEW o \in Objects, NEW err \in BOOLEAN, source \in [ready : BOOLEAN, reason : Reasons],
         err => o.status.composition \in Conditions, Decide(o, err),
         next \in Nat, failed \in BOOLEAN
  PROVE  /\ product' \in Objects /\ next' \in Nat /\ failed' \in BOOLEAN
         /\ pc' \in {"inputs", "write"}
<1>1. CASE /\ next' = next
           /\ \E reason \in Reasons, e \in BOOLEAN : setReadiness(o, FALSE, reason, e)
  BY <1>1, SetReadinessFacts
<1>2. CASE \E i \in Nat : Proceed(o, i)
  <2>1. PICK i \in Nat : Proceed(o, i)
    BY <1>2
  <2> QED
    BY <2>1, ProceedFacts, SetReadinessFacts
<1> QED
  BY <1>1, <1>2, DecideFacts

-----------------------------------------------------------------------------
(* Observing.                                                              *)

(* An observer's answer is a condition of the copy's generation. *)
LEMMA ObservedType ==
  ASSUME product \in Objects,
         NEW feature, NEW disabled \in Reasons, NEW fact, NEW ready \in Reasons,
         NEW unready \in Reasons
  PROVE  /\ Observed(feature, disabled, fact, ready, unready) \in Conditions
         /\ Observed(feature, disabled, fact, ready, unready).observedGeneration
              = product.generation
<1> DEFINE Fits(c) == c \in Conditions /\ c.observedGeneration = product.generation
<1>1. product.generation \in Nat
  BY StatusFields
<1>2. /\ Fits(Condition(FALSE, disabled, product.generation))
      /\ Fits(Condition(TRUE, ready, product.generation))
      /\ Fits(Condition(FALSE, unready, product.generation))
  BY <1>1 DEF Condition, Conditions
<1> HIDE DEF Fits
<1>3. Fits(Observed(feature, disabled, fact, ready, unready))
  BY <1>2 DEF Observed
<1> QED
  BY <1>3 DEF Fits

(* Each capability has a condition of the copy's generation exactly when   *)
(* the spec declares it.                                                   *)
LEMMA ObserversType ==
  ASSUME product \in Objects
  PROVE  /\ observeConnector \in Conditions \cup {None}
         /\ Bound(observeConnector, product.spec.connector, product.generation)
         /\ observeContracts \in Conditions \cup {None}
         /\ Bound(observeContracts, product.spec.contractChecks, product.generation)
         /\ observeSource \in Conditions
         /\ observeSource.observedGeneration = product.generation
<1> DEFINE connector == Observed("connectors", "ConnectorFeatureDisabled", "connector",
                                 "ConnectorReady", "ConnectorNotReady")
           contracts == Observed("contracts", "ContractFeatureDisabled", "contracts",
                                 "ContractsReady", "ContractProbeNotReady")
           engine == Observed("engines", "EngineProviderFeatureDisabled", "source",
                              "SourceReady", "SourceNotReady")
           origin == Observed("sources", "SourceFeatureDisabled", "source",
                              "SourceReady", "SourceNotReady")
<1>1. product.spec.connector \in BOOLEAN /\ product.spec.contractChecks \in BOOLEAN
  BY DEF Objects, Specs
<1>2. /\ {"ConnectorFeatureDisabled", "ConnectorReady", "ConnectorNotReady"} \subseteq Reasons
      /\ {"ContractFeatureDisabled", "ContractsReady", "ContractProbeNotReady"} \subseteq Reasons
      /\ {"SourceFeatureDisabled", "EngineProviderFeatureDisabled"} \subseteq Reasons
      /\ {"SourceReady", "SourceNotReady"} \subseteq Reasons
  BY DEF Reasons
<1>3. connector \in Conditions /\ connector.observedGeneration = product.generation
  BY <1>2, ObservedType
<1>4. contracts \in Conditions /\ contracts.observedGeneration = product.generation
  BY <1>2, ObservedType
<1>5. engine \in Conditions /\ engine.observedGeneration = product.generation
  BY <1>2, ObservedType
<1>6. origin \in Conditions /\ origin.observedGeneration = product.generation
  BY <1>2, ObservedType
<1>7. /\ observeConnector = IF ~product.spec.connector THEN None ELSE connector
      /\ observeContracts = IF ~product.spec.contractChecks THEN None ELSE contracts
      /\ observeSource \in {engine, origin}
  BY DEF observeConnector, observeContracts, observeSource
<1> HIDE DEF connector, contracts, engine, origin
<1>8. /\ observeConnector \in Conditions \cup {None}
      /\ Bound(observeConnector, product.spec.connector, product.generation)
  BY <1>1, <1>3, <1>7, NoneAssumption DEF Bound
<1>9. /\ observeContracts \in Conditions \cup {None}
      /\ Bound(observeContracts, product.spec.contractChecks, product.generation)
  BY <1>1, <1>4, <1>7, NoneAssumption DEF Bound
<1>10. observeSource \in Conditions /\ observeSource.observedGeneration = product.generation
  BY <1>5, <1>6, <1>7
<1> QED
  BY <1>8, <1>9, <1>10

(* The conditions of the capabilities belong to o's spec and generation. *)
Evaluated(o) ==
  /\ Bound(o.status.connector, o.spec.connector, o.generation)
  /\ Bound(o.status.contracts, o.spec.contractChecks, o.generation)
  /\ Bound(o.status.source, o.spec.source = "engine", o.generation)

(* Observe evaluates the working copy. *)
LEMMA ObserveFacts ==
  ASSUME product \in Objects, Observe
  PROVE  /\ product' \in Objects /\ pc' = "composition"
         /\ product'.spec = product.spec /\ product'.generation = product.generation
         /\ source' \in [ready : BOOLEAN, reason : Reasons]
         /\ Evaluated(product')
         /\ source'.ready => Passing(product'.status.source)
<1> DEFINE origin == IF product.spec.source = "engine" THEN observeSource ELSE None
           status == [product.status EXCEPT !.connector = observeConnector,
                                            !.contracts = observeContracts,
                                            !.source = origin]
<1>1. /\ observeConnector \in Conditions \cup {None}
      /\ Bound(observeConnector, product.spec.connector, product.generation)
      /\ observeContracts \in Conditions \cup {None}
      /\ Bound(observeContracts, product.spec.contractChecks, product.generation)
      /\ observeSource \in Conditions
      /\ observeSource.observedGeneration = product.generation
  BY ObserversType
<1>2. origin \in Conditions \cup {None}
      /\ Bound(origin, product.spec.source = "engine", product.generation)
  BY <1>1, NoneAssumption DEF Bound
<1>3. product.status \in Statuses
  BY StatusFields
<1>4. /\ status \in Statuses /\ status.connector = observeConnector
      /\ status.contracts = observeContracts /\ status.source = origin
  <2> HIDE DEF origin
  <2> QED
    BY <1>1, <1>2, <1>3 DEF Statuses
<1>5. product' = [product EXCEPT !.status = status] /\ pc' = "composition"
  BY DEF Observe
<1> HIDE DEF status
<1>6. /\ product' \in Objects /\ product'.status = status
      /\ product'.spec = product.spec /\ product'.generation = product.generation
  BY <1>4, <1>5, StatusReplaced
<1>7. Evaluated(product')
  <2> HIDE DEF origin
  <2> QED
    BY <1>1, <1>2, <1>4, <1>6 DEF Evaluated
<1>8. observeSource.ok \in BOOLEAN /\ observeSource.reason \in Reasons
  BY <1>1 DEF Conditions
<1>9. source' = IF product.spec.source = "none" THEN NoSource
                ELSE [ready |-> observeSource.ok, reason |-> observeSource.reason]
  BY DEF Observe
<1>10. source' \in [ready : BOOLEAN, reason : Reasons]
  BY <1>8, <1>9 DEF NoSource, Reasons
<1>11. source'.ready => Passing(product'.status.source)
  BY <1>4, <1>6, <1>9 DEF Passing
<1> QED
  BY <1>5, <1>6, <1>7, <1>10, <1>11

-----------------------------------------------------------------------------
(* Composing, and the dependency loop.                                     *)

(* What SkipComposition puts into the working copy. *)
LEMMA UncomposedFacts ==
  ASSUME product \in Objects
  PROVE  /\ Uncomposed \in Objects
         /\ Uncomposed.spec = product.spec /\ Uncomposed.generation = product.generation
         /\ Uncomposed.status.connector = product.status.connector
         /\ Uncomposed.status.contracts = product.status.contracts
         /\ Uncomposed.status.source = product.status.source
         /\ Uncomposed.status.inputs = {}
         /\ Uncomposed.status.composition # None =>
              /\ Contracted(product.spec) /\ ~Uncomposed.status.composition.ok
              /\ Uncomposed.status.composition.observedGeneration = product.generation
         /\ Contracted(product.spec) => Uncomposed.status.composition # None
<1> DEFINE condition == IF Contracted(product.spec)
                        THEN Condition(FALSE, "CompositionFeatureDisabled", product.generation)
                        ELSE None
           status == [product.status EXCEPT !.inputs = {}, !.composition = condition]
<1>1. product.generation \in Nat /\ product.status \in Statuses
  BY StatusFields
<1>2. "CompositionFeatureDisabled" \in Reasons
  BY DEF Reasons
<1>3. /\ condition \in Conditions \cup {None}
      /\ condition # None => /\ Contracted(product.spec) /\ ~condition.ok
                             /\ condition.observedGeneration = product.generation
      /\ Contracted(product.spec) => condition # None
  <2>1. CASE Contracted(product.spec)
    <3>1. condition = Condition(FALSE, "CompositionFeatureDisabled", product.generation)
      BY <2>1
    <3> HIDE DEF condition
    <3>2. /\ condition \in Conditions /\ ~condition.ok
          /\ condition.observedGeneration = product.generation
      BY <1>1, <1>2, <3>1, ConditionType
    <3> QED
      BY <2>1, <3>2, NoneAssumption
  <2>2. CASE ~Contracted(product.spec)
    BY <2>2
  <2> QED
    BY <2>1, <2>2
<1>4. Uncomposed = [product EXCEPT !.status = status]
  BY DEF Uncomposed
<1> HIDE DEF condition
<1>5. /\ status \in Statuses
      /\ status.composition = condition /\ status.inputs = {}
      /\ status.connector = product.status.connector
      /\ status.contracts = product.status.contracts
      /\ status.source = product.status.source
  BY <1>1, <1>3 DEF Statuses
<1> HIDE DEF status
<1>6. /\ Uncomposed \in Objects /\ Uncomposed.status = status
      /\ Uncomposed.spec = product.spec /\ Uncomposed.generation = product.generation
  BY <1>4, <1>5, StatusReplaced
<1> QED
  BY <1>3, <1>5, <1>6

(* The walk starts from the working copy. *)
LEMMA BeginType ==
  ASSUME product \in Objects, target \in Products,
         Enter([EmptyGraph EXCEPT !.products[target] = product], <<>>, target, 0)
  PROVE  WalkOK' /\ pc' \in {"visit", "lineage"}
<1> DEFINE g == [EmptyGraph EXCEPT !.products[target] = product]
<1>1. g \in Graphs /\ g.products[target] \in Objects
  BY DEF EmptyGraph, Graphs
<1>2. \E full \in BOOLEAN : EnterUnless(full, g, <<>>, target)
  BY DEF Enter
<1> HIDE DEF g
<1>3. <<>> \in Seq(Frames) /\ FramesLoaded(g, <<>>)
  BY DEF FramesLoaded
<1> QED
  BY <1>1, <1>2, <1>3, EnterType

(* One input of the loop: the next one, or the reason it fails for. *)
LEMMA CheckInputFacts ==
  ASSUME CheckInput
  PROVE  \/ Proceed(product, next + 1)
         \/ /\ next' = next
            /\ \E reason \in Reasons, err \in BOOLEAN : setReadiness(product, FALSE, reason, err)
<1> DEFINE port == product.spec.inputs[next]
           dependency == cache[port.ref]
           reason == IF port.foreign THEN "CrossNamespaceDependencyDenied"
                     ELSE IF dependency = None THEN "DependencyNotFound"
                     ELSE IF ~producerReady(dependency) THEN "DependencyNotReady"
                     ELSE IF ~hasOutput(dependency, port.output) THEN "OutputNotFound"
                     ELSE ""
<1>1. reason \in Reasons
  BY DEF Reasons
<1>2. \/ Proceed(product, next + 1)
      \/ setReadiness(product, FALSE, reason, FALSE) /\ UNCHANGED next
      \/ setReadiness(product, FALSE, "DependencyUnavailable", TRUE) /\ UNCHANGED next
  BY DEF CheckInput
<1>3. "DependencyUnavailable" \in Reasons
  BY DEF Reasons
<1> HIDE DEF reason
<1> QED
  BY <1>1, <1>2, <1>3

-----------------------------------------------------------------------------
(* Type correctness.                                                       *)

(* A new object, as a publisher creates it. *)
LEMMA NewObjectType ==
  ASSUME NEW s \in Specs
  PROVE  NewObject(s) \in Objects /\ NewObject(s).status.ready = None
<1>1. NewStatus \in Statuses /\ NewStatus.ready = None
  BY DEF NewStatus, Statuses
<1> QED
  BY <1>1 DEF NewObject, Objects

(* An edit, and a deletion that waits, keep the object and its status. *)
LEMMA EditedType ==
  ASSUME NEW o \in Objects, NEW s \in Specs
  PROVE  /\ [o EXCEPT !.spec = s, !.generation = @ + 1] \in Objects
         /\ [o EXCEPT !.spec = s, !.generation = @ + 1].generation = o.generation + 1
         /\ [o EXCEPT !.spec = s, !.generation = @ + 1].status = o.status
<1>1. o.generation + 1 \in Nat
  BY StatusFields
<1>2. [o EXCEPT !.spec = s, !.generation = @ + 1] = [o EXCEPT !.spec = s, !.generation = o.generation + 1]
  OBVIOUS
<1> QED
  BY <1>1, <1>2 DEF Objects

LEMMA DeletingType ==
  ASSUME NEW o \in Objects
  PROVE  /\ [o EXCEPT !.deleting = TRUE, !.generation = @ + 1] \in Objects
         /\ [o EXCEPT !.deleting = TRUE, !.generation = @ + 1].generation = o.generation + 1
         /\ [o EXCEPT !.deleting = TRUE, !.generation = @ + 1].status = o.status
<1>1. o.generation + 1 \in Nat
  BY StatusFields
<1>2. [o EXCEPT !.deleting = TRUE, !.generation = @ + 1]
        = [o EXCEPT !.deleting = TRUE, !.generation = o.generation + 1]
  OBVIOUS
<1> QED
  BY <1>1, <1>2 DEF Objects

(* The worker between two reconciliations. *)
LEMMA IdleType ==
  /\ EmptyGraph \in Graphs /\ NoObservation \in Observations
  /\ NewStatus \in Statuses /\ NoSource \in [ready : BOOLEAN, reason : Reasons]
  /\ <<>> \in Seq(Frames) /\ FramesLoaded(EmptyGraph, <<>>)
<1>1. EmptyGraph \in Graphs
  BY DEF EmptyGraph, Graphs
<1>2. NewStatus \in Statuses
  BY DEF NewStatus, Statuses
<1> QED
  BY <1>1, <1>2 DEF NoObservation, Observations, NoSource, FramesLoaded, Reasons

(* The types of what StopWorker leaves. *)
LEMMA StopWorkerType ==
  ASSUME StopWorker
  PROVE  /\ pc' = "idle" /\ target' \in Products \cup {None} /\ product' \in Objects \cup {None}
         /\ base' \in Statuses /\ current' \in BOOLEAN /\ next' \in Nat /\ failed' \in BOOLEAN
         /\ source' \in [ready : BOOLEAN, reason : Reasons]
         /\ graph' \in Graphs /\ stack' \in Seq(Frames) /\ observation' \in Observations
         /\ FramesLoaded(graph', stack')
  BY IdleType DEF StopWorker

(* Publishers only apply specs. *)
LEMMA ManifestSpecs ==
  ASSUME NEW p \in Products, NEW s \in Manifests[p]
  PROVE  s \in Specs
  BY ManifestsAssumption

(* Initial states have the types. *)
LEMMA InitType == Init => TypeInv
<1> SUFFICES ASSUME Init PROVE TypeInv
  OBVIOUS
<1>1. \A p \in Products : api[p] = None \/ api[p] \in Objects
  <2> SUFFICES ASSUME NEW p \in Products, api[p] # None
               PROVE  api[p] \in Objects
    OBVIOUS
  <2>1. PICK s \in UNION {Manifests[q] : q \in Products} : api[p] = NewObject(s)
    BY DEF Init
  <2>2. s \in Specs
    BY ManifestSpecs
  <2> QED
    BY <2>1, <2>2, NewObjectType
<1>2. api \in [Products -> Objects \cup {None}]
  <2>1. api = [p \in Products |-> api[p]]
    BY DEF Init
  <2> QED
    BY <1>1, <2>1
<1>3. /\ cache \in [Products -> Objects \cup {None}]
      /\ fresh \subseteq Products /\ depEvents \subseteq Products
      /\ queue \subseteq Products /\ timers \subseteq Products
  BY <1>2 DEF Init, Existing
<1>4. reachable \in BOOLEAN /\ enabled \subseteq Features /\ facts \in [Products -> SUBSET Facts]
  BY ReconcilerAssumption DEF Init
<1>5. /\ pc = "idle" /\ target \in Products \cup {None} /\ product \in Objects \cup {None}
      /\ base \in Statuses /\ current \in BOOLEAN /\ next \in Nat /\ failed \in BOOLEAN
      /\ source \in [ready : BOOLEAN, reason : Reasons]
      /\ graph \in Graphs /\ stack \in Seq(Frames) /\ observation \in Observations
      /\ FramesLoaded(graph, stack)
  BY IdleType DEF Init, IdleWorker
<1>6. FreshCopies /\ CurrentExists
  BY DEF Init, IdleWorker, FreshCopies, CurrentExists
<1> QED
  BY <1>2, <1>3, <1>4, <1>5, <1>6 DEF TypeInv, TypeOK, Phases

(* Every step keeps the types. *)
LEMMA NextType == TypeInv /\ [Next]_vars => TypeInv'
<1> SUFFICES ASSUME TypeInv, [Next]_vars PROVE TypeInv'
  OBVIOUS
<1> USE DEF TypeInv, FreshCopies, CurrentExists, Phases
<1>1. ASSUME NEW p \in Products, NEW o \in Objects \cup {None}, Store(p, o)
      PROVE  TypeInv'
  BY <1>1 DEF TypeOK, Store, queueVars, worldVars, walkVars
<1>2. ASSUME NEW p \in Touched, Create(p) \/ Edit(p) \/ MarkDeleting(p) \/ Remove(p)
      PROVE  TypeInv'
  <2>1. p \in Products
    BY ReconcilerAssumption
  <2>2. api[p] \in Objects \cup {None}
    BY <2>1 DEF TypeOK
  <2>3. CASE Create(p)
    BY <1>1, <2>1, <2>3, ManifestSpecs, NewObjectType DEF Create
  <2>4. CASE Edit(p)
    <3>1. PICK s \in Manifests[p] : Store(p, [api[p] EXCEPT !.spec = s, !.generation = @ + 1])
      BY <2>4 DEF Edit
    <3>2. s \in Specs
      BY <2>1, ManifestSpecs
    <3>3. [api[p] EXCEPT !.spec = s, !.generation = @ + 1] \in Objects
      BY <2>2, <2>4, <3>2, EditedType DEF Edit
    <3> QED
      BY <1>1, <2>1, <3>1, <3>3
  <2>5. CASE MarkDeleting(p)
    <3>1. [api[p] EXCEPT !.deleting = TRUE, !.generation = @ + 1] \in Objects
      BY <2>2, <2>5, DeletingType DEF MarkDeleting
    <3> QED
      BY <1>1, <2>1, <2>5, <3>1 DEF MarkDeleting
  <2>6. CASE Remove(p)
    BY <1>1, <2>1, <2>6 DEF Remove
  <2> QED
    BY <1>2, <2>3, <2>4, <2>5, <2>6
<1>3. ASSUME NEW p \in Touched, FactChanges(p)
      PROVE  TypeInv'
  <2>1. p \in Products
    BY ReconcilerAssumption
  <2>2. PICK k \in Facts :
          facts' = [facts EXCEPT ![p] = IF k \in facts[p] THEN facts[p] \ {k} ELSE facts[p] \cup {k}]
    BY <1>3 DEF FactChanges
  <2>3. facts' \in [Products -> SUBSET Facts]
    BY <2>1, <2>2 DEF TypeOK
  <2> QED
    BY <1>3, <2>3 DEF TypeOK, FactChanges, watchVars, queueVars, workVars, walkVars
<1>4. CASE ApiChanges
  BY <1>4 DEF TypeOK, ApiChanges, watchVars, queueVars, workVars, walkVars
<1>5. CASE Restart
  <2>1. enabled' \subseteq Features
    BY <1>5, ReconcilerAssumption DEF Restart
  <2> QED
    BY <1>5, <2>1, StopWorkerType DEF TypeOK, Restart, Existing
<1>6. ASSUME NEW p \in Products, InformerSync(p)
      PROVE  TypeInv'
  BY <1>6 DEF TypeOK, InformerSync, worldVars, workVars, walkVars
<1>7. ASSUME NEW p \in Products, requestsForDependency(p)
      PROVE  TypeInv'
  <2>1. queue' \subseteq Products
    BY <1>7 DEF TypeOK, requestsForDependency, requests, Consumers
  <2> QED
    BY <1>7, <2>1 DEF TypeOK, requestsForDependency, worldVars, workVars, walkVars
<1>8. ASSUME NEW p \in Products, TimerFires(p)
      PROVE  TypeInv'
  BY <1>8 DEF TypeOK, TimerFires, watchVars, worldVars, workVars, walkVars
<1>9. ASSUME NEW p \in Products, BeginReconcile(p)
      PROVE  TypeInv'
  <2>1. CASE UNCHANGED <<pc, workVars>>
    BY <1>9, <2>1 DEF TypeOK, BeginReconcile, watchVars, worldVars, workVars, walkVars
  <2>2. CASE cache[p] # None
    <3>1. cache[p] \in Objects /\ cache[p].status \in Statuses
      BY <2>2 DEF TypeOK, Objects
    <3>2. \/ UNCHANGED <<pc, workVars>>
          \/ /\ target' = p /\ product' = cache[p] /\ base' = cache[p].status
             /\ current' = (p \in fresh) /\ pc' = "observe" /\ UNCHANGED <<source, next, failed>>
      BY <1>9 DEF BeginReconcile
    <3>3. (p \in fresh) \in BOOLEAN /\ (p \in fresh => api[p] \in Objects)
      BY <3>1
    <3>4. CASE /\ target' = p /\ product' = cache[p] /\ base' = cache[p].status
               /\ current' = (p \in fresh) /\ pc' = "observe" /\ UNCHANGED <<source, next, failed>>
      <4>1. current' \in BOOLEAN /\ (current' => api[p] \in Objects)
        BY <3>3, <3>4
      <4>2. UNCHANGED <<api, cache, watchVars, timers, worldVars, walkVars>> /\ queue' = queue \ {p}
        BY <1>9 DEF BeginReconcile
      <4> QED
        BY <3>1, <3>4, <4>1, <4>2 DEF TypeOK, watchVars, worldVars, walkVars
    <3> QED
      BY <2>1, <3>2, <3>4
  <2> QED
    BY <1>9, <2>1, <2>2 DEF BeginReconcile
<1>10. CASE Observe
  <2>1. product \in Objects /\ target \in Products
    BY <1>10 DEF TypeOK, Observe
  <2> QED
    BY <1>10, <2>1, ObserveFacts DEF TypeOK, Observe, Surroundings, watchVars, queueVars, walkVars
<1>11. CASE SkipComposition
  <2>1. product \in Objects /\ target \in Products
    BY <1>11 DEF TypeOK, SkipComposition
  <2>2. /\ product' \in Objects /\ next' \in Nat /\ failed' \in BOOLEAN
        /\ pc' \in {"inputs", "write"}
    BY <1>11, <2>1, UncomposedFacts, DecideType DEF TypeOK, SkipComposition
  <2> QED
    BY <1>11, <2>1, <2>2 DEF TypeOK, SkipComposition, Surroundings, watchVars, queueVars, walkVars
<1>12. CASE observeComposition
  <2>1. product \in Objects /\ target \in Products
    BY <1>12 DEF TypeOK, observeComposition
  <2>2. WalkOK' /\ pc' \in {"visit", "lineage"}
    BY <1>12, <2>1, BeginType DEF observeComposition, BeginComposition
  <2>3. UNCHANGED <<cache, reachable, target, product, Surroundings, base, current, source,
                    next, failed>>
    BY <1>12 DEF observeComposition, BeginComposition
  <2> QED
    BY <1>12, <2>1, <2>2, <2>3 DEF TypeOK, WalkOK, Surroundings, watchVars, queueVars,
                                   observeComposition
<1>13. CASE VisitProducers
  <2>1. WalkOK
    BY DEF TypeOK, WalkOK
  <2>2. visit /\ active
    BY <1>13 DEF VisitProducers, visit, VisitForeign, VisitTooMany, VisitMissing,
                 VisitUnavailable, VisitCycle, VisitAgain, VisitNew, Return, pending, resolves
  <2>3. WalkOK' /\ pc' \in {"visit", "lineage"}
    BY <2>1, <2>2, VisitType DEF TypeOK
  <2>4. target \in Products /\ product \in Objects
    BY <2>2 DEF TypeOK, active
  <2>5. UNCHANGED <<cache, reachable, target, product, Surroundings, base, current, source,
                    next, failed>>
    BY <1>13 DEF VisitProducers, visit
  <2>6. TypeOK'
    BY <2>3, <2>4, <2>5 DEF TypeOK, WalkOK, Surroundings, watchVars, queueVars
  <2>7. FreshCopies' /\ CurrentExists'
    BY <2>2, <2>5 DEF active, Surroundings, watchVars
  <2> QED
    BY <2>3, <2>6, <2>7 DEF WalkOK
<1>14. CASE RecordLineage
  <2>1. product \in Objects /\ target \in Products /\ WalkOK
    BY <1>14 DEF TypeOK, RecordLineage, WalkOK
  <2>2. /\ Composed \in Objects /\ Composed.status.composition \in Conditions
        /\ compositionObservation \in Observations
    BY <2>1, ComposedType, VerdictType
  <2>3. compositionObservation.err \in BOOLEAN
    BY <2>2 DEF Observations
  <2>4. /\ product' \in Objects /\ next' \in Nat /\ failed' \in BOOLEAN
        /\ pc' \in {"inputs", "write"}
    BY <1>14, <2>2, <2>3, DecideType DEF TypeOK, RecordLineage
  <2> QED
    BY <1>14, <2>1, <2>2, <2>4 DEF TypeOK, RecordLineage, Surroundings, watchVars, queueVars
<1>15. CASE CheckInput
  <2>1. product \in Objects /\ target \in Products /\ next \in Nat /\ failed \in BOOLEAN
    BY <1>15 DEF TypeOK, CheckInput
  <2>2. /\ product' \in Objects /\ next' \in Nat /\ failed' \in BOOLEAN
        /\ pc' \in {"inputs", "write"}
    <3>1. CASE Proceed(product, next + 1)
      <4>1. next + 1 \in Nat
        BY <2>1
      <4>2. \/ product' = product /\ pc' = "inputs" /\ failed' = failed
            \/ \E ok \in BOOLEAN, reason \in Reasons : setReadiness(product, ok, reason, FALSE)
        BY <2>1, <3>1, <4>1, ProceedFacts
      <4>3. next' = next + 1
        BY <2>1, <3>1, <4>1, ProceedFacts
      <4> QED
        BY <2>1, <4>1, <4>2, <4>3, SetReadinessFacts
    <3>2. CASE next' = next /\ \E reason \in Reasons, err \in BOOLEAN :
                                 setReadiness(product, FALSE, reason, err)
      BY <2>1, <3>2, SetReadinessFacts
    <3> QED
      BY <1>15, <3>1, <3>2, CheckInputFacts
  <2> QED
    BY <1>15, <2>1, <2>2 DEF TypeOK, CheckInput, Surroundings, watchVars, queueVars, walkVars
<1>16. CASE updateStatusIfChanged
  <2>1. pc # "idle" /\ product \in Objects /\ target \in Products
    BY <1>16 DEF TypeOK, updateStatusIfChanged
  <2>2. \E err : EndReconcile(err)
    BY <1>16 DEF updateStatusIfChanged
  <2>3. StopWorker /\ queue' \subseteq Products /\ timers' \subseteq Products
    BY <2>1, <2>2 DEF TypeOK, EndReconcile
  <2>4. UNCHANGED <<cache, depEvents, worldVars>>
    BY <1>16 DEF updateStatusIfChanged
  <2>5. CASE UNCHANGED <<api, fresh>>
    BY <2>3, <2>4, <2>5, StopWorkerType DEF TypeOK, worldVars
  <2>6. CASE current /\ api' = [api EXCEPT ![target].status = product.status]
             /\ fresh' = fresh \ {target}
    <3>1. product.status \in Statuses /\ api[target] \in Objects
      BY <2>1, <2>6, StatusFields
    <3>2. [api[target] EXCEPT !.status = product.status] \in Objects
      BY <3>1, StatusReplaced
    <3>3. api' = [api EXCEPT ![target] = [api[target] EXCEPT !.status = product.status]]
      BY <2>6
    <3>4. api' \in [Products -> Objects \cup {None}]
      BY <2>1, <3>2, <3>3 DEF TypeOK
    <3>5. \A p \in fresh' : cache'[p] = api'[p]
      BY <2>4, <2>6, <3>3 DEF TypeOK
    <3> QED
      BY <2>3, <2>4, <2>6, <3>4, <3>5, StopWorkerType DEF TypeOK, worldVars
  <2> QED
    BY <1>16, <2>5, <2>6 DEF updateStatusIfChanged
<1>17. CASE UNCHANGED vars
  BY <1>17 DEF TypeOK, vars, watchVars, queueVars, worldVars, workVars, walkVars
<1> QED
  BY <1>2, <1>3, <1>4, <1>5, <1>6, <1>7, <1>8, <1>9, <1>10, <1>11, <1>12, <1>13, <1>14, <1>15,
     <1>16, <1>17 DEF Next, Disturb, Machinery, Reconcile, Work

(* Every variable keeps its type, for every instance: Reconcile never      *)
(* looks into an object that is not there, and every status the server     *)
(* stores is made of the reasons and conditions the code can produce.      *)
THEOREM TypeCorrect == Spec => []TypeOK
<1>1. TypeInv => TypeOK
  BY DEF TypeInv
<1> QED
  BY <1>1, InitType, NextType, PTL DEF Spec

-----------------------------------------------------------------------------
(* Generation binding.                                                     *)

(* What observeComposition leaves in o belongs to o's inputs and           *)
(* generation, and passes only with every recorded input ready.            *)
Composable(o) ==
  /\ o.status.composition # None =>
       /\ o.spec.inputs # <<>>
       /\ o.status.composition.observedGeneration = o.generation
  /\ o.status.inputs # {} =>
       {<<entry.name, entry.ref>> : entry \in o.status.inputs}
         = {<<o.spec.inputs[i].name, o.spec.inputs[i].ref>> : i \in DOMAIN o.spec.inputs}
  /\ Passing(o.status.composition) => \A entry \in o.status.inputs : entry.ready
  /\ Contracted(o.spec) => o.status.composition # None

(* A Ready condition decided for o's own generation. *)
Decided(o) ==
  /\ o.status.ready \in Conditions
  /\ o.status.ready.observedGeneration = o.generation
  /\ Coherent(o)

(* A current copy differs from the server's object in its status only. *)
CurrentCopy ==
  pc # "idle" /\ current => /\ api[target].spec = product.spec
                            /\ api[target].generation = product.generation

(* What each phase of Reconcile has established of the working copy. *)
PhaseInv ==
  /\ pc \in {"composition", "visit", "lineage"} =>
       Evaluated(product) /\ (source.ready => Passing(product.status.source))
  /\ pc \in {"visit", "lineage"} => product.spec.inputs # <<>>
  /\ pc = "inputs" => /\ Evaluated(product) /\ Composable(product)
                      /\ Passing(product.status.source) /\ Passing(product.status.composition)
  /\ pc = "write" => Decided(product)

(* No stored Ready condition is ahead of its object's generation, so the   *)
(* generation an edit creates is one no condition was computed for.        *)
NotAhead(o) ==
  o # None /\ o.status.ready # None => o.status.ready.observedGeneration <= o.generation

(* GenerationBinding of one object. *)
BindingOf(o) ==
  /\ o # None /\ o.status.ready # None
  /\ o.status.ready.observedGeneration = o.generation
  => Coherent(o)

StoredInv == \A p \in Products : NotAhead(api[p]) /\ BindingOf(api[p])

BindingInv == TypeInv /\ CurrentCopy /\ PhaseInv /\ StoredInv

(* setReadiness decides, if it says True only with everything passing. *)
LEMMA SetReadinessDecides ==
  ASSUME NEW o \in Objects, NEW ok \in BOOLEAN, NEW reason \in Reasons, NEW err \in BOOLEAN,
         setReadiness(o, ok, reason, err), Evaluated(o), Composable(o),
         ok => /\ Passing(o.status.connector) /\ Passing(o.status.contracts)
               /\ Passing(o.status.source) /\ Passing(o.status.composition)
  PROVE  Decided(product') /\ pc' = "write"
<1>1. /\ pc' = "write"
      /\ product'.spec = o.spec /\ product'.generation = o.generation
      /\ product'.status.observedGeneration = o.generation
      /\ product'.status.ready \in Conditions
      /\ product'.status.ready.ok = ok
      /\ product'.status.ready.observedGeneration = o.generation
      /\ product'.status.connector = o.status.connector
      /\ product'.status.contracts = o.status.contracts
      /\ product'.status.source = o.status.source
      /\ product'.status.composition = o.status.composition
      /\ product'.status.inputs = o.status.inputs
  BY SetReadinessFacts
<1>2. Coherent(product')
  BY <1>1 DEF Coherent, Evaluated, Composable
<1> QED
  BY <1>1, <1>2 DEF Decided

(* So does Proceed, unless it goes on to the next input. *)
LEMMA ProceedDecides ==
  ASSUME NEW o \in Objects, NEW i \in Nat, Proceed(o, i), Evaluated(o), Composable(o),
         Passing(o.status.source), Passing(o.status.composition)
  PROVE  \/ pc' = "inputs" /\ product' = o
         \/ /\ pc' = "write" /\ Decided(product')
            /\ product'.spec = o.spec /\ product'.generation = o.generation
<1>1. CASE product' = o /\ pc' = "inputs"
  BY <1>1
<1>2. CASE \E ok \in BOOLEAN, reason \in Reasons :
             /\ setReadiness(o, ok, reason, FALSE)
             /\ ok => Passing(o.status.connector) /\ Passing(o.status.contracts)
  <2>1. PICK ok \in BOOLEAN, reason \in Reasons :
             /\ setReadiness(o, ok, reason, FALSE)
             /\ ok => Passing(o.status.connector) /\ Passing(o.status.contracts)
    BY <1>2
  <2>2. Decided(product') /\ pc' = "write"
    BY <2>1, SetReadinessDecides
  <2>3. product'.spec = o.spec /\ product'.generation = o.generation
    BY <2>1, SetReadinessFacts
  <2> QED
    BY <2>2, <2>3
<1> QED
  BY <1>1, <1>2, ProceedFacts

(* And Decide. *)
LEMMA DecideDecides ==
  ASSUME NEW o \in Objects, NEW err \in BOOLEAN, source \in [ready : BOOLEAN, reason : Reasons],
         err => o.status.composition \in Conditions, Decide(o, err),
         Evaluated(o), Composable(o), source.ready => Passing(o.status.source)
  PROVE  \/ /\ pc' = "inputs" /\ product' = o
            /\ Passing(o.status.source) /\ Passing(o.status.composition)
         \/ /\ pc' = "write" /\ Decided(product')
            /\ product'.spec = o.spec /\ product'.generation = o.generation
<1>1. CASE \E reason \in Reasons, e \in BOOLEAN : setReadiness(o, FALSE, reason, e)
  <2>1. PICK reason \in Reasons, e \in BOOLEAN : setReadiness(o, FALSE, reason, e)
    BY <1>1
  <2>2. Decided(product') /\ pc' = "write"
    BY <2>1, SetReadinessDecides
  <2>3. product'.spec = o.spec /\ product'.generation = o.generation
    BY <2>1, SetReadinessFacts
  <2> QED
    BY <2>2, <2>3
<1>2. CASE source.ready /\ Passing(o.status.composition) /\ \E i \in Nat : Proceed(o, i)
  BY <1>2, ProceedDecides
<1> QED
  BY <1>1, <1>2, DecideFacts

(* Decided speaks of spec, generation and status only. *)
LEMMA DecidedStored ==
  ASSUME NEW o, NEW w, Decided(w), w.generation \in Nat,
         o.spec = w.spec, o.generation = w.generation, o.status = w.status
  PROVE  NotAhead(o) /\ BindingOf(o)
  BY DEF Decided, NotAhead, BindingOf, Coherent

(* A change of generation leaves every condition behind. *)
LEMMA NewGenerationStored ==
  ASSUME NEW o \in Objects, NEW w \in Objects, NotAhead(o), o # None,
         w.generation = o.generation + 1, w.status = o.status
  PROVE  NotAhead(w) /\ BindingOf(w)
<1>1. o.generation \in Nat /\ o.status.ready \in Conditions \cup {None}
  BY StatusFields
<1>2. o.status.ready # None => /\ o.status.ready.observedGeneration \in Nat
                               /\ o.status.ready.observedGeneration <= o.generation
  BY <1>1 DEF NotAhead, Conditions
<1>3. o.status.ready # None => /\ o.status.ready.observedGeneration <= o.generation + 1
                               /\ o.status.ready.observedGeneration # o.generation + 1
  BY <1>1, <1>2
<1> QED
  BY <1>3 DEF NotAhead, BindingOf

(* The composition the worker skipped, or recorded, is its copy's own. *)
LEMMA UncomposedComposable ==
  ASSUME product \in Objects, Evaluated(product), source.ready => Passing(product.status.source)
  PROVE  /\ Evaluated(Uncomposed) /\ Composable(Uncomposed)
         /\ source.ready => Passing(Uncomposed.status.source)
<1>1. Contracted(product.spec) => product.spec.inputs # <<>>
  BY DEF Contracted
<1> QED
  BY <1>1, UncomposedFacts DEF Evaluated, Composable

LEMMA ComposedComposable ==
  ASSUME WalkOK, product \in Objects, product.spec.inputs # <<>>, Evaluated(product),
         source.ready => Passing(product.status.source)
  PROVE  /\ Evaluated(Composed) /\ Composable(Composed)
         /\ source.ready => Passing(Composed.status.source)
<1>1. /\ Composed.spec = product.spec /\ Composed.generation = product.generation
      /\ Composed.status.connector = product.status.connector
      /\ Composed.status.contracts = product.status.contracts
      /\ Composed.status.source = product.status.source
      /\ Composed.status.inputs = lineage
      /\ Composed.status.composition \in Conditions
      /\ Composed.status.composition.observedGeneration = product.generation
      /\ Composed.status.composition.ok <=> compositionObservation.reason = ""
  BY ComposedType
<1>2. Composed.status.composition # None
  BY <1>1, NoneAssumption
<1>3. Passing(Composed.status.composition) => \A entry \in lineage : entry.ready
  BY <1>1, <1>2, VerdictType DEF Passing
<1>4. lineage # {} =>
        {<<entry.name, entry.ref>> : entry \in lineage}
          = {<<product.spec.inputs[i].name, product.spec.inputs[i].ref>> :
               i \in DOMAIN product.spec.inputs}
  BY LineageType DEF WalkOK
<1>5. Composable(Composed)
  BY <1>1, <1>2, <1>3, <1>4 DEF Composable
<1> QED
  BY <1>1, <1>5 DEF Evaluated

(* In initial states no product has a Ready condition. *)
LEMMA InitBinding == Init => BindingInv
<1> SUFFICES ASSUME Init PROVE BindingInv
  OBVIOUS
<1>1. TypeInv
  BY InitType
<1>2. \A p \in Products : api[p] # None => api[p].status.ready = None
  <2> SUFFICES ASSUME NEW p \in Products, api[p] # None
               PROVE  api[p].status.ready = None
    OBVIOUS
  <2>1. PICK s \in UNION {Manifests[q] : q \in Products} : api[p] = NewObject(s)
    BY DEF Init
  <2>2. s \in Specs
    BY ManifestSpecs
  <2> QED
    BY <2>1, <2>2, NewObjectType
<1>3. StoredInv
  BY <1>2 DEF StoredInv, NotAhead, BindingOf
<1>4. CurrentCopy /\ PhaseInv
  BY DEF Init, IdleWorker, CurrentCopy, PhaseInv
<1> QED
  BY <1>1, <1>3, <1>4 DEF BindingInv

(* Every step keeps the binding. *)
LEMMA NextBinding == BindingInv /\ [Next]_vars => BindingInv'
<1> SUFFICES ASSUME BindingInv, [Next]_vars PROVE BindingInv'
  OBVIOUS
<1> DEFINE Preserved == CurrentCopy' /\ PhaseInv' /\ StoredInv'
<1>1. TypeInv /\ TypeInv' /\ CurrentCopy /\ PhaseInv /\ StoredInv
  BY NextType DEF BindingInv
<1>2. TypeOK /\ FreshCopies /\ CurrentExists /\ FramesLoaded(graph, stack)
  BY <1>1 DEF TypeInv
<1> SUFFICES Preserved
  BY <1>1 DEF BindingInv
<1>3. CASE UNCHANGED <<api, pc, workVars>>
  <2>1. UNCHANGED <<api, pc, target, product, current, source>>
    BY <1>3 DEF workVars
  <2> QED
    BY <1>1, <2>1 DEF CurrentCopy, PhaseInv, StoredInv
<1>4. ASSUME NEW p \in Products, NEW o, NotAhead(o), BindingOf(o), Store(p, o)
      PROVE  Preserved
  <2>1. /\ api' = [api EXCEPT ![p] = o] /\ current' = (current /\ target # p)
        /\ UNCHANGED <<pc, target, product, source>>
    BY <1>4 DEF Store
  <2>2. PhaseInv'
    BY <1>1, <2>1 DEF PhaseInv
  <2>3. StoredInv'
    BY <1>1, <1>2, <1>4, <2>1 DEF StoredInv, TypeOK
  <2>4. CurrentCopy'
    BY <1>1, <1>2, <2>1 DEF CurrentCopy, TypeOK
  <2> QED
    BY <2>2, <2>3, <2>4
<1>5. ASSUME NEW p \in Touched, Create(p) \/ Edit(p) \/ MarkDeleting(p) \/ Remove(p)
      PROVE  Preserved
  <2>1. p \in Products
    BY ReconcilerAssumption
  <2>2. api[p] \in Objects \cup {None} /\ NotAhead(api[p])
    BY <1>1, <1>2, <2>1 DEF TypeOK, StoredInv
  <2>3. CASE Create(p)
    <3>1. PICK s \in Manifests[p] : Store(p, NewObject(s))
      BY <2>3 DEF Create
    <3>2. NewObject(s).status.ready = None
      BY <2>1, ManifestSpecs, NewObjectType
    <3> QED
      BY <1>4, <2>1, <3>1, <3>2 DEF NotAhead, BindingOf
  <2>4. CASE Edit(p)
    <3>1. PICK s \in Manifests[p] : Store(p, [api[p] EXCEPT !.spec = s, !.generation = @ + 1])
      BY <2>4 DEF Edit
    <3>2. s \in Specs /\ api[p] \in Objects /\ api[p] # None
      BY <2>1, <2>2, <2>4, ManifestSpecs DEF Edit
    <3> DEFINE w == [api[p] EXCEPT !.spec = s, !.generation = @ + 1]
    <3>3. w \in Objects /\ w.generation = api[p].generation + 1 /\ w.status = api[p].status
      BY <3>2, EditedType
    <3> HIDE DEF w
    <3>4. NotAhead(w) /\ BindingOf(w)
      BY <2>2, <3>2, <3>3, NewGenerationStored
    <3> QED
      BY <1>4, <2>1, <3>1, <3>4 DEF w
  <2>5. CASE MarkDeleting(p)
    <3>1. Store(p, [api[p] EXCEPT !.deleting = TRUE, !.generation = @ + 1])
      BY <2>5 DEF MarkDeleting
    <3>2. api[p] \in Objects /\ api[p] # None
      BY <2>2, <2>5 DEF MarkDeleting
    <3> DEFINE w == [api[p] EXCEPT !.deleting = TRUE, !.generation = @ + 1]
    <3>3. w \in Objects /\ w.generation = api[p].generation + 1 /\ w.status = api[p].status
      BY <3>2, DeletingType
    <3> HIDE DEF w
    <3>4. NotAhead(w) /\ BindingOf(w)
      BY <2>2, <3>2, <3>3, NewGenerationStored
    <3> QED
      BY <1>4, <2>1, <3>1, <3>4 DEF w
  <2>6. CASE Remove(p)
    BY <1>4, <2>1, <2>6 DEF Remove, NotAhead, BindingOf
  <2> QED
    BY <1>5, <2>3, <2>4, <2>5, <2>6
<1>6. ASSUME NEW p \in Touched, FactChanges(p)
      PROVE  Preserved
  BY <1>3, <1>6 DEF FactChanges
<1>7. CASE ApiChanges
  BY <1>3, <1>7 DEF ApiChanges
<1>8. CASE api' = api /\ StopWorker
  BY <1>1, <1>8 DEF StopWorker, CurrentCopy, PhaseInv, StoredInv
<1>9. CASE Restart
  BY <1>8, <1>9 DEF Restart
<1>10. ASSUME NEW p \in Products, InformerSync(p) \/ requestsForDependency(p) \/ TimerFires(p)
       PROVE  Preserved
  BY <1>3, <1>10 DEF InformerSync, requestsForDependency, TimerFires
<1>11. ASSUME NEW p \in Products, BeginReconcile(p)
       PROVE  Preserved
  <2>1. CASE UNCHANGED <<pc, workVars>>
    BY <1>3, <1>11, <2>1 DEF BeginReconcile
  <2>2. CASE /\ target' = p /\ product' = cache[p] /\ current' = (p \in fresh)
             /\ pc' = "observe" /\ api' = api
    BY <1>1, <1>2, <2>2 DEF CurrentCopy, PhaseInv, StoredInv, FreshCopies
  <2> QED
    BY <1>11, <2>1, <2>2 DEF BeginReconcile
<1>12. ASSUME UNCHANGED <<api, target, current>>, pc # "idle",
              product'.spec = product.spec, product'.generation = product.generation
       PROVE  CurrentCopy' /\ StoredInv'
  BY <1>1, <1>12 DEF CurrentCopy, StoredInv
<1>13. CASE Observe
  <2>1. product \in Objects /\ pc = "observe" /\ UNCHANGED <<api, target, current>>
    BY <1>2, <1>13 DEF TypeOK, Observe, Surroundings
  <2>2. /\ pc' = "composition" /\ Evaluated(product')
        /\ product'.spec = product.spec /\ product'.generation = product.generation
        /\ source'.ready => Passing(product'.status.source)
    BY <1>13, <2>1, ObserveFacts
  <2>3. PhaseInv'
    BY <2>2 DEF PhaseInv
  <2> QED
    BY <1>12, <2>1, <2>2, <2>3
<1>14. CASE SkipComposition
  <2>1. /\ product \in Objects /\ pc = "composition" /\ UNCHANGED <<api, target, current>>
        /\ source \in [ready : BOOLEAN, reason : Reasons] /\ Decide(Uncomposed, FALSE)
    BY <1>2, <1>14 DEF TypeOK, SkipComposition, Surroundings
  <2>2. /\ Uncomposed \in Objects
        /\ Uncomposed.spec = product.spec /\ Uncomposed.generation = product.generation
    BY <2>1, UncomposedFacts
  <2>3. /\ Evaluated(Uncomposed) /\ Composable(Uncomposed)
        /\ source.ready => Passing(Uncomposed.status.source)
    BY <1>1, <2>1, UncomposedComposable DEF PhaseInv
  <2>4. \/ /\ pc' = "inputs" /\ product' = Uncomposed
           /\ Passing(Uncomposed.status.source) /\ Passing(Uncomposed.status.composition)
        \/ /\ pc' = "write" /\ Decided(product')
           /\ product'.spec = Uncomposed.spec /\ product'.generation = Uncomposed.generation
    BY <2>1, <2>2, <2>3, DecideDecides
  <2>5. PhaseInv'
    BY <2>3, <2>4 DEF PhaseInv
  <2> QED
    BY <1>12, <2>1, <2>2, <2>4, <2>5
<1>15. CASE observeComposition
  <2>1. /\ pc = "composition" /\ product.spec.inputs # <<>> /\ target \in Products
        /\ product \in Objects /\ UNCHANGED <<api, target, current, product, source>>
    BY <1>2, <1>15 DEF TypeOK, observeComposition, BeginComposition, Surroundings
  <2>2. pc' \in {"visit", "lineage"}
    BY <1>15, <2>1, BeginType DEF observeComposition, BeginComposition
  <2>3. PhaseInv'
    BY <1>1, <2>1, <2>2 DEF PhaseInv
  <2> QED
    BY <1>12, <2>1, <2>3
<1>16. CASE VisitProducers
  <2>1. visit /\ UNCHANGED <<api, target, current, product, source>>
    BY <1>16 DEF VisitProducers, visit, Surroundings
  <2>2. pc = "visit"
    BY <2>1 DEF visit, VisitForeign, VisitTooMany, VisitMissing, VisitUnavailable, VisitCycle,
                VisitAgain, VisitNew, Return, pending, resolves, active
  <2>3. WalkOK /\ cache \in [Products -> Objects \cup {None}]
    BY <1>2 DEF TypeOK, WalkOK
  <2>4. pc' \in {"visit", "lineage"}
    BY <2>1, <2>3, VisitType
  <2>5. PhaseInv'
    BY <1>1, <2>1, <2>2, <2>4 DEF PhaseInv
  <2> QED
    BY <1>12, <2>1, <2>2, <2>5
<1>17. CASE RecordLineage
  <2>1. /\ product \in Objects /\ pc = "lineage" /\ UNCHANGED <<api, target, current>>
        /\ source \in [ready : BOOLEAN, reason : Reasons] /\ WalkOK
        /\ Decide(Composed, compositionObservation.err)
    BY <1>2, <1>17 DEF TypeOK, RecordLineage, Surroundings, WalkOK
  <2>2. /\ Composed \in Objects /\ Composed.status.composition \in Conditions
        /\ Composed.spec = product.spec /\ Composed.generation = product.generation
    BY <2>1, ComposedType
  <2>3. compositionObservation.err \in BOOLEAN
    BY <2>1, VerdictType DEF Observations
  <2>4. /\ Evaluated(Composed) /\ Composable(Composed)
        /\ source.ready => Passing(Composed.status.source)
    BY <1>1, <2>1, ComposedComposable DEF PhaseInv
  <2>5. \/ /\ pc' = "inputs" /\ product' = Composed
           /\ Passing(Composed.status.source) /\ Passing(Composed.status.composition)
        \/ /\ pc' = "write" /\ Decided(product')
           /\ product'.spec = Composed.spec /\ product'.generation = Composed.generation
    BY <2>1, <2>2, <2>3, <2>4, DecideDecides
  <2>6. PhaseInv'
    BY <2>4, <2>5 DEF PhaseInv
  <2> QED
    BY <1>12, <2>1, <2>2, <2>5, <2>6
<1>18. CASE CheckInput
  <2>1. /\ product \in Objects /\ pc = "inputs" /\ UNCHANGED <<api, target, current>>
        /\ next + 1 \in Nat
    <3>1. pc = "inputs" /\ UNCHANGED <<api, target, current>>
      BY <1>18 DEF CheckInput, Surroundings
    <3>2. product \in Objects /\ next \in Nat
      BY <1>2, <3>1 DEF TypeOK
    <3> QED
      BY <3>1, <3>2
  <2>2. /\ Evaluated(product) /\ Composable(product)
        /\ Passing(product.status.source) /\ Passing(product.status.composition)
    BY <1>1, <2>1 DEF PhaseInv
  <2>3. \/ pc' = "inputs" /\ product' = product
        \/ /\ pc' = "write" /\ Decided(product')
           /\ product'.spec = product.spec /\ product'.generation = product.generation
    <3>1. CASE Proceed(product, next + 1)
      BY <2>1, <2>2, <3>1, ProceedDecides
    <3>2. CASE \E reason \in Reasons, err \in BOOLEAN : setReadiness(product, FALSE, reason, err)
      <4>1. PICK reason \in Reasons, err \in BOOLEAN : setReadiness(product, FALSE, reason, err)
        BY <3>2
      <4>2. Decided(product') /\ pc' = "write"
        BY <2>1, <2>2, <4>1, SetReadinessDecides
      <4>3. product'.spec = product.spec /\ product'.generation = product.generation
        BY <2>1, <4>1, SetReadinessFacts
      <4> QED
        BY <4>2, <4>3
    <3> QED
      BY <1>18, <3>1, <3>2, CheckInputFacts
  <2>4. PhaseInv'
    BY <2>2, <2>3 DEF PhaseInv
  <2> QED
    BY <1>12, <2>1, <2>3, <2>4
<1>19. CASE updateStatusIfChanged
  <2>1. pc = "write" /\ StopWorker /\ target \in Products /\ product \in Objects
    BY <1>2, <1>19 DEF updateStatusIfChanged, EndReconcile, TypeOK
  <2>2. CASE api' = api
    BY <1>8, <2>1, <2>2
  <2>3. CASE current /\ api' = [api EXCEPT ![target].status = product.status]
    <3>1. Decided(product) /\ product.status \in Statuses /\ product.generation \in Nat
      BY <1>1, <2>1, StatusFields DEF PhaseInv
    <3>2. /\ api[target] \in Objects /\ api[target].spec = product.spec
          /\ api[target].generation = product.generation
      BY <1>1, <1>2, <2>1, <2>3 DEF CurrentExists, CurrentCopy
    <3> DEFINE w == [api[target] EXCEPT !.status = product.status]
    <3>3. w.spec = product.spec /\ w.generation = product.generation /\ w.status = product.status
      BY <3>1, <3>2, StatusReplaced
    <3>4. api' = [api EXCEPT ![target] = w]
      BY <2>3
    <3> HIDE DEF w
    <3>5. NotAhead(w) /\ BindingOf(w)
      BY <3>1, <3>3, DecidedStored
    <3>6. StoredInv'
      BY <1>1, <1>2, <2>1, <3>4, <3>5 DEF StoredInv, TypeOK
    <3> QED
      BY <2>1, <3>6 DEF StopWorker, CurrentCopy, PhaseInv
  <2> QED
    BY <1>19, <2>2, <2>3 DEF updateStatusIfChanged
<1>20. CASE UNCHANGED vars
  BY <1>3, <1>20 DEF vars
<1> QED
  BY <1>5, <1>6, <1>7, <1>9, <1>10, <1>11, <1>13, <1>14, <1>15, <1>16, <1>17, <1>18, <1>19, <1>20
     DEF Next, Disturb, Machinery, Reconcile, Work

(* A Ready condition that claims its object's current generation was       *)
(* computed from that generation's spec, whatever edits, deletions,        *)
(* re-creations, restarts, lost answers and torn reads happened meanwhile. *)
THEOREM GenerationBound == Spec => []GenerationBinding
<1>1. BindingInv => GenerationBinding
  BY DEF BindingInv, StoredInv, BindingOf, GenerationBinding
<1> QED
  BY <1>1, InitBinding, NextBinding, PTL DEF Spec

-----------------------------------------------------------------------------
(* Timers cover lost events.                                               *)

(* Nothing outside o's own object decides its readiness. *)
Independent(o) == o.spec.inputs = <<>> /\ ~Unwatched(o)

(* The verdict of such a product is final. *)
SettledAlone(o) ==
  /\ Independent(o)
  /\ o.status.ready # None /\ o.status.ready.observedGeneration = o.generation
  /\ o.status.ready.ok /\ o.status.inputs = {}

(* What will bring the controller back to p, unless nothing needs to. *)
Covered(p) ==
  \/ p \in queue \/ p \in timers \/ p \notin fresh
  \/ pc # "idle" /\ target = p
  \/ api[p] = None
  \/ SettledAlone(api[p])

AllCovered == "composition" \in enabled => \A p \in Products : Covered(p)

(* A current copy started from the server's status, ... *)
CurrentBase == pc # "idle" /\ current => api[target].status = base

(* ... and a copy that is not current will be looked at again. *)
FreshCurrent == pc # "idle" /\ target \in fresh /\ target \notin queue => current

(* With composition on, a copy with inputs ends up with a composition and  *)
(* so with a timer; one without inputs never enters the dependency loop.   *)
CoverPhase ==
  /\ pc = "composition" => (product.spec.source = "none" => source.ready)
  /\ pc = "inputs" => product.spec.inputs # <<>>
  /\ pc \in {"inputs", "write"} /\ "composition" \in enabled /\ product.spec.inputs # <<>> =>
       product.status.composition # None
  /\ pc = "write" /\ Independent(product) => product.status.ready.ok /\ product.status.inputs = {}

CoverInv == BindingInv /\ AllCovered /\ CurrentBase /\ FreshCurrent /\ CoverPhase

(* Deciding an independent product makes it Ready. *)
LEMMA IndependentDecides ==
  ASSUME product \in Objects, Independent(product), Evaluated(product), source.ready,
         Decide(Uncomposed, FALSE)
  PROVE  /\ pc' = "write" /\ product'.spec = product.spec
         /\ product'.status.ready.ok /\ product'.status.inputs = {}
<1> DEFINE o == Uncomposed
<1>1. /\ o \in Objects /\ o.spec = product.spec /\ o.status.inputs = {}
      /\ o.status.connector = product.status.connector
      /\ o.status.contracts = product.status.contracts
      /\ o.status.composition # None => Contracted(product.spec)
  BY UncomposedFacts
<1>2. ~Contracted(product.spec) /\ product.spec.inputs = <<>>
  BY DEF Contracted, Independent
<1>3. product.status.connector = None /\ product.status.contracts = None
  BY DEF Evaluated, Bound, Independent, Unwatched
<1>4. /\ o.status.composition = None
      /\ Passing(o.status.connector) /\ Passing(o.status.contracts) /\ Passing(o.status.composition)
  BY <1>1, <1>2, <1>3 DEF Passing
<1>5. Proceed(o, 1)
  BY <1>4 DEF Decide
<1> HIDE DEF o
<1>6. ~(1 <= Len(o.spec.inputs))
  BY <1>1, <1>2
<1>7. setReadiness(o, TRUE, "DependenciesReady", FALSE)
  BY <1>4, <1>5, <1>6 DEF Proceed
<1>8. "DependenciesReady" \in Reasons
  BY DEF Reasons
<1> QED
  BY <1>1, <1>7, <1>8, SetReadinessFacts

(* Proceed keeps spec and composition. *)
LEMMA ProceedKeeps ==
  ASSUME NEW o \in Objects, NEW i \in Nat, i >= 1, Proceed(o, i)
  PROVE  /\ product'.spec = o.spec /\ product'.status.composition = o.status.composition
         /\ pc' \in {"inputs", "write"}
         /\ pc' = "inputs" => o.spec.inputs # <<>>
<1>1. CASE product' = o /\ pc' = "inputs"
  <2>1. o.spec.inputs \in Seq(InputPorts)
    BY StatusFields
  <2>2. i <= Len(o.spec.inputs)
    BY <1>1 DEF Proceed, setReadiness
  <2> QED
    BY <1>1, <2>1, <2>2
<1>2. CASE \E ok \in BOOLEAN, reason \in Reasons : setReadiness(o, ok, reason, FALSE)
  BY <1>2, SetReadinessFacts
<1> QED
  BY <1>1, <1>2, ProceedFacts

(* Deciding keeps spec, recorded inputs and composition, and the loop has  *)
(* an input to stand before.                                               *)
LEMMA DecideKeeps ==
  ASSUME NEW o \in Objects, NEW err \in BOOLEAN, source \in [ready : BOOLEAN, reason : Reasons],
         err => o.status.composition \in Conditions, Decide(o, err)
  PROVE  /\ product'.spec = o.spec /\ product'.status.composition = o.status.composition
         /\ pc' \in {"inputs", "write"}
         /\ pc' = "inputs" => o.spec.inputs # <<>>
<1>1. CASE \E reason \in Reasons, e \in BOOLEAN : setReadiness(o, FALSE, reason, e)
  BY <1>1, SetReadinessFacts
<1>2. CASE \E i \in Nat : i >= 1 /\ Proceed(o, i)
  <2>1. PICK i \in Nat : i >= 1 /\ Proceed(o, i)
    BY <1>2
  <2> QED
    BY <2>1, ProceedKeeps
<1> QED
  BY <1>1, <1>2, DecideFacts

(* In initial states every product is queued. *)
LEMMA InitCover == Init => CoverInv
<1> SUFFICES ASSUME Init PROVE CoverInv
  OBVIOUS
<1>1. AllCovered
  BY DEF Init, AllCovered, Covered, Existing
<1>2. CurrentBase /\ FreshCurrent /\ CoverPhase
  BY DEF Init, IdleWorker, CurrentBase, FreshCurrent, CoverPhase
<1> QED
  BY <1>1, <1>2, InitBinding DEF CoverInv

(* Every step keeps every product covered. *)
LEMMA NextCover == CoverInv /\ [Next]_vars => CoverInv'
<1> SUFFICES ASSUME CoverInv, [Next]_vars PROVE CoverInv'
  OBVIOUS
<1> DEFINE Preserved == AllCovered' /\ CurrentBase' /\ FreshCurrent' /\ CoverPhase'
<1>1. BindingInv /\ BindingInv' /\ AllCovered /\ CurrentBase /\ FreshCurrent /\ CoverPhase
  BY NextBinding DEF CoverInv
<1>2. /\ TypeOK /\ FreshCopies /\ CurrentExists /\ FramesLoaded(graph, stack)
      /\ CurrentCopy /\ PhaseInv
  BY <1>1 DEF BindingInv, TypeInv
<1> SUFFICES Preserved
  BY <1>1 DEF CoverInv
<1>3. ASSUME UNCHANGED <<api, fresh, enabled, pc, target, product, base, current, source>>,
             queue \subseteq queue', queue \cup timers \subseteq queue' \cup timers'
      PROVE  Preserved
  <2>1. AllCovered'
    BY <1>1, <1>3 DEF AllCovered, Covered
  <2>2. CurrentBase' /\ FreshCurrent'
    BY <1>1, <1>3 DEF CurrentBase, FreshCurrent
  <2>3. CoverPhase'
    BY <1>1, <1>3 DEF CoverPhase
  <2> QED
    BY <2>1, <2>2, <2>3
<1>4. ASSUME NEW p \in Products, NEW o, Store(p, o)
      PROVE  Preserved
  <2>1. /\ api' = [api EXCEPT ![p] = o] /\ fresh' = fresh \ {p}
        /\ current' = (current /\ target # p)
        /\ UNCHANGED <<queue, timers, enabled, pc, target, product, base, source>>
    BY <1>4 DEF Store, queueVars, worldVars
  <2>2. \A q \in Products : api'[q] = IF q = p THEN o ELSE api[q]
    BY <1>2, <2>1 DEF TypeOK
  <2>3. AllCovered'
    BY <1>1, <2>1, <2>2 DEF AllCovered, Covered
  <2>4. CurrentBase'
    BY <1>1, <1>2, <2>1, <2>2 DEF CurrentBase, TypeOK
  <2>5. FreshCurrent'
    BY <1>1, <2>1 DEF FreshCurrent
  <2>6. CoverPhase'
    BY <1>1, <2>1 DEF CoverPhase
  <2> QED
    BY <2>3, <2>4, <2>5, <2>6
<1>5. ASSUME NEW p \in Touched, Create(p) \/ Edit(p) \/ MarkDeleting(p) \/ Remove(p)
      PROVE  Preserved
  BY <1>4, <1>5, ReconcilerAssumption DEF Create, Edit, MarkDeleting, Remove
<1>6. ASSUME NEW p \in Touched, FactChanges(p)
      PROVE  Preserved
  BY <1>3, <1>6 DEF FactChanges, watchVars, queueVars, workVars
<1>7. CASE ApiChanges
  BY <1>3, <1>7 DEF ApiChanges, watchVars, queueVars, workVars
<1>8. CASE Restart
  <2>1. queue' = Existing(api) /\ api' = api /\ pc' = "idle"
    BY <1>8 DEF Restart, StopWorker
  <2> QED
    BY <2>1 DEF Existing, AllCovered, Covered, CurrentBase, FreshCurrent, CoverPhase
<1>9. ASSUME NEW p \in Products, InformerSync(p)
      PROVE  Preserved
  <2>1. /\ fresh' = fresh \cup {p} /\ queue' = queue \cup {p}
        /\ UNCHANGED <<api, timers, enabled, pc, target, product, base, current, source>>
    BY <1>9 DEF InformerSync, worldVars, workVars
  <2>2. AllCovered'
    BY <1>1, <2>1 DEF AllCovered, Covered
  <2>3. CurrentBase' /\ FreshCurrent'
    BY <1>1, <2>1 DEF CurrentBase, FreshCurrent
  <2>4. CoverPhase'
    BY <1>1, <2>1 DEF CoverPhase
  <2> QED
    BY <2>2, <2>3, <2>4
<1>10. ASSUME NEW p \in Products, requestsForDependency(p)
       PROVE  Preserved
  BY <1>3, <1>10 DEF requestsForDependency, worldVars, workVars
<1>11. ASSUME NEW p \in Products, TimerFires(p)
       PROVE  Preserved
  BY <1>3, <1>11 DEF TimerFires, watchVars, worldVars, workVars
<1>12. ASSUME NEW p \in Products, BeginReconcile(p)
       PROVE  Preserved
  <2>1. /\ pc = "idle" /\ queue' = queue \ {p}
        /\ UNCHANGED <<api, fresh, timers, enabled>>
    BY <1>12 DEF BeginReconcile, watchVars, worldVars
  <2>2. CASE cache[p] = None /\ UNCHANGED <<pc, workVars>>
    <3>1. p \in fresh => api[p] = None
      BY <1>2, <2>2 DEF FreshCopies
    <3>2. AllCovered'
      BY <1>1, <2>1, <2>2, <3>1 DEF AllCovered, Covered
    <3> QED
      BY <2>1, <2>2, <3>2 DEF CurrentBase, FreshCurrent, CoverPhase
  <2>3. CASE /\ target' = p /\ product' = cache[p] /\ base' = cache[p].status
             /\ current' = (p \in fresh) /\ pc' = "observe"
    <3>1. AllCovered'
      BY <1>1, <2>1, <2>3 DEF AllCovered, Covered
    <3>2. CurrentBase'
      BY <1>2, <2>1, <2>3 DEF CurrentBase, FreshCopies
    <3>3. FreshCurrent' /\ CoverPhase'
      BY <2>1, <2>3 DEF FreshCurrent, CoverPhase
    <3> QED
      BY <3>1, <3>2, <3>3
  <2> QED
    BY <1>12, <2>2, <2>3 DEF BeginReconcile
<1>13. ASSUME Surroundings' = Surroundings, UNCHANGED <<target, base, current>>,
              pc # "idle", pc' # "idle", CoverPhase'
       PROVE  Preserved
  <2>1. UNCHANGED <<api, fresh, queue, timers, enabled>>
    BY <1>13 DEF Surroundings, watchVars, queueVars
  <2>2. AllCovered'
    BY <1>1, <1>13, <2>1 DEF AllCovered, Covered
  <2>3. CurrentBase' /\ FreshCurrent'
    BY <1>1, <1>13, <2>1 DEF CurrentBase, FreshCurrent
  <2> QED
    BY <1>13, <2>2, <2>3
<1>14. CASE Observe
  <2>1. /\ product \in Objects /\ pc = "observe"
        /\ Surroundings' = Surroundings /\ UNCHANGED <<target, base, current>>
    BY <1>2, <1>14 DEF TypeOK, Observe
  <2>2. pc' = "composition" /\ product'.spec = product.spec
    BY <1>14, <2>1, ObserveFacts
  <2>3. product.spec.source = "none" => source'.ready
    BY <1>14 DEF Observe, NoSource
  <2>4. CoverPhase'
    BY <2>2, <2>3 DEF CoverPhase
  <2> QED
    BY <1>13, <2>1, <2>2, <2>4
<1>15. CASE SkipComposition
  <2>1. /\ product \in Objects /\ pc = "composition" /\ Decide(Uncomposed, FALSE)
        /\ source \in [ready : BOOLEAN, reason : Reasons]
        /\ product.spec.inputs = <<>> \/ "composition" \notin enabled
        /\ Surroundings' = Surroundings /\ UNCHANGED <<target, base, current>>
    BY <1>2, <1>15 DEF TypeOK, SkipComposition
  <2>2. Uncomposed \in Objects /\ Uncomposed.spec = product.spec
    BY <2>1, UncomposedFacts
  <2>3. /\ product'.spec = product.spec /\ pc' \in {"inputs", "write"}
        /\ pc' = "inputs" => product.spec.inputs # <<>>
    BY <2>1, <2>2, DecideKeeps
  <2>4. Independent(product) => product'.status.ready.ok /\ product'.status.inputs = {}
    BY <1>1, <1>2, <2>1, IndependentDecides DEF CoverPhase, PhaseInv, Independent, Unwatched
  <2>5. enabled' = enabled
    BY <2>1 DEF Surroundings
  <2>6. CoverPhase'
    BY <2>1, <2>3, <2>4, <2>5 DEF CoverPhase, Independent, Unwatched
  <2> QED
    BY <1>13, <2>1, <2>3, <2>6
<1>16. CASE observeComposition
  <2>1. /\ pc = "composition" /\ target \in Products /\ product \in Objects
        /\ Surroundings' = Surroundings /\ UNCHANGED <<target, base, current>>
    BY <1>2, <1>16 DEF TypeOK, observeComposition, BeginComposition
  <2>2. pc' \in {"visit", "lineage"}
    BY <1>16, <2>1, BeginType DEF observeComposition, BeginComposition
  <2>3. CoverPhase'
    BY <2>2 DEF CoverPhase
  <2> QED
    BY <1>13, <2>1, <2>2, <2>3
<1>17. CASE VisitProducers
  <2>1. visit /\ Surroundings' = Surroundings /\ UNCHANGED <<target, base, current>>
    BY <1>17 DEF VisitProducers, visit
  <2>2. pc = "visit"
    BY <2>1 DEF visit, VisitForeign, VisitTooMany, VisitMissing, VisitUnavailable, VisitCycle,
                VisitAgain, VisitNew, Return, pending, resolves, active
  <2>3. WalkOK /\ cache \in [Products -> Objects \cup {None}]
    BY <1>2 DEF TypeOK, WalkOK
  <2>4. pc' \in {"visit", "lineage"}
    BY <2>1, <2>3, VisitType
  <2>5. CoverPhase'
    BY <2>4 DEF CoverPhase
  <2> QED
    BY <1>13, <2>1, <2>2, <2>4, <2>5
<1>18. CASE RecordLineage
  <2>1. /\ product \in Objects /\ pc = "lineage" /\ WalkOK
        /\ source \in [ready : BOOLEAN, reason : Reasons]
        /\ Decide(Composed, compositionObservation.err)
        /\ Surroundings' = Surroundings /\ UNCHANGED <<target, base, current>>
    BY <1>2, <1>18 DEF TypeOK, RecordLineage, WalkOK
  <2>2. /\ Composed \in Objects /\ Composed.status.composition \in Conditions
        /\ Composed.spec = product.spec
    BY <2>1, ComposedType
  <2>3. compositionObservation.err \in BOOLEAN
    BY <2>1, VerdictType DEF Observations
  <2>4. /\ product'.spec = product.spec /\ pc' \in {"inputs", "write"}
        /\ product'.status.composition # None
    BY <2>1, <2>2, <2>3, DecideKeeps, NoneAssumption
  <2>5. product.spec.inputs # <<>>
    BY <1>2, <2>1 DEF PhaseInv
  <2>6. CoverPhase'
    BY <2>4, <2>5 DEF CoverPhase, Independent
  <2> QED
    BY <1>13, <2>1, <2>4, <2>6
<1>19. CASE CheckInput
  <2>1. /\ pc = "inputs" /\ Surroundings' = Surroundings /\ UNCHANGED <<target, base, current>>
    BY <1>19 DEF CheckInput
  <2>2. product \in Objects /\ next + 1 \in Nat /\ next + 1 >= 1
    <3>1. product \in Objects /\ next \in Nat
      BY <1>2, <2>1 DEF TypeOK
    <3> QED
      BY <3>1
  <2>3. /\ product'.spec = product.spec /\ pc' \in {"inputs", "write"}
        /\ product'.status.composition = product.status.composition
    <3>1. CASE Proceed(product, next + 1)
      BY <2>2, <3>1, ProceedKeeps
    <3>2. CASE \E reason \in Reasons, err \in BOOLEAN : setReadiness(product, FALSE, reason, err)
      BY <2>2, <3>2, SetReadinessFacts
    <3> QED
      BY <1>19, <3>1, <3>2, CheckInputFacts
  <2>4. /\ product.spec.inputs # <<>> /\ enabled' = enabled
        /\ "composition" \in enabled => product.status.composition # None
    BY <1>1, <2>1 DEF CoverPhase, Surroundings
  <2>5. CoverPhase'
    BY <2>3, <2>4 DEF CoverPhase, Independent
  <2> QED
    BY <1>13, <2>1, <2>3, <2>5
<1>20. CASE updateStatusIfChanged
  <2>1. /\ pc = "write" /\ pc' = "idle" /\ target \in Products /\ product \in Objects
        /\ enabled' = enabled
    BY <1>2, <1>20 DEF updateStatusIfChanged, EndReconcile, StopWorker, TypeOK, worldVars
  <2>2. queue \subseteq queue' /\ timers \subseteq timers'
    BY <1>20 DEF updateStatusIfChanged, EndReconcile
  <2>3. \A p \in Products \ {target} : /\ api'[p] = api[p]
                                       /\ p \in fresh' <=> p \in fresh
    BY <1>2, <1>20 DEF updateStatusIfChanged, TypeOK
  <2>4. ASSUME NEW p \in Products, p = target, "composition" \in enabled
        PROVE  Covered(p)'
    <3>1. CASE fresh' = fresh \ {target}
      BY <2>4, <3>1 DEF Covered
    <3>2. CASE target \in queue'
      BY <2>4, <3>2 DEF Covered
    <3>3. CASE product.status = base /\ api' = api /\ fresh' = fresh /\ EndReconcile(FALSE)
      <4> SUFFICES ASSUME target \in fresh, target \notin queue, ~requeueAfter
                   PROVE  SettledAlone(api[target])
        BY <2>2, <2>4, <3>3 DEF Covered, EndReconcile
      <4>1. current
        BY <1>1, <2>1 DEF FreshCurrent
      <4>2. /\ api[target].spec = product.spec /\ api[target].generation = product.generation
            /\ api[target].status = product.status
        BY <1>1, <1>2, <2>1, <3>3, <4>1 DEF CurrentCopy, CurrentBase
      <4>3. Independent(product)
        BY <1>1, <2>1, <2>4 DEF CoverPhase, requeueAfter, Independent, Unwatched
      <4>4. product.status.ready.ok /\ product.status.inputs = {}
        BY <1>1, <2>1, <4>3 DEF CoverPhase
      <4>5. product.status.ready # None /\ product.status.ready.observedGeneration = product.generation
        BY <1>2, <2>1, NoneAssumption DEF PhaseInv, Decided
      <4> QED
        BY <4>2, <4>3, <4>4, <4>5 DEF SettledAlone, Independent, Unwatched
    <3>4. CASE failed /\ EndReconcile(failed)
      BY <3>2, <3>4 DEF EndReconcile
    <3>5. CASE EndReconcile(TRUE)
      BY <3>2, <3>5 DEF EndReconcile
    <3>6. CASE ~failed /\ product.status = base /\ UNCHANGED <<api, fresh>> /\ EndReconcile(failed)
      <4>1. failed = FALSE
        BY <1>2, <3>6 DEF TypeOK
      <4> QED
        BY <3>3, <3>6, <4>1
    <3> QED
      BY <1>20, <3>1, <3>4, <3>5, <3>6 DEF updateStatusIfChanged
  <2>5. AllCovered'
    <3> SUFFICES ASSUME "composition" \in enabled, NEW p \in Products, p # target
                 PROVE  Covered(p)'
      BY <2>1, <2>4 DEF AllCovered
    <3>1. Covered(p)
      BY <1>1 DEF AllCovered
    <3> QED
      BY <2>1, <2>2, <2>3, <3>1 DEF Covered
  <2> QED
    BY <2>1, <2>5 DEF CurrentBase, FreshCurrent, CoverPhase
<1>21. CASE UNCHANGED vars
  BY <1>3, <1>21 DEF vars, watchVars, queueVars, worldVars, workVars
<1> QED
  BY <1>5, <1>6, <1>7, <1>8, <1>9, <1>10, <1>11, <1>12, <1>14, <1>15, <1>16, <1>17, <1>18, <1>19,
     <1>20, <1>21 DEF Next, Disturb, Machinery, Reconcile, Work

(* With composition on, a quiescent controller has every product settled   *)
(* or on a timer, even when a failing List has lost the event that should  *)
(* have woken it.                                                          *)
THEOREM TimersCover == Spec => []TimerCoversLostEvents
<1>1. CoverInv => TimerCoversLostEvents
  <2> SUFFICES ASSUME CoverInv, Quiescent, "composition" \in enabled, NEW p \in Products,
                      p \notin timers
               PROVE  Settled(p)
    BY DEF TimerCoversLostEvents
  <2>1. api[p] = None \/ SettledAlone(api[p])
    BY DEF CoverInv, AllCovered, Covered, Quiescent
  <2>2. CASE api[p] = None
    BY <2>2 DEF Settled
  <2>3. CASE SettledAlone(api[p])
    <3>1. Evidence(p)
      BY <2>3 DEF SettledAlone, Independent, Unwatched, Evidence
    <3>2. api[p].spec.inputs = <<>>
      BY <2>3 DEF SettledAlone, Independent
    <3>3. InputsHold(p)
      BY <3>2 DEF InputsHold
    <3>4. ShouldBeReady(p)
      BY <3>1, <3>2, <3>3 DEF ShouldBeReady
    <3> QED
      BY <2>3, <3>2, <3>4 DEF SettledAlone, Settled
  <2> QED
    BY <2>1, <2>2, <2>3
<1> QED
  BY <1>1, InitCover, NextCover, PTL DEF Spec

(* The recorded inputs of o are about declared inputs, one about each. *)
Describes(o) ==
  /\ IsFiniteSet(o.status.inputs)
  /\ \A entry \in o.status.inputs : \E i \in DOMAIN o.spec.inputs : Names(o.spec.inputs[i], entry)
  /\ \A e, f \in o.status.inputs : e.name = f.name => e = f

(* Recorded inputs are published with a condition of o's own generation. *)
LineageOf(o) ==
  o.status.composition # None /\ o.status.composition.observedGeneration = o.generation => Describes(o)

(* No stored CompositionReady condition is ahead of its object, so that    *)
(* the generation an edit creates has no lineage to publish.               *)
CompositionBehind(o) ==
  o.status.composition # None => o.status.composition.observedGeneration <= o.generation

(* Every copy of a product carries a spec that was applied to it. *)
Declared ==
  /\ \A p \in Products : /\ api[p] # None => api[p].spec \in Manifests[p]
                         /\ cache[p] # None => cache[p].spec \in Manifests[p]
  /\ pc # "idle" => product.spec \in Manifests[target]

StoredLineage == \A p \in Products : api[p] # None => LineageOf(api[p]) /\ CompositionBehind(api[p])

WorkerLineage == pc \in {"inputs", "write"} => LineageOf(product)

RegistryInv == BindingInv /\ Declared /\ StoredLineage /\ WorkerLineage

-----------------------------------------------------------------------------
(* The worker.                                                             *)

(* The entry of an input names all of it. *)
LEMMA EntryNames ==
  ASSUME NEW port
  PROVE  Names(port, inputStatus(port))
  BY DEF inputStatus, Names

(* A finished walk describes the inputs of the working copy. *)
LEMMA ComposedDescribes ==
  ASSUME WalkOK, product \in Objects, target \in Products, product.spec \in Manifests[target]
  PROVE  LineageOf(Composed)
<1> DEFINE ports == product.spec.inputs
<1>1. Composed.spec = product.spec /\ Composed.status.inputs = lineage
  BY ComposedType
<1>2. Len(ports) \in Nat /\ DOMAIN ports = 1 .. Len(ports)
  BY StatusFields
<1>3. \A i, j \in DOMAIN ports : ports[i].name = ports[j].name => i = j
  BY InputNamesAssumption
<1>4. lineage = {} \/ lineage = {inputStatus(ports[i]) : i \in DOMAIN ports}
  BY DEF lineage
<1> HIDE DEF ports
<1>5. \A i \in DOMAIN ports : Names(ports[i], inputStatus(ports[i])) /\ inputStatus(ports[i]).name = ports[i].name
  BY EntryNames DEF Names
<1>6. IsFiniteSet(lineage)
  <2> DEFINE f == [i \in DOMAIN ports |-> inputStatus(ports[i])]
  <2>a. 1 \in Int /\ Len(ports) \in Int
    BY <1>2
  <2>b. IsFiniteSet(1 .. Len(ports))
    BY ONLY <2>a, FS_Interval
  <2>1. IsFiniteSet(DOMAIN ports)
    BY <1>2, <2>b
  <2>c. f \in Surjection(DOMAIN ports, {inputStatus(ports[i]) : i \in DOMAIN ports})
    BY DEF Surjection
  <2>2. IsFiniteSet({inputStatus(ports[i]) : i \in DOMAIN ports})
    BY <2>1, <2>c, FS_Surjection
  <2> QED
    BY <1>4, <2>2, FS_EmptySet
<1>7. \A entry \in lineage : \E i \in DOMAIN ports : entry = inputStatus(ports[i])
  BY <1>4
<1>8. \A entry \in lineage : \E i \in DOMAIN ports : Names(ports[i], entry)
  BY <1>5, <1>7
<1>9. \A e, f \in lineage : e.name = f.name => e = f
  BY <1>3, <1>5, <1>7
<1> QED
  BY <1>1, <1>6, <1>8, <1>9 DEF LineageOf, Describes, ports

(* Lineage is a matter of spec, generation, condition and entries. *)
LEMMA LineageCarried ==
  ASSUME NEW o, NEW w, LineageOf(o), w.spec = o.spec, w.generation = o.generation,
         w.status.composition = o.status.composition, w.status.inputs = o.status.inputs
  PROVE  LineageOf(w)
  BY DEF LineageOf, Describes

(* Deciding touches none of these. *)
LEMMA SetReadinessCarries ==
  ASSUME NEW o \in Objects, NEW ok \in BOOLEAN, NEW reason \in Reasons, NEW err \in BOOLEAN,
         setReadiness(o, ok, reason, err), LineageOf(o)
  PROVE  LineageOf(product') /\ product'.spec = o.spec
<1>1. /\ product'.spec = o.spec /\ product'.generation = o.generation
      /\ product'.status.composition = o.status.composition /\ product'.status.inputs = o.status.inputs
  BY SetReadinessFacts
<1> QED
  BY <1>1, LineageCarried

(* Nor does the end of the dependency loop. *)
LEMMA ProceedCarries ==
  ASSUME NEW o \in Objects, NEW i \in Nat, Proceed(o, i), LineageOf(o)
  PROVE  LineageOf(product') /\ product'.spec = o.spec
<1>1. CASE product' = o
  BY <1>1
<1>2. CASE \E ok \in BOOLEAN, reason \in Reasons : setReadiness(o, ok, reason, FALSE)
  BY <1>2, SetReadinessCarries
<1> QED
  BY <1>1, <1>2, ProceedFacts

(* Nor does the decision before the loop. *)
LEMMA DecideCarries ==
  ASSUME NEW o \in Objects, NEW err \in BOOLEAN, source \in [ready : BOOLEAN, reason : Reasons],
         err => o.status.composition \in Conditions, Decide(o, err), LineageOf(o)
  PROVE  LineageOf(product') /\ product'.spec = o.spec
<1>1. CASE \E reason \in Reasons, e \in BOOLEAN : setReadiness(o, FALSE, reason, e)
  BY <1>1, SetReadinessCarries
<1>2. CASE \E i \in Nat : Proceed(o, i)
  BY <1>2, ProceedCarries
<1> QED
  BY <1>1, <1>2, DecideFacts

(* A change of generation leaves the recorded lineage behind. *)
LEMMA NewGenerationLineage ==
  ASSUME NEW o \in Objects, NEW w \in Objects, CompositionBehind(o), w.generation = o.generation + 1, w.status = o.status
  PROVE  LineageOf(w) /\ CompositionBehind(w)
<1>1. o.generation \in Nat /\ o.status.composition \in Conditions \cup {None}
  BY StatusFields
<1>2. o.status.composition # None => /\ o.status.composition.observedGeneration \in Nat
                                     /\ o.status.composition.observedGeneration <= o.generation
  BY <1>1 DEF CompositionBehind, Conditions
<1>3. o.status.composition # None => /\ o.status.composition.observedGeneration <= o.generation + 1
                                     /\ o.status.composition.observedGeneration # o.generation + 1
  BY <1>1, <1>2
<1> QED
  BY <1>3 DEF LineageOf, CompositionBehind

-----------------------------------------------------------------------------
(* The inductive invariant.                                                *)

(* What a publisher creates has no lineage to publish. *)
LEMMA NewObjectLineage ==
  ASSUME NEW s
  PROVE  /\ NewObject(s).spec = s
         /\ LineageOf(NewObject(s)) /\ CompositionBehind(NewObject(s))
  BY DEF NewObject, NewStatus, LineageOf, CompositionBehind

(* Initial states satisfy the invariant. *)
LEMMA InitRegistry == Init => RegistryInv
<1> SUFFICES ASSUME Init PROVE RegistryInv
  OBVIOUS
<1>1. BindingInv
  BY InitBinding
<1>2. \A p \in Products : api[p] # None => /\ api[p].spec \in Manifests[p]
                                           /\ \E s : api[p] = NewObject(s)
  BY DEF Init
<1>3. Declared
  BY <1>2 DEF Declared, Init, IdleWorker
<1>4. StoredLineage
  BY <1>2, NewObjectLineage DEF StoredLineage
<1>5. WorkerLineage
  BY DEF WorkerLineage, Init, IdleWorker
<1> QED
  BY <1>1, <1>3, <1>4, <1>5 DEF RegistryInv

(* The status a finished reconciliation writes describes the object the    *)
(* server has, because the copy it was computed from is current.           *)
LEMMA WrittenLineage ==
  ASSUME NEW o \in Objects, NEW w, LineageOf(o), Coherent(o),
         w.spec = o.spec, w.generation = o.generation, w.status = o.status
  PROVE  LineageOf(w) /\ CompositionBehind(w)
<1>1. LineageOf(w)
  BY LineageCarried
<1>2. o.status.composition # None => o.status.composition.observedGeneration = o.generation
  BY DEF Coherent
<1>3. o.generation \in Nat
  BY StatusFields
<1> QED
  BY <1>1, <1>2, <1>3 DEF CompositionBehind

(* Every step keeps the invariant. *)
LEMMA NextRegistry == RegistryInv /\ [Next]_vars => RegistryInv'
<1> SUFFICES ASSUME RegistryInv, [Next]_vars PROVE RegistryInv'
  OBVIOUS
<1> DEFINE Preserved == Declared' /\ StoredLineage' /\ WorkerLineage'
<1>1. /\ BindingInv /\ BindingInv' /\ Declared /\ StoredLineage /\ WorkerLineage
  BY NextBinding DEF RegistryInv
<1>2. /\ TypeOK /\ FreshCopies /\ CurrentExists /\ FramesLoaded(graph, stack)
      /\ CurrentCopy /\ PhaseInv
  BY <1>1 DEF BindingInv, TypeInv
<1> SUFFICES Preserved
  BY <1>1 DEF RegistryInv
<1>3. CASE UNCHANGED <<api, cache, pc, workVars>>
  <2>1. UNCHANGED <<api, cache, pc, target, product>>
    BY <1>3 DEF workVars
  <2> QED
    BY <1>1, <2>1 DEF Declared, StoredLineage, WorkerLineage
<1>4. ASSUME NEW p \in Products, NEW o, Store(p, o),
             o # None => o.spec \in Manifests[p] /\ LineageOf(o) /\ CompositionBehind(o)
      PROVE  Preserved
  <2>1. api' = [api EXCEPT ![p] = o] /\ UNCHANGED <<cache, pc, target, product>>
    BY <1>4 DEF Store
  <2>2. \A q \in Products : api'[q] = IF q = p THEN o ELSE api[q]
    BY <1>2, <2>1 DEF TypeOK
  <2>3. Declared'
    BY <1>1, <1>4, <2>1, <2>2 DEF Declared
  <2>4. StoredLineage'
    BY <1>1, <1>4, <2>2 DEF StoredLineage
  <2> QED
    BY <1>1, <2>1, <2>3, <2>4 DEF WorkerLineage
<1>5. ASSUME NEW p \in Touched, Create(p) \/ Edit(p) \/ MarkDeleting(p) \/ Remove(p)
      PROVE  Preserved
  <2>1. p \in Products
    BY ReconcilerAssumption
  <2>2. /\ api[p] \in Objects \cup {None}
        /\ api[p] # None => CompositionBehind(api[p]) /\ api[p].spec \in Manifests[p]
    BY <1>1, <1>2, <2>1 DEF TypeOK, StoredLineage, Declared
  <2>3. CASE Create(p)
    BY <1>4, <2>1, <2>3, NewObjectLineage DEF Create
  <2>4. CASE Edit(p)
    <3>1. PICK s \in Manifests[p] : Store(p, [api[p] EXCEPT !.spec = s, !.generation = @ + 1])
      BY <2>4 DEF Edit
    <3>2. s \in Specs /\ api[p] \in Objects /\ CompositionBehind(api[p])
      BY <2>1, <2>2, <2>4, ManifestSpecs DEF Edit
    <3> DEFINE w == [api[p] EXCEPT !.spec = s, !.generation = @ + 1]
    <3>3. w \in Objects /\ w.generation = api[p].generation + 1 /\ w.status = api[p].status
      BY <3>2, EditedType
    <3>4. w.spec = s
      BY <3>2 DEF Objects
    <3> HIDE DEF w
    <3>5. LineageOf(w) /\ CompositionBehind(w)
      BY <3>2, <3>3, NewGenerationLineage
    <3> QED
      BY <1>4, <2>1, <3>1, <3>4, <3>5 DEF w
  <2>5. CASE MarkDeleting(p)
    <3>1. Store(p, [api[p] EXCEPT !.deleting = TRUE, !.generation = @ + 1])
      BY <2>5 DEF MarkDeleting
    <3>2. api[p] \in Objects /\ CompositionBehind(api[p]) /\ api[p].spec \in Manifests[p]
      BY <2>2, <2>5 DEF MarkDeleting
    <3> DEFINE w == [api[p] EXCEPT !.deleting = TRUE, !.generation = @ + 1]
    <3>3. w \in Objects /\ w.generation = api[p].generation + 1 /\ w.status = api[p].status
      BY <3>2, DeletingType
    <3>4. w.spec = api[p].spec
      BY <3>2 DEF Objects
    <3> HIDE DEF w
    <3>5. LineageOf(w) /\ CompositionBehind(w)
      BY <3>2, <3>3, NewGenerationLineage
    <3> QED
      BY <1>4, <2>1, <3>1, <3>2, <3>4, <3>5 DEF w
  <2>6. CASE Remove(p)
    BY <1>4, <2>1, <2>6 DEF Remove
  <2> QED
    BY <1>5, <2>3, <2>4, <2>5, <2>6
<1>6. ASSUME NEW p \in Touched, FactChanges(p)
      PROVE  Preserved
  BY <1>3, <1>6 DEF FactChanges
<1>7. CASE ApiChanges
  BY <1>3, <1>7 DEF ApiChanges
<1>8. CASE Restart
  <2>1. api' = api /\ cache' = api /\ pc' = "idle"
    BY <1>8 DEF Restart, StopWorker
  <2> QED
    BY <1>1, <2>1 DEF Declared, StoredLineage, WorkerLineage
<1>9. ASSUME NEW p \in Products, InformerSync(p)
      PROVE  Preserved
  <2>1. /\ cache' = [cache EXCEPT ![p] = api[p]]
        /\ UNCHANGED <<api, pc, target, product>>
    BY <1>9 DEF InformerSync, workVars
  <2>2. \A q \in Products : cache'[q] = IF q = p THEN api[q] ELSE cache[q]
    BY <1>2, <2>1 DEF TypeOK
  <2>3. Declared'
    BY <1>1, <2>1, <2>2 DEF Declared
  <2> QED
    BY <1>1, <2>1, <2>3 DEF StoredLineage, WorkerLineage
<1>10. ASSUME NEW p \in Products, requestsForDependency(p) \/ TimerFires(p)
       PROVE  Preserved
  BY <1>3, <1>10 DEF requestsForDependency, TimerFires
<1>11. ASSUME NEW p \in Products, BeginReconcile(p)
       PROVE  Preserved
  <2>1. CASE UNCHANGED <<pc, workVars>>
    BY <1>3, <1>11, <2>1 DEF BeginReconcile
  <2>2. CASE cache[p] # None /\ target' = p /\ product' = cache[p] /\ pc' = "observe"
    <3>1. UNCHANGED <<api, cache>>
      BY <1>11 DEF BeginReconcile
    <3> QED
      BY <1>1, <2>2, <3>1 DEF Declared, StoredLineage, WorkerLineage
  <2> QED
    BY <1>11, <2>1, <2>2 DEF BeginReconcile
<1>12. ASSUME UNCHANGED <<api, cache, target>>, pc # "idle", product'.spec = product.spec,
              pc' \in {"inputs", "write"} => LineageOf(product')
       PROVE  Preserved
  <2>1. Declared'
    BY <1>1, <1>12 DEF Declared
  <2>2. StoredLineage'
    BY <1>1, <1>12 DEF StoredLineage
  <2>3. WorkerLineage'
    BY <1>12 DEF WorkerLineage
  <2> QED
    BY <2>1, <2>2, <2>3
<1>13. CASE Observe
  <2>1. product \in Objects /\ pc = "observe" /\ UNCHANGED <<api, cache, target>>
    BY <1>2, <1>13 DEF TypeOK, Observe, Surroundings
  <2>2. pc' = "composition" /\ product'.spec = product.spec
    BY <1>13, <2>1, ObserveFacts
  <2> QED
    BY <1>12, <2>1, <2>2
<1>14. CASE SkipComposition
  <2>1. /\ product \in Objects /\ pc = "composition" /\ UNCHANGED <<api, cache, target>>
        /\ source \in [ready : BOOLEAN, reason : Reasons] /\ Decide(Uncomposed, FALSE)
    BY <1>2, <1>14 DEF TypeOK, SkipComposition, Surroundings
  <2>2. Uncomposed \in Objects /\ Uncomposed.spec = product.spec /\ Uncomposed.status.inputs = {}
    BY <2>1, UncomposedFacts
  <2>3. LineageOf(Uncomposed)
    BY <2>2, FS_EmptySet DEF LineageOf, Describes
  <2>4. LineageOf(product') /\ product'.spec = product.spec
    BY <2>1, <2>2, <2>3, DecideCarries
  <2> QED
    BY <1>12, <2>1, <2>4
<1>15. CASE observeComposition
  <2>1. /\ pc = "composition" /\ target \in Products /\ product \in Objects
        /\ UNCHANGED <<api, cache, target, product>>
    BY <1>2, <1>15 DEF TypeOK, observeComposition, BeginComposition, Surroundings
  <2>2. pc' \in {"visit", "lineage"}
    BY <1>15, <2>1, BeginType DEF observeComposition, BeginComposition
  <2> QED
    BY <1>12, <2>1, <2>2
<1>16. CASE VisitProducers
  <2>1. visit /\ UNCHANGED <<api, cache, target, product>>
    BY <1>16 DEF VisitProducers, visit, Surroundings
  <2>2. pc = "visit"
    BY <2>1 DEF visit, VisitForeign, VisitTooMany, VisitMissing, VisitUnavailable, VisitCycle,
                VisitAgain, VisitNew, Return, pending, resolves, active
  <2>3. WalkOK /\ cache \in [Products -> Objects \cup {None}]
    BY <1>2 DEF TypeOK, WalkOK
  <2>4. pc' \in {"visit", "lineage"}
    BY <2>1, <2>3, VisitType
  <2> QED
    BY <1>12, <2>1, <2>2, <2>4
<1>17. CASE RecordLineage
  <2>1. /\ product \in Objects /\ pc = "lineage" /\ UNCHANGED <<api, cache, target>>
        /\ source \in [ready : BOOLEAN, reason : Reasons] /\ WalkOK /\ target \in Products
        /\ Decide(Composed, compositionObservation.err)
    BY <1>2, <1>17 DEF TypeOK, RecordLineage, Surroundings, WalkOK
  <2>2. /\ Composed \in Objects /\ Composed.status.composition \in Conditions
        /\ Composed.spec = product.spec
    BY <2>1, ComposedType
  <2>3. compositionObservation.err \in BOOLEAN
    BY <2>1, VerdictType DEF Observations
  <2>4. LineageOf(Composed)
    BY <1>1, <2>1, ComposedDescribes DEF Declared
  <2>5. LineageOf(product') /\ product'.spec = product.spec
    BY <2>1, <2>2, <2>3, <2>4, DecideCarries
  <2> QED
    BY <1>12, <2>1, <2>5
<1>18. CASE CheckInput
  <2>1. /\ product \in Objects /\ pc = "inputs" /\ UNCHANGED <<api, cache, target>>
        /\ next + 1 \in Nat /\ LineageOf(product)
    <3>1. pc = "inputs" /\ UNCHANGED <<api, cache, target>>
      BY <1>18 DEF CheckInput, Surroundings
    <3>2. product \in Objects /\ next \in Nat
      BY <1>2, <3>1 DEF TypeOK
    <3> QED
      BY <1>1, <3>1, <3>2 DEF WorkerLineage
  <2>2. LineageOf(product') /\ product'.spec = product.spec
    BY <1>18, <2>1, CheckInputFacts, ProceedCarries, SetReadinessCarries
  <2> QED
    BY <1>12, <2>1, <2>2
<1>19. CASE updateStatusIfChanged
  <2>1. /\ pc = "write" /\ target \in Products /\ product \in Objects
        /\ pc' = "idle" /\ cache' = cache
    BY <1>2, <1>19 DEF updateStatusIfChanged, EndReconcile, StopWorker, TypeOK
  <2>2. CASE api' = api
    BY <1>1, <2>1, <2>2 DEF Declared, StoredLineage, WorkerLineage
  <2>3. CASE current /\ api' = [api EXCEPT ![target].status = product.status]
    <3>1. /\ Coherent(product) /\ LineageOf(product) /\ product.status \in Statuses
          /\ product.spec \in Manifests[target]
      BY <1>1, <1>2, <2>1, StatusFields DEF PhaseInv, Decided, WorkerLineage, Declared
    <3>2. /\ api[target] \in Objects /\ api[target].spec = product.spec
          /\ api[target].generation = product.generation
      BY <1>2, <2>1, <2>3 DEF CurrentExists, CurrentCopy
    <3> DEFINE w == [api[target] EXCEPT !.status = product.status]
    <3>3. w.spec = product.spec /\ w.generation = product.generation /\ w.status = product.status
      BY <3>1, <3>2, StatusReplaced
    <3>4. api' = [api EXCEPT ![target] = w]
      BY <2>3
    <3> HIDE DEF w
    <3>5. LineageOf(w) /\ CompositionBehind(w) /\ w.spec \in Manifests[target]
      BY <2>1, <3>1, <3>3, WrittenLineage
    <3>6. \A q \in Products : api'[q] = IF q = target THEN w ELSE api[q]
      BY <1>2, <3>4 DEF TypeOK
    <3>7. Declared'
      BY <1>1, <2>1, <3>5, <3>6 DEF Declared
    <3>8. StoredLineage'
      BY <1>1, <3>5, <3>6 DEF StoredLineage
    <3> QED
      BY <2>1, <3>7, <3>8 DEF WorkerLineage
  <2> QED
    BY <1>19, <2>2, <2>3 DEF updateStatusIfChanged
<1>20. CASE UNCHANGED vars
  BY <1>3, <1>20 DEF vars
<1> QED
  BY <1>5, <1>6, <1>7, <1>8, <1>9, <1>10, <1>11, <1>13, <1>14, <1>15, <1>16, <1>17, <1>18, <1>19, <1>20
     DEF Next, Disturb, Machinery, Reconcile, Work

-----------------------------------------------------------------------------
(* What is published.                                                      *)

(* A health entry is admissible by construction of its states. *)
LEMMA HealthValid ==
  ASSUME NEW o, NEW type, NEW applicable \in BOOLEAN
  PROVE  /\ publicHealth(o, type, applicable).generation = o.generation
         /\ validObservation(publicHealth(o, type, applicable).state, o.generation,
                             publicHealth(o, type, applicable).observedGeneration)
  BY DEF publicHealth, validObservation

(* Each dimension of the health is a health entry of its own condition. *)
LEMMA DimensionHealth ==
  ASSUME NEW o \in Objects, NEW k \in Dimensions
  PROVE  \E applicable \in BOOLEAN : portableDescriptorFor(o).health[k] = publicHealth(o, k, applicable)
<1> DEFINE d == portableDescriptorFor(o)
<1>1. k \in {"source", "connector", "contracts", "composition"}
  BY DEF Dimensions, DisabledReasons
<1>2. /\ d.health["source"] = publicHealth(o, "source", o.spec.source # "none")
      /\ d.health["connector"] = publicHealth(o, "connector", o.spec.connector)
      /\ d.health["contracts"] = publicHealth(o, "contracts", o.spec.contractChecks)
      /\ d.health["composition"] = publicHealth(o, "composition", o.spec.inputs # <<>>)
  BY DEF portableDescriptorFor
<1>3. o.spec.connector \in BOOLEAN /\ o.spec.contractChecks \in BOOLEAN
  BY DEF Objects, Specs
<1>4. (o.spec.source # "none") \in BOOLEAN /\ (o.spec.inputs # <<>>) \in BOOLEAN
  OBVIOUS
<1> QED
  BY <1>1, <1>2, <1>3, <1>4

(* Replacing the reason of an entry leaves what it names, and the reason   *)
(* is the one of its readiness.                                            *)
LEMMA PublicEntry ==
  ASSUME NEW e \in InputStatuses
  PROVE  LET f == [e EXCEPT !.reason = IF e.ready THEN "InputReady" ELSE "InputNotReady"]
         IN  /\ f.name = e.name
             /\ \A port : Names(port, e) => Names(port, f)
             /\ f.reason = IF f.ready THEN "InputReady" ELSE "InputNotReady"
  BY DEF InputStatuses, Names

(* The published lineage is about declared inputs, one entry about each. *)
LEMMA PublishedLineage ==
  ASSUME NEW o \in Objects, LineageOf(o)
  PROVE  /\ IsFiniteSet(publicLineage(o))
         /\ \A entry \in publicLineage(o) :
              /\ \E i \in DOMAIN o.spec.inputs : Names(o.spec.inputs[i], entry)
              /\ entry.reason = IF entry.ready THEN "InputReady" ELSE "InputNotReady"
         /\ \A e, f \in publicLineage(o) : e.name = f.name => e = f
<1> DEFINE shown(e) == [e EXCEPT !.reason = IF e.ready THEN "InputReady" ELSE "InputNotReady"]
           entries == o.status.inputs
           all == {shown(e) : e \in entries}
<1>1. entries \subseteq InputStatuses
  BY StatusFields
<1>2. CASE publicLineage(o) = {}
  BY <1>2, FS_EmptySet
<1>3. CASE publicLineage(o) # {}
  <2>1. /\ o.status.composition # None /\ o.status.composition.observedGeneration = o.generation
        /\ publicLineage(o) = all
    BY <1>3 DEF publicLineage
  <2>2. Describes(o)
    BY <2>1 DEF LineageOf
  <2>3. \A e \in entries : /\ shown(e).name = e.name
                           /\ \A port : Names(port, e) => Names(port, shown(e))
                           /\ shown(e).reason = IF shown(e).ready THEN "InputReady" ELSE "InputNotReady"
    BY <1>1, PublicEntry
  <2> HIDE DEF shown
  <2>4. IsFiniteSet(all)
    <3> DEFINE f == [e \in entries |-> shown(e)]
    <3>1. f \in Surjection(entries, all)
      BY DEF Surjection
    <3>2. IsFiniteSet(entries)
      BY <2>2 DEF Describes
    <3> QED
      BY <3>1, <3>2, FS_Surjection
  <2>5. \A entry \in all : /\ \E i \in DOMAIN o.spec.inputs : Names(o.spec.inputs[i], entry)
                           /\ entry.reason = IF entry.ready THEN "InputReady" ELSE "InputNotReady"
    BY <2>2, <2>3 DEF Describes
  <2>6. \A e, f \in all : e.name = f.name => e = f
    BY <2>2, <2>3 DEF Describes
  <2> QED
    BY <2>1, <2>4, <2>5, <2>6
<1> QED
  BY <1>2, <1>3

(* Entries told apart by name are as many as their names. *)
LEMMA NamesCounted ==
  ASSUME NEW L, IsFiniteSet(L), \A e, f \in L : e.name = f.name => e = f
  PROVE  Cardinality({e.name : e \in L}) = Cardinality(L)
<1> DEFINE f == [e \in L |-> e.name]
<1>1. f \in Bijection(L, {e.name : e \in L})
  BY DEF Bijection, Injection, Surjection, IsInjective
<1>2. ExistsBijection(L, {e.name : e \in L})
  BY <1>1 DEF ExistsBijection
<1> QED
  BY <1>2, FS_Bijection

(* A named input is the only one of that name. *)
LEMMA OnlyOne ==
  ASSUME NEW ports, NEW i \in DOMAIN ports, NEW name, ports[i].name = name, distinctTracePorts(ports)
  PROVE  Cardinality({j \in DOMAIN ports : ports[j].name = name}) = 1
<1>1. {j \in DOMAIN ports : ports[j].name = name} = {i}
  BY DEF distinctTracePorts
<1> QED
  BY <1>1, FS_Singleton

(* Both the registry's profile and the browser admit a stored object. *)
LEMMA StoredAdmitted ==
  ASSUME NEW p \in Products, NEW o \in Objects, o.spec \in Manifests[p], LineageOf(o)
  PROVE  Admitted(portableDescriptorFor(o))
<1> DEFINE d == portableDescriptorFor(o)
           aggregate == publicHealth(o, "ready", TRUE)
<1>1. /\ d.inputs = o.spec.inputs /\ d.outputs = o.spec.outputs /\ d.generation = o.generation
      /\ d.observedGeneration = aggregate.observedGeneration
      /\ d.readiness = IF o.deleting THEN "not-ready" ELSE aggregate.state
      /\ d.ready = (d.readiness = "ready")
      /\ d.lineage = publicLineage(o)
  BY DEF portableDescriptorFor
<1> HIDE DEF d
<1>3. distinctTracePorts(d.inputs) /\ distinctTracePorts(d.outputs) /\ d.outputs # <<>>
  BY <1>1, InputNamesAssumption, OutputsAssumption DEF distinctTracePorts
<1>4. /\ IsFiniteSet(d.lineage)
      /\ \A entry \in d.lineage :
           /\ \E i \in DOMAIN d.inputs : Names(d.inputs[i], entry)
           /\ entry.reason = IF entry.ready THEN "InputReady" ELSE "InputNotReady"
      /\ \A e, f \in d.lineage : e.name = f.name => e = f
  BY <1>1, PublishedLineage
<1>5. validPortableMetadata(d)
  BY <1>3, <1>4 DEF validPortableMetadata
<1>6. \A entry \in d.lineage : Cardinality({i \in DOMAIN d.inputs : d.inputs[i].name = entry.name}) = 1
  BY <1>3, <1>4, OnlyOne DEF Names
<1>7. Cardinality({entry.name : entry \in d.lineage}) = Cardinality(d.lineage)
  BY <1>4, NamesCounted
<1>8. \A k \in Dimensions :
        /\ d.health[k].generation = d.generation
        /\ validObservation(d.health[k].state, d.generation, d.health[k].observedGeneration)
  <2>1. \A k \in Dimensions : \E applicable \in BOOLEAN : d.health[k] = publicHealth(o, k, applicable)
    BY DimensionHealth DEF d
  <2> QED
    BY <1>1, <2>1, HealthValid
<1>9. d.ready => d.observedGeneration = d.generation
  <2>1. aggregate.state = "ready" => aggregate.observedGeneration = o.generation
    BY DEF publicHealth
  <2> QED
    BY <1>1, <2>1
<1>10. validate(d)
  BY <1>1, <1>3, <1>4, <1>6, <1>7, <1>8, <1>9 DEF validate
<1> QED
  BY <1>5, <1>10 DEF Admitted, d

(* At every moment at which the registry may read a product, what it would *)
(* publish passes its own profile and the browser's validation: no product *)
(* the controller writes the status of is lost to discovery.               *)
THEOREM AlwaysAdmitted == Spec => []DescriptorAdmitted
<1>1. RegistryInv => DescriptorAdmitted
  <2> SUFFICES ASSUME RegistryInv, NEW o \in Published PROVE Admitted(portableDescriptorFor(o))
    BY DEF DescriptorAdmitted
  <2>1. PICK p \in Products : o = api[p] /\ api[p] # None
    BY DEF Published
  <2>2. o \in Objects /\ o.spec \in Manifests[p] /\ LineageOf(o)
    BY <2>1 DEF RegistryInv, BindingInv, TypeInv, TypeOK, Declared, StoredLineage
  <2> QED
    BY <2>2, StoredAdmitted
<1> QED
  BY <1>1, InitRegistry, NextRegistry, PTL DEF Spec

(* Both versions of the inventory call a product ready exactly when its    *)
(* consumers may rely on it, and never beside a capability known to be     *)
(* unready, disabled or stale: what a status certifies, it certifies for   *)
(* one generation throughout.                                              *)
THEOREM AlwaysConsistent == Spec => []ReadinessConsistent
<1>1. BindingInv => ReadinessConsistent
  <2> SUFFICES ASSUME BindingInv, NEW o \in Published
               PROVE  /\ descriptorFor(o).ready <=> producerReady(o)
                      /\ Consistent(portableDescriptorFor(o), producerReady(o))
    BY DEF ReadinessConsistent
  <2>1. PICK p \in Products : o = api[p] /\ api[p] # None
    BY DEF Published
  <2>2. o \in Objects /\ BindingOf(o)
    BY <2>1 DEF BindingInv, TypeInv, TypeOK, StoredInv
  <2>3. o.status.ready \in Conditions \cup {None} /\ o.deleting \in BOOLEAN
    BY <2>2, StatusFields DEF Objects
  <2>4. o.status.ready # None => o.status.ready.ok \in BOOLEAN
    BY <2>3 DEF Conditions
  <2>5. descriptorFor(o).ready <=> producerReady(o)
    BY <2>3, <2>4 DEF descriptorFor, producerReady
  <2>6. portableDescriptorFor(o).ready <=> producerReady(o)
    <3>1. publicHealth(o, "ready", TRUE).state = "ready" <=>
            /\ o.status.ready # None /\ o.status.ready.observedGeneration = o.generation
            /\ o.status.ready.ok
      BY <2>3, <2>4 DEF publicHealth
    <3>2. portableDescriptorFor(o).ready <=> ~o.deleting /\ publicHealth(o, "ready", TRUE).state = "ready"
      BY <2>3 DEF portableDescriptorFor
    <3> QED
      BY <3>1, <3>2 DEF producerReady
  <2>7. ASSUME producerReady(o), NEW k \in Dimensions
        PROVE  portableDescriptorFor(o).health[k].state \in {"ready", "unobserved", "not-applicable"}
    <3>1. Coherent(o) /\ o.status.ready.ok
      BY <2>2, <2>7, <2>1 DEF BindingOf, producerReady
    <3>2. /\ o.status.connector # None => o.status.connector.ok /\ o.status.connector.observedGeneration = o.generation
          /\ o.status.contracts # None => o.status.contracts.ok /\ o.status.contracts.observedGeneration = o.generation
          /\ o.status.source # None => o.status.source.ok /\ o.status.source.observedGeneration = o.generation
          /\ o.status.composition # None => o.status.composition.ok /\ o.status.composition.observedGeneration = o.generation
      BY <3>1 DEF Coherent, Bound, Passing
    <3>3. ASSUME NEW type \in {"source", "connector", "contracts", "composition"}, NEW applicable \in BOOLEAN
          PROVE  publicHealth(o, type, applicable).state \in {"ready", "unobserved", "not-applicable"}
      BY <3>2, <3>3 DEF publicHealth
    <3>4. k \in {"source", "connector", "contracts", "composition"}
      BY <2>7 DEF Dimensions, DisabledReasons
    <3>5. \E applicable \in BOOLEAN : portableDescriptorFor(o).health[k] = publicHealth(o, k, applicable)
      BY <2>2, <2>7, DimensionHealth
    <3> QED
      BY <3>3, <3>4, <3>5
  <2> QED
    BY <2>5, <2>6, <2>7 DEF Consistent
<1> QED
  BY <1>1, InitBinding, NextBinding, PTL DEF Spec

-----------------------------------------------------------------------------
(* No lost wake-ups.                                                       *)

(* The products whose events requestsForDependency turns into a request    *)
(* for p, ...                                                              *)
Sources(p) == IF "composition" \in enabled THEN Upstream(cache, p) ELSE Producers(cache, {p})

(* ... and what will still bring the worker to p. *)
Awaited(p) == p \in queue \/ p \notin fresh \/ Sources(p) \cap depEvents # {}

(* The first n inputs of spec hold in the cache. *)
Fed(spec, n) ==
  \A i \in 1 .. n :
    LET port == spec.inputs[i]
    IN  /\ port.contract = None /\ ~port.foreign
        /\ cache[port.ref] # None
        /\ producerReady(cache[port.ref])
        /\ hasOutput(cache[port.ref], port.output)

Composes(spec) == "composition" \in enabled /\ spec.inputs # <<>>

(* What the cache implies for a product p of that spec without a           *)
(* capability outside the watch.                                           *)
Implied(p, spec) ==
  IF Composes(spec) THEN CompositionHolds(cache, p) ELSE Fed(spec, Len(spec.inputs))

(* The status of o, a copy of p, says what the cache implies. *)
Truthful(p, o) ==
  /\ o.status.ready # None /\ o.status.ready.observedGeneration = o.generation
  /\ o.status.ready.ok <=> Implied(p, o.spec)
  /\ Composes(o.spec) => /\ o.status.composition # None
                         /\ o.status.composition.ok <=> CompositionHolds(cache, p)
  /\ ~Composes(o.spec) => o.status.inputs = {}

(* A product nothing brings the worker back to needs no worker. *)
Rested(p) ==
  cache[p] # None /\ ~(pc # "idle" /\ target = p) /\ ~Awaited(p) =>
    IF Unwatched(cache[p]) THEN p \in timers ELSE Truthful(p, cache[p])

(* Unless it will be looked at again, the working copy is of the cached    *)
(* object, ...                                                             *)
OwnCopy ==
  pc # "idle" /\ target \notin queue =>
    /\ cache[target] # None /\ product.spec = cache[target].spec
    /\ product.generation = cache[target].generation /\ base = cache[target].status

(* ... the walk has read what the cache holds, ...                         *)
WalkUnderWay ==
  pc \in {"visit", "lineage"} =>
    /\ Composes(product.spec) /\ graph.products[target] = product
    /\ product.spec.source = "none" => source.ready
    /\ Standing(pc, graph, stack, observation, target)
    /\ ~Awaited(target) => Agrees(graph, [cache EXCEPT ![target] = product])

(* ... the inputs behind the loop hold there, ...                          *)
LoopUnderWay ==
  pc = "inputs" =>
    /\ ~Composes(product.spec) /\ product.status.inputs = {} /\ ~Contracted(product.spec)
    /\ next \in 1 .. Len(product.spec.inputs)
    /\ ~Awaited(target) => Fed(product.spec, next - 1)

(* ... and the status about to be written says what the cache implies.     *)
VerdictReached ==
  pc = "write" /\ ~failed /\ ~Unwatched(product) /\ ~Awaited(target) => Truthful(target, product)

Alert ==
  /\ \A p \in Products : Rested(p)
  /\ OwnCopy /\ WalkUnderWay /\ LoopUnderWay /\ VerdictReached

WakeInv == CoverInv /\ RegistryInv /\ Alert

(* Where Proceed leads, and what it then writes. *)
LEMMA ProceedOutcome ==
  ASSUME NEW o \in Objects, NEW i \in Nat, Proceed(o, i)
  PROVE  /\ pc' = "inputs" => product' = o /\ next' = i /\ i <= Len(o.spec.inputs)
         /\ pc' = "write" =>
              /\ i > Len(o.spec.inputs) /\ ~failed'
              /\ product'.spec = o.spec /\ product'.generation = o.generation
              /\ product'.status.composition = o.status.composition
              /\ product'.status.inputs = o.status.inputs
              /\ product'.status.ready \in Conditions
              /\ product'.status.ready.observedGeneration = o.generation
              /\ Passing(o.status.connector) /\ Passing(o.status.contracts) => product'.status.ready.ok
<1>1. CASE i <= Len(o.spec.inputs) /\ product' = o /\ pc' = "inputs" /\ next' = i
  BY <1>1
<1>2. CASE \E ok \in BOOLEAN, reason \in Reasons :
             /\ i > Len(o.spec.inputs) /\ setReadiness(o, ok, reason, FALSE)
             /\ Passing(o.status.connector) /\ Passing(o.status.contracts) => ok
  BY <1>2, SetReadinessFacts
<1>3. /\ o.status.connector \in Conditions \cup {None}
      /\ o.status.contracts \in Conditions \cup {None}
  BY StatusFields
<1>4. "DependenciesReady" \in Reasons
  BY DEF Reasons
<1> QED
  BY <1>1, <1>2, <1>3, <1>4, FailingReason DEF Proceed

(* Where Decide leads, and what it then writes: without an observed        *)
(* capability, the composition alone decides.                              *)
LEMMA DecideOutcome ==
  ASSUME NEW o \in Objects, NEW err \in BOOLEAN, source \in [ready : BOOLEAN, reason : Reasons],
         err => o.status.composition \in Conditions, Decide(o, err)
  PROVE  /\ pc' = "inputs" =>
              /\ product' = o /\ next' = 1 /\ o.status.composition = None
              /\ 1 <= Len(o.spec.inputs)
         /\ pc' = "write" =>
              /\ product'.spec = o.spec /\ product'.generation = o.generation
              /\ product'.status.composition = o.status.composition
              /\ product'.status.inputs = o.status.inputs
              /\ product'.status.ready \in Conditions
              /\ product'.status.ready.observedGeneration = o.generation
              /\ failed' = err
              /\ o.status.composition = None /\ product'.status.ready.ok => 1 > Len(o.spec.inputs)
              /\ /\ ~err /\ source.ready /\ o.status.connector = None /\ o.status.contracts = None
                 => (product'.status.ready.ok <=> Passing(o.status.composition))
<1> DEFINE composition == o.status.composition
           n == Len(o.spec.inputs)
           i == IF composition = None THEN 1 ELSE n + 1
<1>1. composition \in Conditions \cup {None} /\ n \in Nat /\ i \in Nat
  BY StatusFields
<1>2. CASE err /\ setReadiness(o, FALSE, composition.reason, TRUE)
  <2>1. composition.reason \in Reasons
    BY <1>2 DEF Conditions
  <2> QED
    BY <1>2, <2>1, SetReadinessFacts
<1>3. CASE ~err /\ ~source.ready /\ setReadiness(o, FALSE, source.reason, FALSE)
  <2>1. source.reason \in Reasons
    OBVIOUS
  <2> QED
    BY <1>3, <2>1, SetReadinessFacts
<1>4. CASE ~err /\ ~Passing(composition) /\ setReadiness(o, FALSE, composition.reason, FALSE)
  <2>1. composition.reason \in Reasons
    BY <1>1, <1>4, FailingReason
  <2> QED
    BY <1>4, <2>1, SetReadinessFacts
<1>5. CASE ~err /\ source.ready /\ Passing(composition) /\ Proceed(o, i)
  <2>1. pc' = "inputs" => product' = o /\ next' = i /\ i <= n
    BY <1>1, <1>5, ProceedOutcome
  <2>2. pc' = "inputs" => composition = None
    BY <1>1, <2>1
  <2>3. pc' = "write" =>
              /\ i > n /\ ~failed'
              /\ product'.spec = o.spec /\ product'.generation = o.generation
              /\ product'.status.composition = o.status.composition
              /\ product'.status.inputs = o.status.inputs
              /\ product'.status.ready \in Conditions
              /\ product'.status.ready.observedGeneration = o.generation
              /\ Passing(o.status.connector) /\ Passing(o.status.contracts) => product'.status.ready.ok
    BY <1>1, <1>5, ProceedOutcome
  <2>4. pc' = "write" => failed' = FALSE
    BY <1>1, <1>5, ProceedFacts, SetReadinessFacts
  <2>5. o.status.connector = None /\ o.status.contracts = None
          => Passing(o.status.connector) /\ Passing(o.status.contracts)
    BY DEF Passing
  <2>6. pc' = "inputs" => /\ product' = o /\ next' = 1 /\ composition = None /\ 1 <= n
    BY <2>1, <2>2
  <2>7. pc' = "write" /\ composition = None => 1 > n
    BY <2>3
  <2> HIDE DEF n, i
  <2> QED
    BY <1>5, <2>3, <2>4, <2>5, <2>6, <2>7 DEF n
<1> QED
  BY <1>2, <1>3, <1>4, <1>5 DEF Decide

(* A step that leaves the cache and the worker alone and takes no wake-up  *)
(* away.                                                                   *)
LEMMA CalmAlert ==
  ASSUME Alert, pc # "idle" => target \in Products,
         UNCHANGED <<cache, enabled, pc, target, product, base, source, next, failed, walkVars>>,
         queue \subseteq queue', queue \cup timers \subseteq queue' \cup timers',
         \A p \in Products : Awaited(p) => Awaited(p)'
  PROVE  Alert'
<1>1. UNCHANGED <<graph, stack, observation>>
  BY DEF walkVars
<1>2. ASSUME NEW p \in Products, Rested(p) PROVE Rested(p)'
  <2>1. ASSUME cache'[p] # None, ~(pc' # "idle" /\ target' = p), ~Awaited(p)'
        PROVE  IF Unwatched(cache[p]) THEN p \in timers' ELSE Truthful(p, cache[p])
    <3>1. ~Awaited(p)
      BY <2>1
    <3>2. p \notin queue'
      BY <2>1 DEF Awaited
    <3> QED
      BY <1>2, <2>1, <3>1, <3>2 DEF Rested
  <2>2. Truthful(p, cache[p]) => Truthful(p, cache[p])'
    BY DEF Truthful, Implied, Composes, Fed
  <2> QED
    BY <2>1, <2>2 DEF Rested
<1>3. OwnCopy'
  BY DEF Alert, OwnCopy
<1>4. WalkUnderWay'
  BY <1>1 DEF Alert, WalkUnderWay, Composes
<1>5. LoopUnderWay'
  BY DEF Alert, LoopUnderWay, Composes, Fed
<1>6. VerdictReached'
  BY DEF Alert, VerdictReached, Truthful, Implied, Composes, Fed
<1> QED
  BY <1>2, <1>3, <1>4, <1>5, <1>6 DEF Alert

(* The informer's turn for q leaves what p rests on alone, if p will not   *)
(* be woken for it.                                                        *)
LEMMA SyncKeeps ==
  ASSUME TypeOK, NEW q \in Products, InformerSync(q), NEW p \in Products, p # q,
         cache[p] # None, NEW spec, spec = cache[p].spec, ~Awaited(p)'
  PROVE  /\ ~Awaited(p) /\ cache'[p] = cache[p]
         /\ "composition" \in enabled =>
              /\ q \notin Graph(cache', p) /\ Graph(cache, p) = Graph(cache', p)
              /\ CompositionHolds(cache', p) <=> CompositionHolds(cache, p)
         /\ ~Composes(spec) => \A n \in 0 .. Len(spec.inputs) : Fed(spec, n)' <=> Fed(spec, n)
<1>1. /\ cache' = [cache EXCEPT ![q] = api[q]] /\ fresh' = fresh \cup {q}
      /\ queue' = queue \cup {q} /\ depEvents' = depEvents \cup {q} /\ enabled' = enabled
  BY DEF InformerSync, worldVars
<1>2. cache \in Stores /\ cache' \in Stores
  BY <1>1 DEF TypeOK, Stores
<1>3. \A x \in Products : x # q => cache'[x] = cache[x]
  BY <1>2 , <1>1 DEF Stores
<1>4. p \notin queue /\ p \in fresh /\ q \notin Sources(p)' /\ Sources(p)' \cap depEvents = {}
  BY <1>1 DEF Awaited
<1>5. CASE "composition" \in enabled
  <2>1. Sources(p)' = Upstream(cache', p)
    BY <1>1, <1>5 DEF Sources
  <2>2. q \notin Graph(cache', p) /\ Graph(cache', p) \subseteq Products
    BY <1>2, <1>4, <2>1, LayersInside DEF Graph
  <2>3. \A x \in Graph(cache', p) : cache'[x] = cache[x] /\ Alike(cache', cache, x)
    BY <1>3, <2>2 DEF Alike
  <2>4. Upstream(cache, p) = Upstream(cache', p) /\ Graph(cache, p) = Graph(cache', p)
    BY <2>3, LayersAlike
  <2>5. Sources(p) = Sources(p)'
    BY <1>5, <2>1, <2>4 DEF Sources
  <2>6. ~Awaited(p)
    BY <1>4, <2>5 DEF Awaited
  <2>7. CompositionHolds(cache', p) <=> CompositionHolds(cache, p)
    BY <1>2, <2>3, AlikeVerdict DEF Graph
  <2>8. ~Composes(spec) => \A n \in 0 .. Len(spec.inputs) : Fed(spec, n) /\ Fed(spec, n)'
    BY <1>5 DEF Composes, Fed
  <2> QED
    BY <1>3, <2>2, <2>4, <2>6, <2>7, <2>8
<1>6. CASE "composition" \notin enabled
  <2>1. InputsOf(cache, p) = spec.inputs /\ InputsOf(cache', p) = spec.inputs
    BY <1>3 DEF InputsOf
  <2>2. Producers(cache', {p}) = Producers(cache, {p})
    BY <2>1 DEF Producers
  <2>3. Sources(p)' = Producers(cache', {p}) /\ Sources(p) = Producers(cache, {p})
    BY <1>1, <1>6 DEF Sources
  <2>4. ~Awaited(p)
    BY <1>4, <2>2, <2>3 DEF Awaited
  <2>5. \A i \in DOMAIN spec.inputs :
          spec.inputs[i].foreign \/ cache'[spec.inputs[i].ref] = cache[spec.inputs[i].ref]
    <3> TAKE i \in DOMAIN spec.inputs
    <3> SUFFICES ASSUME ~spec.inputs[i].foreign PROVE cache'[spec.inputs[i].ref] = cache[spec.inputs[i].ref]
      OBVIOUS
    <3>1. spec.inputs[i].ref \in Producers(cache', {p})
      BY <2>1 DEF Producers
    <3>2. spec.inputs[i].ref \in Products
      BY <1>2, <2>1, StoreTyped
    <3> QED
      BY <1>3, <1>4, <2>3, <3>1, <3>2
  <2>6. DOMAIN spec.inputs = 1 .. Len(spec.inputs) /\ Len(spec.inputs) \in Nat
    BY <1>2, <2>1, StoreTyped
  <2> DEFINE feeds(store, port) ==
               /\ port.contract = None /\ ~port.foreign /\ store[port.ref] # None
               /\ producerReady(store[port.ref]) /\ hasOutput(store[port.ref], port.output)
  <2>7. \A i \in DOMAIN spec.inputs : feeds(cache', spec.inputs[i]) <=> feeds(cache, spec.inputs[i])
    BY <2>5
  <2>8. \A n : /\ Fed(spec, n) <=> \A i \in 1 .. n : feeds(cache, spec.inputs[i])
               /\ Fed(spec, n)' <=> \A i \in 1 .. n : feeds(cache', spec.inputs[i])
    BY DEF Fed
  <2> HIDE DEF feeds
  <2>9. \A n \in 0 .. Len(spec.inputs) : Fed(spec, n)' <=> Fed(spec, n)
    <3> TAKE n \in 0 .. Len(spec.inputs)
    <3>1. \A i \in 1 .. n : i \in DOMAIN spec.inputs
      BY <2>6
    <3> QED
      BY <2>7, <2>8, <3>1
  <2> QED
    BY <1>3, <1>6, <2>4, <2>9
<1> QED
  BY <1>5, <1>6

(* The worker moves on by itself: what the others wait for is unchanged. *)
LEMMA WorkerAlert ==
  ASSUME Alert, Surroundings' = Surroundings, UNCHANGED <<cache, target, base>>,
         pc # "idle", pc' # "idle", product'.spec = product.spec, product'.generation = product.generation,
         WalkUnderWay', LoopUnderWay', VerdictReached'
  PROVE  Alert'
<1>1. UNCHANGED <<fresh, depEvents, queue, timers, enabled>>
  BY DEF Surroundings, watchVars, queueVars
<1>2. ASSUME NEW p \in Products, Rested(p) PROVE Rested(p)'
  BY <1>1, <1>2 DEF Rested, Awaited, Sources, Truthful, Implied, Composes, Fed
<1>3. OwnCopy'
  BY <1>1 DEF Alert, OwnCopy
<1> QED
  BY <1>2, <1>3 DEF Alert

(* A working copy nothing else will bring the worker back to. *)
LEMMA OwnFacts ==
  ASSUME TypeOK, OwnCopy, pc # "idle", ~Awaited(target)
  PROVE  /\ target \in Products /\ product \in Objects /\ cache[target] \in Objects
         /\ cache[target] # None /\ product # None
         /\ product.spec = cache[target].spec /\ product.generation = cache[target].generation
         /\ base = cache[target].status
<1>1. target \in Products /\ product \in Objects /\ cache[target] \in Objects \cup {None}
  BY DEF TypeOK
<1>2. target \notin queue
  BY DEF Awaited
<1> QED
  BY <1>1, <1>2, NoneAssumption DEF OwnCopy

(* Everything the walk touched lies below the product in the cache. *)
LEMMA WalkBelow ==
  ASSUME NEW g \in Graphs, NEW t \in Products, NEW o \in Objects, Kept(g, t), NEW store \in Stores,
         store[t] # None, o # None, o.spec = store[t].spec, Agrees(g, [store EXCEPT ![t] = o])
  PROVE  Loaded(g) \cup g.missing \subseteq Graph(store, t)
<1> DEFINE own == [store EXCEPT ![t] = o]
<1>1. own \in Stores /\ g.products \in Stores
  BY DEF Stores, Graphs
<1>2. \A x \in Products : g.products[x] # None => own[x] = g.products[x]
  BY DEF Agrees, Loaded
<1>3. \A x \in Products : Alike(own, store, x)
  BY DEF Alike, Stores
<1> HIDE DEF own
<1>4. Graph(g.products, t) \subseteq Graph(own, t)
  BY <1>1, <1>2, LimitsGrow
<1>5. Graph(own, t) \subseteq Products
  BY <1>1, LayersInside
<1>6. Graph(store, t) = Graph(own, t)
  BY <1>3, <1>5, LayersAlike
<1>7. Loaded(g) \cup g.missing \subseteq Graph(g.products, t)
  BY DEF Kept, Reached, Graph
<1> QED
  BY <1>4, <1>6, <1>7

(* The informer takes an object: its product is queued, and whoever rests *)
(* on it waits for the dependency handler.                                 *)
LEMMA SyncAlert ==
  ASSUME WakeInv, NEW q \in Products, InformerSync(q)
  PROVE  Alert'
<1>1. /\ TypeOK /\ Alert /\ (\A p \in Products : Rested(p))
      /\ OwnCopy /\ WalkUnderWay /\ LoopUnderWay /\ VerdictReached
  BY DEF WakeInv, CoverInv, BindingInv, TypeInv, Alert
<1>2. /\ cache' = [cache EXCEPT ![q] = api[q]] /\ queue' = queue \cup {q}
      /\ UNCHANGED <<timers, enabled, pc, target, product, base, source, next, failed, graph, stack, observation>>
  BY DEF InformerSync, worldVars, workVars, walkVars
<1>3. cache \in Stores
  BY <1>1 DEF TypeOK, Stores
<1>4. \A x \in Products : x # q => cache'[x] = cache[x]
  BY <1>2, <1>3 DEF Stores
<1>5. ASSUME NEW p \in Products, NEW o, cache[p] # None, o.spec = cache[p].spec, p # q, ~Awaited(p)'
      PROVE  Truthful(p, o) => Truthful(p, o)'
  <2>1. /\ "composition" \in enabled => (CompositionHolds(cache', p) <=> CompositionHolds(cache, p))
        /\ ~Composes(o.spec) =>
             \A n \in 0 .. Len(o.spec.inputs) : Fed(o.spec, n)' <=> Fed(o.spec, n)
    BY <1>1, <1>5, SyncKeeps
  <2>2. Composes(o.spec)' <=> Composes(o.spec)
    BY <1>2 DEF Composes
  <2>3. Len(o.spec.inputs) \in 0 .. Len(o.spec.inputs)
    <3>1. cache[p] \in Objects
      BY <1>3, <1>5 DEF Stores
    <3> QED
      BY <1>5, <3>1, StatusFields
  <2>4. Composes(o.spec) => "composition" \in enabled
    BY DEF Composes
  <2>5. Implied(p, o.spec)' <=> Implied(p, o.spec)
    BY <2>1, <2>2, <2>3, <2>4 DEF Implied
  <2> QED
    BY <2>1, <2>2, <2>4, <2>5 DEF Truthful
<1>6. ASSUME NEW p \in Products PROVE Rested(p)'
  <2> SUFFICES ASSUME cache'[p] # None, ~(pc' # "idle" /\ target' = p), ~Awaited(p)'
               PROVE  (IF Unwatched(cache[p]) THEN p \in timers ELSE Truthful(p, cache[p]))'
    BY DEF Rested
  <2>1. p # q
    BY <1>2 DEF Awaited
  <2>2. cache'[p] = cache[p] /\ ~Awaited(p)
    BY <1>1, <1>4, <2>1, SyncKeeps
  <2>3. IF Unwatched(cache[p]) THEN p \in timers ELSE Truthful(p, cache[p])
    BY <1>1, <1>2, <2>2 DEF Rested
  <2>4. CASE Unwatched(cache[p])
    BY <1>2, <2>2, <2>3, <2>4
  <2>5. CASE ~Unwatched(cache[p])
    <3>1. \A o : o = cache[p] => Truthful(p, o)'
      BY <1>5, <2>1, <2>2, <2>3, <2>5
    <3>2. Truthful(p, cache[p])'
      BY <2>2, <3>1 DEF Truthful, Implied, Composes, Fed
    <3> QED
      BY <2>2, <2>5, <3>2
  <2> QED
    BY <2>4, <2>5
<1>7. OwnCopy'
  <2> SUFFICES ASSUME pc # "idle", target \notin queue'
               PROVE  /\ cache'[target] # None /\ product.spec = cache'[target].spec
                      /\ product.generation = cache'[target].generation /\ base = cache'[target].status
    BY <1>2 DEF OwnCopy
  <2>1. target # q /\ target \notin queue /\ target \in Products
    BY <1>1, <1>2 DEF TypeOK
  <2> QED
    BY <1>1, <1>4, <2>1 DEF OwnCopy
<1>8. ASSUME pc # "idle", ~Awaited(target)'
      PROVE  /\ target # q /\ ~Awaited(target) /\ cache'[target] = cache[target]
             /\ target \in Products /\ product \in Objects /\ product # None /\ cache[target] # None
             /\ product.spec = cache[target].spec
             /\ "composition" \in enabled =>
                  q \notin Graph(cache', target) /\ Graph(cache, target) = Graph(cache', target)
             /\ ~Composes(product.spec) =>
                 \A n \in 0 .. Len(product.spec.inputs) : Fed(product.spec, n)' <=> Fed(product.spec, n)
  <2>0. \A t : t = target => (Awaited(t)' <=> Awaited(target)')
    BY <1>2 DEF Awaited, Sources
  <2>1. target # q /\ target \notin queue /\ target \in Products /\ product \in Objects
    BY <1>1, <1>2, <1>8 DEF TypeOK, Awaited
  <2>2. cache[target] # None /\ product.spec = cache[target].spec
    BY <1>1, <1>8, <2>1 DEF OwnCopy
  <2>3. product # None
    BY <2>1, NoneAssumption
  <2>4. \A t \in Products : \A spec : t = target /\ spec = product.spec =>
           /\ ~Awaited(t) /\ cache'[t] = cache[t]
           /\ "composition" \in enabled =>
                  q \notin Graph(cache', t) /\ Graph(cache, t) = Graph(cache', t)
           /\ ~Composes(spec) => \A n \in 0 .. Len(spec.inputs) : Fed(spec, n)' <=> Fed(spec, n)
    BY <1>1, <1>8, <2>0, <2>1, <2>2, SyncKeeps
  <2>5. \A spec : spec = product.spec => \A n : Fed(product.spec, n)' <=> Fed(spec, n)'
    BY <1>2 DEF Fed
  <2> QED
    BY <2>1, <2>2, <2>3, <2>4, <2>5
<1>9. WalkUnderWay'
  <2> SUFFICES ASSUME pc \in {"visit", "lineage"}
               PROVE  /\ Composes(product.spec) /\ graph.products[target] = product
                      /\ product.spec.source = "none" => source.ready
                      /\ Standing(pc, graph, stack, observation, target)
                      /\ ~Awaited(target)' => Agrees(graph, [cache' EXCEPT ![target] = product])
    BY <1>2 DEF WalkUnderWay, Composes
  <2>1. /\ Composes(product.spec) /\ graph.products[target] = product
        /\ product.spec.source = "none" => source.ready
        /\ Standing(pc, graph, stack, observation, target)
        /\ ~Awaited(target) => Agrees(graph, [cache EXCEPT ![target] = product])
    BY <1>1 DEF WalkUnderWay
  <2>2. ASSUME ~Awaited(target)' PROVE Agrees(graph, [cache' EXCEPT ![target] = product])
    <3>1. /\ Agrees(graph, [cache EXCEPT ![target] = product])
          /\ target # q /\ q \notin Graph(cache, target)
          /\ target \in Products /\ product \in Objects /\ product # None /\ cache[target] # None
          /\ product.spec = cache[target].spec
      BY <1>8, <2>1, <2>2 DEF Composes
    <3>2. Kept(graph, target)
      BY <2>1 DEF Standing, Walking
    <3>3. graph \in Graphs
      BY <1>1 DEF TypeOK
    <3>4. Loaded(graph) \cup graph.missing \subseteq Graph(cache, target)
      BY <1>3, <3>1, <3>2, <3>3, WalkBelow
    <3>5. Loaded(graph) \subseteq Products /\ graph.missing \subseteq Products
      BY <3>3 DEF Loaded, Graphs
    <3>6. \A x \in Products : x # q => [cache' EXCEPT ![target] = product][x] = [cache EXCEPT ![target] = product][x]
      BY <1>2, <1>3, <1>4 DEF Stores
    <3> QED
      BY <3>1, <3>4, <3>5, <3>6 DEF Agrees
  <2> QED
    BY <2>1, <2>2
<1>10. LoopUnderWay'
  <2> SUFFICES ASSUME pc = "inputs"
               PROVE  /\ ~Composes(product.spec) /\ product.status.inputs = {} /\ ~Contracted(product.spec)
                      /\ next \in 1 .. Len(product.spec.inputs)
                      /\ ~Awaited(target)' => Fed(product.spec, next - 1)'
    BY <1>2 DEF LoopUnderWay, Composes, Fed
  <2>1. /\ ~Composes(product.spec) /\ product.status.inputs = {} /\ ~Contracted(product.spec)
        /\ next \in 1 .. Len(product.spec.inputs)
        /\ ~Awaited(target) => Fed(product.spec, next - 1)
    BY <1>1 DEF LoopUnderWay
  <2>2. next - 1 \in 0 .. Len(product.spec.inputs)
    BY <2>1
  <2>3. \A n : n = next - 1 => (Fed(product.spec, n)' <=> Fed(product.spec, next - 1)')
    BY <1>2 DEF Fed
  <2> QED
    BY <1>8, <2>1, <2>2, <2>3
<1>11. VerdictReached'
  <2> SUFFICES ASSUME pc = "write", ~failed, ~Unwatched(product), ~Awaited(target)'
               PROVE  Truthful(target, product)'
    BY <1>2 DEF VerdictReached
  <2>1. Truthful(target, product)
    BY <1>1, <1>8 DEF VerdictReached
  <2>2. \A t, o : t = target /\ o = product =>
          (Awaited(t)' <=> Awaited(target)') /\ (Truthful(t, o)' <=> Truthful(target, product)')
    BY <1>2 DEF Awaited, Sources, Truthful, Implied, Composes, Fed
  <2> QED
    BY <1>5, <1>8, <2>1, <2>2
<1> QED
  BY <1>6, <1>7, <1>9, <1>10, <1>11 DEF Alert

(* A restart queues everything there is. *)
LEMMA RestartAlert ==
  ASSUME Restart
  PROVE  Alert'
<1>1. cache' = api /\ queue' = Existing(api) /\ pc' = "idle"
  BY DEF Restart, StopWorker
<1>2. \A p \in Products : Rested(p)'
  BY <1>1 DEF Rested, Awaited, Existing
<1> QED
  BY <1>1, <1>2 DEF Alert, OwnCopy, WalkUnderWay, LoopUnderWay, VerdictReached

(* The dependency handler queues whoever waits for the event it takes. *)
LEMMA DependencyAlert ==
  ASSUME WakeInv, NEW q \in Products, requestsForDependency(q), "list" \notin Disturbances
  PROVE  Alert'
<1>1. Alert /\ TypeOK
  BY DEF WakeInv, CoverInv, BindingInv, TypeInv
<1>2. /\ depEvents' = depEvents \ {q} /\ queue' = queue \cup requests(q)
      /\ UNCHANGED <<fresh, timers, cache, enabled, pc, target, product, base, source, next, failed, walkVars>>
  BY DEF requestsForDependency, worldVars, workVars
<1>3. ASSUME NEW p \in Products, Awaited(p) PROVE Awaited(p)'
  <2>1. Sources(p)' = Sources(p)
    BY <1>2 DEF Sources
  <2>2. q \in Sources(p) => p \in requests(q)
    <3>1. CASE "composition" \in enabled
      BY <3>1 DEF Sources, requests
    <3>2. CASE "composition" \notin enabled
      BY <3>2 DEF Sources, requests, Consumers
    <3> QED
      BY <3>1, <3>2
  <2> QED
    BY <1>2, <1>3, <2>1, <2>2 DEF Awaited
<1>4. pc # "idle" => target \in Products
  BY <1>1 DEF TypeOK
<1> QED
  BY <1>1, <1>2, <1>3, <1>4, CalmAlert

(* The worker takes a product from the queue. *)
LEMMA BeginAlert ==
  ASSUME WakeInv, NEW q \in Products, BeginReconcile(q)
  PROVE  Alert'
<1>1. Alert /\ \A p \in Products : Rested(p)
  BY DEF WakeInv, Alert
<1>2. /\ pc = "idle" /\ queue' = queue \ {q}
      /\ UNCHANGED <<cache, fresh, depEvents, timers, enabled>>
  BY DEF BeginReconcile, watchVars, worldVars
<1>3. ASSUME NEW p \in Products, p # q PROVE Rested(p)'
  <2>1. Awaited(p) => Awaited(p)'
    BY <1>2, <1>3 DEF Awaited, Sources
  <2>2. Rested(p)
    BY <1>1
  <2> QED
    BY <1>2, <2>1, <2>2 DEF Rested, Truthful, Implied, Composes, Fed
<1>4. CASE cache[q] = None /\ UNCHANGED <<pc, workVars>>
  <2>1. Rested(q)'
    BY <1>2, <1>4 DEF Rested
  <2> QED
    BY <1>2, <1>3, <1>4, <2>1 DEF Alert, OwnCopy, WalkUnderWay, LoopUnderWay, VerdictReached
<1>5. CASE /\ cache[q] # None
           /\ target' = q /\ product' = cache[q] /\ base' = cache[q].status /\ pc' = "observe"
  <2>1. Rested(q)' /\ OwnCopy'
    BY <1>2, <1>5 DEF Rested, OwnCopy
  <2> QED
    BY <1>3, <1>5, <2>1 DEF Alert, WalkUnderWay, LoopUnderWay, VerdictReached
<1> QED
  BY <1>4, <1>5 DEF BeginReconcile

(* The worker finishes: it leaves a truthful status, a timer, or another   *)
(* reason to come back.                                                    *)
LEMMA UpdateAlert ==
  ASSUME WakeInv, updateStatusIfChanged
  PROVE  Alert'
<1>1. /\ TypeOK /\ OwnCopy /\ VerdictReached /\ \A p \in Products : Rested(p)
  BY DEF WakeInv, CoverInv, BindingInv, TypeInv, Alert
<1>2. /\ pc = "write" /\ UNCHANGED <<cache, depEvents, enabled>>
      /\ fresh' \subseteq fresh /\ queue \subseteq queue' /\ timers \subseteq timers' /\ pc' = "idle"
  BY DEF updateStatusIfChanged, worldVars, EndReconcile, StopWorker
<1>3. /\ target \in Products /\ product \in Objects
  BY <1>1, <1>2 DEF TypeOK
<1>4. ASSUME NEW p \in Products PROVE Awaited(p) => Awaited(p)'
  BY <1>2 DEF Awaited, Sources
<1>5. ASSUME NEW p \in Products, p # target PROVE Rested(p)'
  <2>1. Rested(p)
    BY <1>1
  <2> QED
    BY <1>2, <1>4, <1>5, <2>1 DEF Rested, Truthful, Implied, Composes, Fed
<1>6. ASSUME NEW t, t = target PROVE Rested(t)'
  <2> SUFFICES ASSUME ~Awaited(t)'
               PROVE  (IF Unwatched(cache[t]) THEN t \in timers ELSE Truthful(t, cache[t]))'
    BY DEF Rested
  <2>1. t \in fresh' /\ t \notin queue'
    BY DEF Awaited
  <2>2. product.status = base /\ EndReconcile(failed)
    BY <1>6, <2>1 DEF updateStatusIfChanged, EndReconcile
  <2>3. ~failed /\ (requeueAfter => t \in timers')
    BY <1>6, <2>1, <2>2 DEF EndReconcile
  <2>4. ~Awaited(target)
    BY <1>3, <1>4, <1>6
  <2>5. /\ product.spec = cache[t].spec /\ product.generation = cache[t].generation
        /\ product.status = cache[t].status
    BY <1>1, <1>2, <1>6, <2>2, <2>4, OwnFacts
  <2>6. CASE Unwatched(cache[t])
    <3>1. requeueAfter
      BY <2>5, <2>6 DEF Unwatched, requeueAfter
    <3> QED
      BY <1>2, <2>3, <2>6, <3>1
  <2>7. CASE ~Unwatched(cache[t])
    <3>1. ~Unwatched(product)
      BY <2>5, <2>7 DEF Unwatched
    <3>2. Truthful(target, product)
      BY <1>1, <1>2, <2>3, <2>4, <3>1 DEF VerdictReached
    <3>3. Truthful(t, cache[t])
      BY <1>6, <2>5, <3>2 DEF Truthful
    <3>4. Truthful(t, cache[t])'
      BY <1>2, <3>3 DEF Truthful, Implied, Composes, Fed
    <3> QED
      BY <1>2, <2>7, <3>4
  <2> QED
    BY <2>6, <2>7
<1> QED
  BY <1>2, <1>5, <1>6 DEF Alert, OwnCopy, WalkUnderWay, LoopUnderWay, VerdictReached

(* What the worker's steps start from. *)
LEMMA WorkerFacts ==
  ASSUME WakeInv, pc # "idle"
  PROVE  /\ TypeOK /\ WalkOK /\ PhaseInv /\ CoverPhase
         /\ Alert /\ OwnCopy /\ WalkUnderWay /\ LoopUnderWay /\ VerdictReached
         /\ target \in Products /\ product \in Objects /\ product # None
         /\ cache \in Stores /\ Manifested(cache) /\ product.spec \in Manifests[target]
         /\ source \in [ready : BOOLEAN, reason : Reasons]
<1>1. TypeOK /\ FramesLoaded(graph, stack) /\ PhaseInv /\ CoverPhase /\ Declared /\ Alert
  BY DEF WakeInv, CoverInv, BindingInv, TypeInv, RegistryInv
<1>2. target \in Products /\ product \in Objects
  BY <1>1 DEF TypeOK
<1>3. product # None
  BY <1>2, NoneAssumption
<1>4. WalkOK /\ cache \in Stores /\ source \in [ready : BOOLEAN, reason : Reasons]
  BY <1>1 DEF TypeOK, WalkOK, Stores
<1>5. Manifested(cache) /\ product.spec \in Manifests[target]
  BY <1>1 DEF Declared, Manifested
<1> QED
  BY <1>1, <1>2, <1>3, <1>4, <1>5 DEF Alert

(* Between two steps of the worker alone, the same is awaited. *)
LEMMA SameAwaited ==
  ASSUME Surroundings' = Surroundings, UNCHANGED <<cache, target>>
  PROVE  /\ Awaited(target)' <=> Awaited(target)
         /\ \A spec : Composes(spec)' <=> Composes(spec)
         /\ \A spec, n : Fed(spec, n)' <=> Fed(spec, n)
<1>1. UNCHANGED <<fresh, depEvents, queue, enabled>>
  BY DEF Surroundings, watchVars, queueVars
<1> QED
  BY <1>1 DEF Awaited, Sources, Composes, Fed

(* What the worker establishes of its new copy o is so after its step. *)
LEMMA NextTruthful ==
  ASSUME Surroundings' = Surroundings, UNCHANGED <<cache, target>>, NEW o, product' = o
  PROVE  /\ Truthful(target, o) => Truthful(target, product)'
         /\ Composes(o.spec) <=> Composes(product.spec)'
<1>1. enabled' = enabled
  BY DEF Surroundings
<1> QED
  BY <1>1 DEF Truthful, Implied, Composes, Fed

(* The observers leave spec and generation alone. *)
LEMMA ObserveAlert ==
  ASSUME WakeInv, Observe
  PROVE  Alert'
<1>1. /\ pc = "observe" /\ Surroundings' = Surroundings /\ UNCHANGED <<cache, target, base>>
  BY DEF Observe
<1>2. product \in Objects /\ Alert
  BY <1>1, WorkerFacts
<1>3. pc' = "composition" /\ product'.spec = product.spec /\ product'.generation = product.generation
  BY <1>2, ObserveFacts
<1>4. WalkUnderWay' /\ LoopUnderWay' /\ VerdictReached'
  BY <1>3 DEF WalkUnderWay, LoopUnderWay, VerdictReached
<1> QED
  BY <1>1, <1>2, <1>3, <1>4, WorkerAlert

(* A product that observes no capability has none to fail. *)
LEMMA NothingObserved ==
  ASSUME NEW o, Evaluated(o), ~Unwatched(o)
  PROVE  o.spec.source = "none" /\ o.status.connector = None /\ o.status.contracts = None
  BY DEF Evaluated, Bound, Unwatched

(* Without composition the verdict is a declared contract, or the loop's. *)
LEMMA SkipAlert ==
  ASSUME WakeInv, SkipComposition
  PROVE  Alert'
<1> DEFINE o == Uncomposed
           n == Len(product.spec.inputs)
<1>1. /\ pc = "composition" /\ Surroundings' = Surroundings
      /\ UNCHANGED <<cache, target, base, source>> /\ Decide(o, FALSE)
      /\ product.spec.inputs = <<>> \/ "composition" \notin enabled
  BY DEF SkipComposition
<1>2. /\ TypeOK /\ PhaseInv /\ CoverPhase /\ Alert /\ product \in Objects
      /\ source \in [ready : BOOLEAN, reason : Reasons]
  BY <1>1, WorkerFacts
<1>3. /\ o \in Objects /\ o.spec = product.spec /\ o.generation = product.generation
      /\ o.status.connector = product.status.connector
      /\ o.status.contracts = product.status.contracts
      /\ o.status.inputs = {}
      /\ o.status.composition # None => Contracted(product.spec) /\ ~o.status.composition.ok
      /\ Contracted(product.spec) => o.status.composition # None
  BY <1>2, UncomposedFacts
<1>4. n \in Nat /\ DOMAIN product.spec.inputs = 1 .. n
  BY <1>2, StatusFields
<1>5. ~Composes(product.spec)
  BY <1>1 DEF Composes
<1> HIDE DEF o, n
<1>6. pc' \in {"inputs", "write"} /\ product'.spec = product.spec
  BY <1>1, <1>2, <1>3, DecideKeeps
<1>7. /\ pc' = "inputs" =>
           /\ product' = o /\ next' = 1 /\ o.status.composition = None
           /\ 1 <= n
      /\ pc' = "write" =>
           /\ product'.spec = o.spec /\ product'.generation = o.generation
           /\ product'.status.inputs = o.status.inputs
           /\ product'.status.ready \in Conditions
           /\ product'.status.ready.observedGeneration = o.generation
           /\ o.status.composition = None /\ product'.status.ready.ok => 1 > n
           /\ /\ source.ready /\ o.status.connector = None /\ o.status.contracts = None
              => (product'.status.ready.ok <=> Passing(o.status.composition))
  BY <1>1, <1>2, <1>3, DecideOutcome DEF n
<1>8. product'.generation = product.generation
  BY <1>3, <1>6, <1>7
<1>9. WalkUnderWay'
  BY <1>6 DEF WalkUnderWay
<1>10. LoopUnderWay'
  <2> SUFFICES ASSUME pc' = "inputs" PROVE LoopUnderWay'
    BY DEF LoopUnderWay
  <2>1. ~Contracted(product.spec)
    BY <1>3, <1>7
  <2>2. ~Composes(product.spec)'
    BY <1>1, <1>3, <1>5, <1>7, NextTruthful
  <2>3. Fed(product.spec, next - 1)'
    BY <1>7 DEF Fed
  <2> QED
    BY <1>3, <1>4, <1>6, <1>7, <2>1, <2>2, <2>3 DEF LoopUnderWay, n
<1>11. VerdictReached'
  <2> SUFFICES ASSUME pc' = "write", ~Unwatched(product') PROVE Truthful(target, product)'
    BY DEF VerdictReached
  <2>1. ~Unwatched(product)
    BY <1>6 DEF Unwatched
  <2>2. /\ product.spec.source = "none" /\ product.status.connector = None
        /\ product.status.contracts = None
    BY <1>1, <1>2, <2>1, NothingObserved DEF PhaseInv
  <2>3. product'.status.ready.ok <=> Passing(o.status.composition)
    BY <1>1, <1>2, <1>3, <1>7, <2>2 DEF CoverPhase
  <2>4. Passing(o.status.composition) <=> Fed(product.spec, n)
    <3>1. CASE o.status.composition = None
      <4>1. Passing(o.status.composition)
        BY <3>1 DEF Passing
      <4>2. 1 > n
        BY <1>7, <2>3, <3>1, <4>1
      <4> QED
        BY <1>4, <4>1, <4>2 DEF Fed
    <3>2. CASE o.status.composition # None
      <4>1. Contracted(product.spec) /\ ~Passing(o.status.composition)
        BY <1>3, <3>2 DEF Passing
      <4> QED
        BY <1>4, <4>1 DEF Contracted, Fed
    <3> QED
      BY <3>1, <3>2
  <2>5. product'.status.ready # None /\ product'.status.ready.observedGeneration = product'.generation
    BY <1>3, <1>7, <1>8, NoneAssumption
  <2>6. \A new : new = product' => Truthful(target, new)
    BY <1>3, <1>5, <1>6, <1>7, <2>3, <2>4, <2>5 DEF Truthful, Implied, n
  <2> QED
    BY <1>1, <2>6, NextTruthful
<1> QED
  BY <1>1, <1>2, <1>6, <1>8, <1>9, <1>10, <1>11, WorkerAlert

(* The walk sets out from the working copy. *)
LEMMA BeginWalkAlert ==
  ASSUME WakeInv, observeComposition
  PROVE  Alert'
<1>1. /\ pc = "composition" /\ Surroundings' = Surroundings /\ Composes(product.spec)
      /\ UNCHANGED <<cache, target, base, product, source>>
      /\ Enter([EmptyGraph EXCEPT !.products[target] = product], <<>>, target, 0)
  BY DEF observeComposition, BeginComposition, Composes
<1>2. /\ Alert /\ PhaseInv /\ CoverPhase /\ cache \in Stores /\ target \in Products
      /\ product \in Objects /\ product # None /\ product.spec \in Manifests[target]
  BY <1>1, WorkerFacts
<1>3. /\ EmptyGraph \in Graphs /\ Walking(EmptyGraph, <<>>, target)
      /\ Cardinality(Loaded(EmptyGraph)) < MaxProducts
  BY <1>2, EmptyWalking
<1>4. Unseen(EmptyGraph, <<>>, target, target)
  BY <1>2, <1>3 DEF Unseen, EmptyGraph
<1>5. Enter(Read(EmptyGraph, target, product), <<>>, target, 0)
  BY <1>1 DEF Read
<1>6. ASSUME NEW s, s = <<>>
      PROVE  /\ s \in Seq(Frames) /\ Walking(EmptyGraph, s, target) /\ Unseen(EmptyGraph, s, target, target)
             /\ Enter(Read(EmptyGraph, target, product), s, target, Len(s))
  BY <1>3, <1>4, <1>5, <1>6
<1>7. /\ Standing(pc', graph', stack', observation', target)
      /\ graph'.products = [EmptyGraph.products EXCEPT ![target] = product]
  <2>1. PICK s : s = <<>>
    OBVIOUS
  <2>2. /\ s \in Seq(Frames) /\ Walking(EmptyGraph, s, target) /\ Unseen(EmptyGraph, s, target, target)
        /\ Enter(Read(EmptyGraph, target, product), s, target, Len(s))
    BY <1>6, <2>1
  <2>3. EmptyGraph \in Graphs /\ target \in Products /\ product \in Objects /\ product # None
        /\ product.spec \in Manifests[target]
    BY <1>2, <1>3
  <2> QED
    BY <2>2, <2>3, EnterStanding
<1>8. graph'.missing = {}
  <2>1. \/ graph' = Read(EmptyGraph, target, product)
        \/ \E edges : graph' = [Read(EmptyGraph, target, product) EXCEPT !.edges = edges]
    BY <1>5 DEF Enter, EnterUnless
  <2>2. Read(EmptyGraph, target, product).missing = {}
    BY DEF Read, EmptyGraph
  <2> QED
    BY <2>1, <2>2 DEF Read, EmptyGraph
<1>9. /\ graph'.products[target] = product
      /\ \A q \in Products : q # target => graph'.products[q] = None
  BY <1>2, <1>7 DEF EmptyGraph
<1>10. Agrees(graph', [cache EXCEPT ![target] = product])
  BY <1>2, <1>8, <1>9 DEF Agrees, Loaded, Stores
<1>11. pc' \in {"visit", "lineage"}
  BY <1>7 DEF Standing
<1>12. Composes(product.spec)'
  BY <1>1, NextTruthful
<1>13. WalkUnderWay'
  BY <1>1, <1>2, <1>7, <1>9, <1>10, <1>12 DEF WalkUnderWay, CoverPhase
<1>14. LoopUnderWay' /\ VerdictReached'
  BY <1>11 DEF LoopUnderWay, VerdictReached
<1> QED
  BY <1>1, <1>2, <1>11, <1>13, <1>14, WorkerAlert

(* The walk goes on. *)
LEMMA VisitAlert ==
  ASSUME WakeInv, VisitProducers
  PROVE  Alert'
<1>1. /\ pc = "visit" /\ visit /\ Surroundings' = Surroundings
      /\ UNCHANGED <<cache, target, base, product, source>>
  BY DEF VisitProducers, visit, VisitForeign, VisitTooMany, VisitMissing, VisitUnavailable, VisitCycle,
         VisitAgain, VisitNew, Return, pending, resolves, active
<1>2. /\ Alert /\ WalkOK /\ WalkUnderWay /\ cache \in Stores /\ Manifested(cache)
      /\ target \in Products /\ product \in Objects /\ product # None
  BY <1>1, WorkerFacts
<1>3. /\ Composes(product.spec) /\ graph.products[target] = product
      /\ product.spec.source = "none" => source.ready
      /\ Standing(pc, graph, stack, observation, target)
      /\ ~Awaited(target) => Agrees(graph, [cache EXCEPT ![target] = product])
  BY <1>1, <1>2 DEF WalkUnderWay
<1>4. graph \in Graphs /\ stack \in Seq(Frames) /\ cache \in [Products -> Objects \cup {None}]
  BY <1>2 DEF WalkOK, Stores
<1>5. /\ Standing(pc', graph', stack', observation', target)
      /\ graph'.products[target] = graph.products[target]
  BY <1>1, <1>2, <1>3, <1>4, VisitStanding
<1>6. /\ \A q \in Products :
           graph'.products[q] = graph.products[q] \/ (graph.products[q] = None /\ graph'.products[q] = cache[q])
      /\ \A q \in graph'.missing : q \in graph.missing \/ (graph.products[q] = None /\ cache[q] = None)
  BY <1>1, <1>4, VisitReads
<1>7. ~Awaited(target) => Agrees(graph', [cache EXCEPT ![target] = product])
  <2>1. \A q \in Products : q # target => [cache EXCEPT ![target] = product][q] = cache[q]
    BY <1>2 DEF Stores
  <2>2. graph'.missing \subseteq Products
    BY <1>1, <1>2, <1>4, VisitType DEF WalkOK, Graphs
  <2> QED
    BY <1>2, <1>3, <1>6, <2>1, <2>2 DEF Agrees, Loaded
<1>8. pc' \in {"visit", "lineage"}
  BY <1>5 DEF Standing
<1>9. Composes(product.spec)' /\ (Awaited(target)' <=> Awaited(target))
  BY <1>1, <1>3, NextTruthful, SameAwaited
<1>10. WalkUnderWay'
  BY <1>1, <1>3, <1>5, <1>7, <1>9 DEF WalkUnderWay
<1>11. LoopUnderWay' /\ VerdictReached'
  BY <1>8 DEF LoopUnderWay, VerdictReached
<1> QED
  BY <1>1, <1>2, <1>8, <1>10, <1>11, WorkerAlert

(* The verdict of a finished walk is the cache's. *)
LEMMA RecordAlert ==
  ASSUME WakeInv, RecordLineage
  PROVE  Alert'
<1> DEFINE o == Composed
           verdict == compositionObservation
<1>1. /\ pc = "lineage" /\ Surroundings' = Surroundings
      /\ UNCHANGED <<cache, target, base, source>> /\ Decide(o, verdict.err)
  BY DEF RecordLineage
<1>2. /\ Alert /\ TypeOK /\ WalkOK /\ OwnCopy /\ WalkUnderWay /\ PhaseInv /\ cache \in Stores
      /\ target \in Products /\ product \in Objects /\ product # None
      /\ source \in [ready : BOOLEAN, reason : Reasons]
  BY <1>1, WorkerFacts
<1>3. /\ Composes(product.spec) /\ graph.products[target] = product
      /\ product.spec.source = "none" => source.ready
      /\ Standing("lineage", graph, stack, observation, target)
      /\ ~Awaited(target) => Agrees(graph, [cache EXCEPT ![target] = product])
  BY <1>1, <1>2 DEF WalkUnderWay
<1>4. /\ o \in Objects /\ o.spec = product.spec /\ o.generation = product.generation
      /\ o.status.connector = product.status.connector
      /\ o.status.contracts = product.status.contracts
      /\ o.status.composition \in Conditions
      /\ o.status.composition.ok <=> verdict.reason = ""
  BY <1>2, ComposedType
<1>5. verdict.err \in BOOLEAN
  BY <1>2, VerdictType DEF Observations
<1>6. o.status.composition # None
  BY <1>4, NoneAssumption
<1>7. graph \in Graphs /\ Kept(graph, target)
  BY <1>2, <1>3 DEF WalkOK, Standing, Walking
<1>8. Judgement(graph, target, verdict)
  BY <1>2, <1>3, <1>7, Judges
<1> HIDE DEF o, verdict
<1>9. pc' \in {"inputs", "write"} /\ product'.spec = product.spec
  BY <1>1, <1>2, <1>4, <1>5, DecideKeeps
<1>10. /\ pc' = "inputs" => o.status.composition = None
       /\ pc' = "write" =>
            /\ product'.generation = o.generation
            /\ product'.status.composition = o.status.composition
            /\ product'.status.ready \in Conditions
            /\ product'.status.ready.observedGeneration = o.generation
            /\ failed' = verdict.err
            /\ /\ ~verdict.err /\ source.ready /\ o.status.connector = None /\ o.status.contracts = None
               => (product'.status.ready.ok <=> Passing(o.status.composition))
  BY <1>1, <1>2, <1>4, <1>5, DecideOutcome
<1>11. pc' = "write" /\ product'.generation = product.generation
  BY <1>4, <1>6, <1>9, <1>10
<1>12. WalkUnderWay' /\ LoopUnderWay'
  BY <1>11 DEF WalkUnderWay, LoopUnderWay
<1>13. VerdictReached'
  <2> SUFFICES ASSUME ~failed', ~Unwatched(product'), ~Awaited(target)' PROVE Truthful(target, product)'
    BY DEF VerdictReached
  <2>1. ~Awaited(target) /\ ~verdict.err
    BY <1>1, <1>10, <1>11, SameAwaited
  <2>2. /\ cache[target] # None /\ product.spec = cache[target].spec
    BY <1>1, <1>2, <2>1, OwnFacts
  <2>3. Alike(graph.products, cache, target)
    BY <1>2, <1>3, <2>2 DEF Alike
  <2>4. verdict.reason = "" <=> CompositionHolds(cache, target)
    BY <1>2, <1>3, <1>7, <1>8, <2>1, <2>3, JudgementHolds
  <2>5. ~Unwatched(product)
    BY <1>9 DEF Unwatched
  <2>6. /\ product.spec.source = "none" /\ product.status.connector = None
        /\ product.status.contracts = None
    BY <1>1, <1>2, <2>5, NothingObserved DEF PhaseInv
  <2>7. product'.status.ready.ok <=> Passing(o.status.composition)
    BY <1>3, <1>4, <1>10, <1>11, <2>1, <2>6
  <2>8. Passing(o.status.composition) <=> CompositionHolds(cache, target)
    BY <1>4, <1>6, <2>4 DEF Passing
  <2>9. product'.status.ready # None /\ product'.status.ready.observedGeneration = product'.generation
    BY <1>4, <1>10, <1>11, NoneAssumption
  <2>10. /\ product'.status.composition # None
         /\ product'.status.composition.ok <=> CompositionHolds(cache, target)
    BY <1>4, <1>6, <1>10, <1>11, <2>4
  <2>11. \A new : new = product' => Truthful(target, new)
    BY <1>3, <1>9, <2>7, <2>8, <2>9, <2>10 DEF Truthful, Implied
  <2> QED
    BY <1>1, <2>11, NextTruthful
<1> QED
  BY <1>1, <1>2, <1>9, <1>11, <1>12, <1>13, WorkerAlert

(* One input of the dependency loop. *)
LEMMA CheckAlert ==
  ASSUME WakeInv, CheckInput
  PROVE  Alert'
<1> DEFINE spec == product.spec
           n == Len(spec.inputs)
           port == spec.inputs[next]
           dependency == cache[port.ref]
           holds == /\ ~port.foreign /\ dependency # None /\ producerReady(dependency)
                    /\ hasOutput(dependency, port.output)
           reason == IF port.foreign THEN "CrossNamespaceDependencyDenied"
                     ELSE IF dependency = None THEN "DependencyNotFound"
                     ELSE IF ~producerReady(dependency) THEN "DependencyNotReady"
                     ELSE IF ~hasOutput(dependency, port.output) THEN "OutputNotFound"
                     ELSE ""
<1>1. /\ pc = "inputs" /\ Surroundings' = Surroundings /\ UNCHANGED <<cache, target, base>>
      /\ \/ reason = "" /\ Proceed(product, next + 1)
         \/ reason # "" /\ setReadiness(product, FALSE, reason, FALSE) /\ UNCHANGED next
         \/ setReadiness(product, FALSE, "DependencyUnavailable", TRUE)
  BY DEF CheckInput
<1>2. Alert /\ LoopUnderWay /\ PhaseInv /\ product \in Objects
  BY <1>1, WorkerFacts
<1>3. /\ ~Composes(spec) /\ product.status.inputs = {} /\ ~Contracted(spec)
      /\ next \in 1 .. n
      /\ ~Awaited(target) => Fed(spec, next - 1)
  BY <1>1, <1>2 DEF LoopUnderWay
<1>4. n \in Nat /\ DOMAIN spec.inputs = 1 .. n
  BY <1>2, StatusFields
<1>5. reason = "" <=> holds
  OBVIOUS
<1>6. reason \in Reasons /\ "DependencyUnavailable" \in Reasons
  BY DEF Reasons
<1>7. port.contract = None
  BY <1>3, <1>4 DEF Contracted
<1>8. /\ ~Awaited(target) /\ holds => Fed(spec, next)
      /\ Fed(spec, n) => holds
  <2>1. \A i \in 1 .. next : i \in 1 .. next - 1 \/ i = next
    BY <1>3, <1>4
  <2>2. \A i \in 1 .. n : Fed(spec, n) =>
          LET p == spec.inputs[i]
          IN  /\ ~p.foreign /\ cache[p.ref] # None /\ producerReady(cache[p.ref])
              /\ hasOutput(cache[p.ref], p.output)
    BY DEF Fed
  <2> QED
    BY <1>3, <1>7, <2>1, <2>2 DEF Fed
<1>9. ~Unwatched(product) => Passing(product.status.connector) /\ Passing(product.status.contracts)
  BY <1>1, <1>2, NothingObserved DEF PhaseInv, Passing
<1> HIDE DEF n, holds, reason, spec
<1>10. ASSUME pc' = "write", product'.spec = spec, product'.generation = product.generation,
              product'.status.inputs = product.status.inputs, product'.status.ready \in Conditions,
              product'.status.ready.observedGeneration = product.generation,
              ~failed' /\ ~Unwatched(product) /\ ~Awaited(target)
                => (product'.status.ready.ok <=> Fed(spec, n))
       PROVE  Alert'
  <2>1. WalkUnderWay' /\ LoopUnderWay'
    BY <1>10 DEF WalkUnderWay, LoopUnderWay
  <2>2. VerdictReached'
    <3> SUFFICES ASSUME ~failed', ~Unwatched(product'), ~Awaited(target)' PROVE Truthful(target, product)'
      BY DEF VerdictReached
    <3>1. ~Awaited(target) /\ ~Unwatched(product)
      BY <1>1, <1>10, SameAwaited DEF Unwatched, spec
    <3>2. product'.status.ready.ok <=> Fed(spec, n)
      BY <1>10, <3>1
    <3>3. product'.status.ready # None /\ product'.status.ready.observedGeneration = product'.generation
      BY <1>10, NoneAssumption
    <3>4. \A new : new = product' => Truthful(target, new)
      BY <1>3, <1>10, <3>2, <3>3 DEF Truthful, Implied, n
    <3> QED
      BY <1>1, <3>4, NextTruthful
  <2> QED
    BY <1>1, <1>2, <1>10, <2>1, <2>2, WorkerAlert DEF spec
<1>11. CASE reason = "" /\ Proceed(product, next + 1)
  <2>0. holds
    BY <1>5, <1>11
  <2>1. holds /\ next + 1 \in Nat
    BY <1>3, <1>4, <2>0
  <2>2. pc' \in {"inputs", "write"}
    BY <1>2, <1>11, <2>1, ProceedFacts DEF setReadiness
  <2>3. CASE pc' = "inputs"
    <3>1. product' = product /\ next' = next + 1 /\ next + 1 <= n
      BY <1>2, <1>11, <2>1, <2>3, ProceedOutcome DEF n, spec
    <3>2. Awaited(target)' <=> Awaited(target)
      BY <1>1, SameAwaited
    <3>3. (Fed(spec, next) <=> Fed(product.spec, next - 1)') /\ (Composes(spec) <=> Composes(product.spec)')
      <4>1. next' - 1 = next
        BY <1>3, <1>4, <3>1
      <4>2. Fed(spec, next) <=> Fed(product.spec, next - 1)'
        BY <1>1, <3>1, <4>1 DEF Fed, spec
      <4>3. Composes(spec) <=> Composes(product.spec)'
        BY <1>1, <3>1, NextTruthful DEF spec
      <4> QED
        BY <4>2, <4>3
    <3>4. ~Awaited(target)' => Fed(product.spec, next - 1)'
      BY <1>8, <2>1, <3>2, <3>3
    <3>5. next' \in 1 .. Len(product'.spec.inputs)
      BY <1>3, <1>4, <3>1 DEF n, spec
    <3>6. LoopUnderWay'
      BY <1>3, <3>1, <3>3, <3>4, <3>5 DEF LoopUnderWay, spec
    <3>7. WalkUnderWay' /\ VerdictReached'
      BY <2>3 DEF WalkUnderWay, VerdictReached
    <3> QED
      BY <1>1, <1>2, <2>3, <3>1, <3>6, <3>7, WorkerAlert
  <2>4. CASE pc' = "write"
    <3>1. /\ next + 1 > n /\ product'.spec = spec /\ product'.generation = product.generation
          /\ product'.status.inputs = product.status.inputs
          /\ product'.status.ready \in Conditions
          /\ product'.status.ready.observedGeneration = product.generation
          /\ Passing(product.status.connector) /\ Passing(product.status.contracts)
               => product'.status.ready.ok
      BY <1>2, <1>11, <2>1, <2>4, ProceedOutcome DEF n, spec
    <3>2. next = n
      BY <1>3, <1>4, <3>1
    <3>3. ~Unwatched(product) /\ ~Awaited(target) => product'.status.ready.ok /\ Fed(spec, n)
      BY <1>8, <1>9, <2>1, <3>1, <3>2
    <3>4. product'.status.ready.ok \in BOOLEAN
      BY <3>1 DEF Conditions
    <3> QED
      BY <1>10, <2>4, <3>1, <3>3, <3>4
  <2> QED
    BY <2>2, <2>3, <2>4
<1>12. CASE reason # "" /\ setReadiness(product, FALSE, reason, FALSE)
  <2>1. ~Fed(spec, n)
    BY <1>5, <1>8, <1>12
  <2>2. /\ pc' = "write" /\ product'.spec = spec /\ product'.generation = product.generation
        /\ product'.status.inputs = product.status.inputs /\ product'.status.ready \in Conditions
        /\ product'.status.ready.observedGeneration = product.generation
        /\ product'.status.ready.ok = FALSE
    BY <1>2, <1>6, <1>12, SetReadinessFacts DEF spec
  <2> QED
    BY <1>10, <2>1, <2>2
<1>13. CASE setReadiness(product, FALSE, "DependencyUnavailable", TRUE)
  <2>1. /\ pc' = "write" /\ failed' = TRUE /\ product'.spec = spec
        /\ product'.generation = product.generation
        /\ product'.status.inputs = product.status.inputs /\ product'.status.ready \in Conditions
        /\ product'.status.ready.observedGeneration = product.generation
    BY <1>2, <1>6, <1>13, SetReadinessFacts DEF spec
  <2> QED
    BY <1>10, <2>1
<1> QED
  BY <1>1, <1>11, <1>12, <1>13

(* In initial states every product is queued. *)
LEMMA InitWake == Init => WakeInv
<1> SUFFICES ASSUME Init PROVE WakeInv
  OBVIOUS
<1>1. \A p \in Products : Rested(p)
  BY DEF Init, Rested, Awaited, Existing
<1>2. pc = "idle"
  BY DEF Init, IdleWorker
<1>3. OwnCopy /\ WalkUnderWay /\ LoopUnderWay /\ VerdictReached
  BY <1>2 DEF OwnCopy, WalkUnderWay, LoopUnderWay, VerdictReached
<1> QED
  BY <1>1, <1>3, InitCover, InitRegistry DEF WakeInv, Alert

(* Every step leaves each product awaited, in hand, or at rest. *)
LEMMA NextWake ==
  ASSUME "list" \notin Disturbances
  PROVE  WakeInv /\ [Next]_vars => WakeInv'
<1> SUFFICES ASSUME WakeInv, [Next]_vars PROVE WakeInv'
  OBVIOUS
<1>1. CoverInv' /\ RegistryInv'
  BY NextCover, NextRegistry DEF WakeInv
<1> SUFFICES Alert'
  BY <1>1 DEF WakeInv
<1>2. TypeOK /\ Alert
  BY DEF WakeInv, CoverInv, BindingInv, TypeInv
<1>3. pc # "idle" => target \in Products
  BY <1>2 DEF TypeOK
<1>4. ASSUME UNCHANGED <<cache, enabled, pc, target, product, base, source, next, failed, walkVars>>,
             fresh' \subseteq fresh, depEvents' = depEvents,
             queue \subseteq queue', queue \cup timers \subseteq queue' \cup timers'
      PROVE  Alert'
  <2>1. \A p \in Products : Awaited(p) => Awaited(p)'
    BY <1>4 DEF Awaited, Sources
  <2> QED
    BY <1>2, <1>3, <1>4, <2>1, CalmAlert
<1>5. ASSUME NEW p, NEW o, Store(p, o)
      PROVE  Alert'
  <2>1. /\ UNCHANGED <<cache, enabled, pc, target, product, base, source, next, failed, walkVars>>
        /\ fresh' = fresh \ {p} /\ UNCHANGED <<depEvents, queue, timers>>
    BY <1>5 DEF Store, queueVars, worldVars
  <2> QED
    BY <1>4, <2>1
<1>6. ASSUME NEW p \in Touched, Create(p) \/ Edit(p) \/ MarkDeleting(p) \/ Remove(p)
      PROVE  Alert'
  BY <1>5, <1>6 DEF Create, Edit, MarkDeleting, Remove
<1>7. ASSUME NEW p \in Touched, FactChanges(p)
      PROVE  Alert'
  BY <1>4, <1>7 DEF FactChanges, watchVars, queueVars, workVars
<1>8. CASE ApiChanges
  BY <1>4, <1>8 DEF ApiChanges, watchVars, queueVars, workVars
<1>9. ASSUME NEW p \in Products, TimerFires(p)
      PROVE  Alert'
  BY <1>4, <1>9 DEF TimerFires, watchVars, worldVars, workVars
<1>10. CASE UNCHANGED vars
  BY <1>4, <1>10 DEF vars, watchVars, queueVars, worldVars, workVars
<1> QED
  BY <1>6, <1>7, <1>8, <1>9, <1>10, RestartAlert, SyncAlert, DependencyAlert, BeginAlert,
     ObserveAlert, SkipAlert, BeginWalkAlert, VisitAlert, RecordAlert, CheckAlert, UpdateAlert
     DEF Next, Disturb, Machinery, Reconcile, Work

(* Unless the List of the dependency handler may fail, no wake-up is lost: *)
(* when nothing is queued, in flight or on its way, every status agrees    *)
(* with all transitive producers on the server, or a timer is running for  *)
(* what no watch reports.                                                  *)
THEOREM NoWakeupLost ==
  ASSUME "list" \notin Disturbances
  PROVE  Spec => []NoLostWakeup
<1>1. WakeInv => NoLostWakeup
  <2> SUFFICES ASSUME WakeInv, Quiescent, NEW p \in Products, api[p] # None,
                      ~(Unwatched(api[p]) /\ p \in timers)
               PROVE  Settled(p)
    BY DEF NoLostWakeup, Settled
  <2>1. TypeOK /\ FreshCopies /\ Rested(p)
    BY DEF WakeInv, CoverInv, BindingInv, TypeInv, Alert
  <2>2. pc = "idle" /\ queue = {} /\ depEvents = {} /\ fresh = Products
    BY DEF Quiescent
  <2>3. cache = api
    BY <2>1, <2>2 DEF FreshCopies, TypeOK
  <2>4. ~Awaited(p)
    BY <2>2 DEF Awaited
  <2>5. ~Unwatched(api[p]) /\ Truthful(p, api[p])
    BY <2>1, <2>2, <2>3, <2>4 DEF Rested
  <2>6. Evidence(p)
    <3>1. api[p] \in Objects
      BY <2>1 DEF TypeOK
    <3>2. ~api[p].spec.connector /\ ~api[p].spec.contractChecks /\ api[p].spec.source = "none"
      BY <2>5 DEF Unwatched
    <3> QED
      BY <3>2 DEF Evidence
  <2>7. Fed(api[p].spec, Len(api[p].spec.inputs)) <=> InputsHold(p)
    <3>1. api[p] \in Objects
      BY <2>1 DEF TypeOK
    <3>2. DOMAIN api[p].spec.inputs = 1 .. Len(api[p].spec.inputs)
      BY <3>1, StatusFields
    <3> QED
      BY <2>3, <3>2 DEF Fed, InputsHold
  <2>8. Implied(p, api[p].spec) <=> ShouldBeReady(p)
    BY <2>3, <2>6, <2>7 DEF Implied, Composes, ShouldBeReady
  <2> QED
    BY <2>3, <2>5, <2>8 DEF Settled, Truthful, Composes
<1> QED
  BY <1>1, InitWake, NextWake, PTL DEF Spec

=============================================================================
