----------------------------- MODULE Reconciler -----------------------------
(***************************************************************************)
(* The DataProduct controller: DataProductReconciler of                    *)
(* internal/controller/dataproduct_controller.go between the API server    *)
(* and the informer, work queue and timers controller-runtime gives it.    *)
(*                                                                         *)
(* One worker runs Reconcile (SetupWithManager keeps the default of one).  *)
(* Each read it makes and each condition it refreshes is a step, so users, *)
(* the informer and the observed workloads may act between any two.        *)
(*                                                                         *)
(* resourceVersion is modelled by what it decides, namely whether a copy   *)
(* is the server's current object: fresh for the informer's copies,        *)
(* current for the worker's.  The informer may lag by any number of        *)
(* writes; it moves to the present object in one step, which loses nothing *)
(* because writes that a lagging copy has not seen commute with its steps. *)
(***************************************************************************)
EXTENDS CompositionGraph

CONSTANTS
  FlagSets,        \* the sets of features a start of the process may enable
  MaxGeneration,   \* bound on the edits of one object
  Disturbances,    \* the kinds of external event this instance has
  Touched,         \* the products publishers touch in this instance
  Elapsing         \* whether thirty seconds can pass

Features == {"composition", "connectors", "contracts", "sources", "engines"}

Facts == {"connector", "contracts", "source"}

ASSUME ReconcilerAssumption ==
  /\ FlagSets \subseteq SUBSET Features
  /\ MaxGeneration \in Nat \ {0}
  /\ Disturbances \subseteq {"edit", "create", "remove", "finalize", "facts", "outage", "list", "restart"}
  /\ Touched \subseteq Products /\ Elapsing \in BOOLEAN

VARIABLES
  api,          \* the API server: [Products -> Objects or None]
  fresh,        \* products whose cached copy is the server's object
  depEvents,    \* informer events not yet seen by requestsForDependency
  queue,        \* the work queue
  timers,       \* products with a RequeueAfter under way
  enabled,      \* features this process was started with
  facts,        \* external: what the observers would find for each product
  base,         \* previousStatus of the reconciliation
  current,      \* whether product carries the server's resourceVersion
  source,       \* sourceObservation
  next,         \* index of the input the dependency loop is at
  failed        \* whether Reconcile returns an error beside the update's

watchVars == <<fresh, depEvents>>
queueVars == <<queue, timers>>
workVars == <<target, product, base, current, source, next, failed>>
worldVars == <<reachable, enabled, facts>>

vars == <<api, cache, watchVars, queueVars, worldVars, pc, workVars, walkVars>>

NoSource == [ready |-> TRUE, reason |-> ""]

Existing(store) == {p \in Products : store[p] # None}

NewObject(spec) ==
  [spec |-> spec, generation |-> 1, deleting |-> FALSE, status |-> NewStatus]

(* The worker's variables between two reconciliations. *)
IdleWorker ==
  /\ pc = "idle" /\ target = None /\ product = None /\ base = NewStatus
  /\ current = FALSE /\ source = NoSource /\ next = 0 /\ failed = FALSE
  /\ graph = EmptyGraph /\ stack = <<>> /\ observation = NoObservation

StopWorker ==
  /\ pc' = "idle" /\ target' = None /\ product' = None /\ base' = NewStatus
  /\ current' = FALSE /\ source' = NoSource /\ next' = 0 /\ failed' = FALSE
  /\ graph' = EmptyGraph /\ stack' = <<>> /\ observation' = NoObservation

(* Every start lists all objects before a worker runs: each is queued, and *)
(* the dependency handler is told of each.                                 *)
Init ==
  /\ api \in {f \in [Products -> {NewObject(s) : s \in UNION {Manifests[p] : p \in Products}}
                                 \cup {None}] :
                \A p \in Products : IF f[p] = None THEN p \in Touched
                                   ELSE f[p].spec \in Manifests[p]}
  /\ facts = [p \in Products |-> {}]
  /\ reachable = TRUE /\ enabled \in FlagSets
  /\ cache = api /\ fresh = Products
  /\ depEvents = Existing(api)
  /\ queue = Existing(api) /\ timers = {}
  /\ IdleWorker

-----------------------------------------------------------------------------
(* External: publishers, garbage collection and the observed workloads.    *)

(* The server stores o for p; copies of p no longer have its version. *)
Store(p, o) ==
  /\ api' = [api EXCEPT ![p] = o]
  /\ fresh' = fresh \ {p}
  /\ current' = (current /\ target # p)
  /\ UNCHANGED <<cache, depEvents, queueVars, worldVars, pc,
                 target, product, base, source, next, failed, walkVars>>

Create(p) ==
  /\ "create" \in Disturbances /\ api[p] = None
  /\ \E s \in Manifests[p] : Store(p, NewObject(s))

Edit(p) ==
  /\ "edit" \in Disturbances /\ api[p] # None /\ api[p].generation < MaxGeneration
  /\ \E s \in Manifests[p] \ {api[p].spec} :
       Store(p, [api[p] EXCEPT !.spec = s, !.generation = @ + 1])

(* A deletion that waits for a finalizer. *)
MarkDeleting(p) ==
  /\ "finalize" \in Disturbances /\ api[p] # None
  /\ ~api[p].deleting /\ api[p].generation < MaxGeneration
  /\ Store(p, [api[p] EXCEPT !.deleting = TRUE, !.generation = @ + 1])

Remove(p) ==
  /\ "remove" \in Disturbances /\ api[p] # None
  /\ Store(p, None)

(* A workload, source or probe changes; no watch reports it. *)
FactChanges(p) ==
  /\ "facts" \in Disturbances
  /\ \E k \in Facts :
       facts' = [facts EXCEPT ![p] = IF k \in @ THEN @ \ {k} ELSE @ \cup {k}]
  /\ UNCHANGED <<api, cache, watchVars, queueVars, reachable, enabled, pc, workVars, walkVars>>

(* The API server stops answering reliably, or recovers. *)
ApiChanges ==
  /\ "outage" \in Disturbances
  /\ reachable' = ~reachable
  /\ UNCHANGED <<api, cache, watchVars, queueVars, enabled, facts, pc, workVars, walkVars>>

(* The controller process dies and starts again, perhaps with other flags. *)
Restart ==
  /\ "restart" \in Disturbances
  /\ cache' = api /\ fresh' = Products
  /\ depEvents' = Existing(api)
  /\ queue' = Existing(api) /\ timers' = {}
  /\ enabled' \in FlagSets
  /\ StopWorker
  /\ UNCHANGED <<api, facts, reachable>>

-----------------------------------------------------------------------------
(* controller-runtime: informer, handlers, timers.                         *)

(* Mutant: a predicate passes only events that change the generation. *)
InformerSync_GenerationChanged(p) ==
  LET generation(o) == IF o = None THEN 0 ELSE o.generation
      dropped == generation(cache[p]) = generation(api[p])
  IN  /\ p \notin fresh
      /\ cache' = [cache EXCEPT ![p] = api[p]]
      /\ fresh' = fresh \cup {p}
      /\ queue' = IF dropped THEN queue ELSE queue \cup {p}
      /\ depEvents' = IF dropped THEN depEvents ELSE depEvents \cup {p}
      /\ UNCHANGED <<api, timers, worldVars, pc, workVars, walkVars>>

(* The informer takes the server's object for p.  The For handler only     *)
(* enqueues the key, so its turn is part of this step; the dependency      *)
(* handler reads the cache, and waits in depEvents for its own.            *)
InformerSync(p) ==
  /\ p \notin fresh
  /\ cache' = [cache EXCEPT ![p] = api[p]]
  /\ fresh' = fresh \cup {p}
  /\ queue' = queue \cup {p}
  /\ depEvents' = depEvents \cup {p}
  /\ UNCHANGED <<api, timers, worldVars, pc, workVars, walkVars>>

(* Cached products that name one of S as a producer. *)
Consumers(S) == {q \in Products : Producers(cache, {q}) \cap S # {}}

(* What the search over reverse edges finds: the direct consumers of p,    *)
(* and with composition every product p is upstream of.                    *)
requests(p) ==
  IF "composition" \in enabled THEN {q \in Products : p \in Upstream(cache, q)}
  ELSE Consumers({p})

requestsForDependency(p) ==
  /\ p \in depEvents
  /\ depEvents' = depEvents \ {p}
  /\ \/ queue' = queue \cup requests(p)
     \/ "list" \in Disturbances /\ ~reachable /\ UNCHANGED queue   \* List failed: logged only
  /\ UNCHANGED <<api, cache, fresh, timers, worldVars, pc, workVars, walkVars>>

TimerFires(p) ==
  /\ Elapsing /\ p \in timers
  /\ timers' = timers \ {p}
  /\ queue' = queue \cup {p}
  /\ UNCHANGED <<api, cache, watchVars, worldVars, pc, workVars, walkVars>>

-----------------------------------------------------------------------------
(* Reconcile.                                                              *)

Surroundings == <<api, watchVars, queueVars, enabled, facts>>

(* Mutant: NotFound is not recognised. *)
BeginReconcile_IgnoresNotFound(p) ==
  /\ pc = "idle" /\ p \in queue
  /\ queue' = queue \ {p}
  /\ target' = p /\ product' = cache[p] /\ base' = NewStatus
  /\ current' = (p \in fresh)
  /\ pc' = "observe"
  /\ UNCHANGED <<source, next, failed>>
  /\ UNCHANGED <<api, cache, watchVars, timers, worldVars, walkVars>>

(* Get of the product itself: gone, or the copy to work on. *)
BeginReconcile(p) ==
  /\ pc = "idle" /\ p \in queue
  /\ queue' = queue \ {p}
  /\ \/ cache[p] = None /\ UNCHANGED <<pc, workVars>>
     \/ /\ cache[p] # None
        /\ target' = p /\ product' = cache[p] /\ base' = cache[p].status
        /\ current' = (p \in fresh)
        /\ pc' = "observe"
        /\ UNCHANGED <<source, next, failed>>
  /\ UNCHANGED <<api, cache, watchVars, timers, worldVars, walkVars>>

(* What an observer finds: its feature is off, or the external fact.       *)
Observed(feature, disabled, fact, ready, unready) ==
  IF feature \notin enabled THEN Condition(FALSE, disabled, product.generation)
  ELSE IF fact \in facts[target] THEN Condition(TRUE, ready, product.generation)
  ELSE Condition(FALSE, unready, product.generation)

observeConnector ==
  IF ~product.spec.connector THEN None
  ELSE Observed("connectors", "ConnectorFeatureDisabled", "connector",
                "ConnectorReady", "ConnectorNotReady")

observeContracts ==
  IF ~product.spec.contractChecks THEN None
  ELSE Observed("contracts", "ContractFeatureDisabled", "contracts",
                "ContractsReady", "ContractProbeNotReady")

observeSource ==
  IF product.spec.source = "engine" /\ "sources" \in enabled
  THEN Observed("engines", "EngineProviderFeatureDisabled", "source",
                "SourceReady", "SourceNotReady")
  ELSE Observed("sources", "SourceFeatureDisabled", "source", "SourceReady", "SourceNotReady")

(* The three observers, each of an external fact of its own.  Only a       *)
(* selected engine has a condition; a Crossplane source speaks through the *)
(* aggregate alone.                                                        *)
Observe ==
  /\ pc = "observe"
  /\ product' = [product EXCEPT !.status =
       [@ EXCEPT !.connector = observeConnector,
                 !.contracts = observeContracts,
                 !.source = IF product.spec.source = "engine" THEN observeSource ELSE None]]
  /\ source' = IF product.spec.source = "none" THEN NoSource
               ELSE [ready |-> observeSource.ok, reason |-> observeSource.reason]
  /\ pc' = "composition"
  /\ UNCHANGED <<Surroundings, cache, reachable, target, base, current, next, failed, walkVars>>

Passing(condition) == condition # None => condition.ok

(* setReadiness on the copy o, to be followed by the status update; err is *)
(* what Reconcile joins to the update's own error.                         *)
setReadiness(o, ok, reason, err) ==
  /\ product' = [o EXCEPT !.status =
                   [@ EXCEPT !.observedGeneration = o.generation,
                             !.ready = Condition(ok, reason, o.generation)]]
  /\ failed' = err
  /\ pc' = "write"

(* The dependency loop stands before input i of o, or is over: then the    *)
(* connector decides, the contracts, and otherwise o is Ready.             *)
Proceed(o, i) ==
  /\ next' = i
  /\ \/ i <= Len(o.spec.inputs) /\ product' = o /\ pc' = "inputs" /\ UNCHANGED failed
     \/ /\ i > Len(o.spec.inputs) /\ ~Passing(o.status.connector)
        /\ setReadiness(o, FALSE, o.status.connector.reason, FALSE)
     \/ /\ i > Len(o.spec.inputs) /\ Passing(o.status.connector)
        /\ ~Passing(o.status.contracts)
        /\ setReadiness(o, FALSE, o.status.contracts.reason, FALSE)
     \/ /\ i > Len(o.spec.inputs) /\ Passing(o.status.connector)
        /\ Passing(o.status.contracts)
        /\ setReadiness(o, TRUE, "DependenciesReady", FALSE)

(* Up to the dependency loop: a failed read, the source, the composition;  *)
(* a verified composition replaces the loop.                               *)
Decide(o, err) ==
  LET composition == o.status.composition
  IN  \/ err /\ setReadiness(o, FALSE, composition.reason, TRUE) /\ UNCHANGED next
      \/ /\ ~err /\ ~source.ready
         /\ setReadiness(o, FALSE, source.reason, FALSE) /\ UNCHANGED next
      \/ /\ ~err /\ source.ready /\ ~Passing(composition)
         /\ setReadiness(o, FALSE, composition.reason, FALSE) /\ UNCHANGED next
      \/ /\ ~err /\ source.ready /\ Passing(composition)
         /\ Proceed(o, IF composition = None THEN 1 ELSE Len(o.spec.inputs) + 1)

(* Mutant: turning the feature off leaves the recorded lineage. *)
SkipComposition_KeepsLineage ==
  /\ pc = "composition"
  /\ product.spec.inputs = <<>> \/ "composition" \notin enabled
  /\ Decide([product EXCEPT !.status.composition = None], FALSE)
  /\ UNCHANGED <<Surroundings, cache, reachable, target, base, current, source, walkVars>>

Contracted(spec) == \E i \in DOMAIN spec.inputs : spec.inputs[i].contract # None

(* The product when no composition is observed: a declared contract then   *)
(* fails.                                                                  *)
Uncomposed ==
  LET condition == IF Contracted(product.spec)
                   THEN Condition(FALSE, "CompositionFeatureDisabled", product.generation)
                   ELSE None
  IN  [product EXCEPT !.status = [@ EXCEPT !.inputs = {}, !.composition = condition]]

(* observeComposition with nothing to compose, or with the feature off. *)
SkipComposition ==
  /\ pc = "composition"
  /\ product.spec.inputs = <<>> \/ "composition" \notin enabled
  /\ Decide(Uncomposed, FALSE)
  /\ UNCHANGED <<Surroundings, cache, reachable, target, base, current, source, walkVars>>

observeComposition ==
  /\ pc = "composition" /\ product.spec.inputs # <<>> /\ "composition" \in enabled
  /\ BeginComposition
  /\ UNCHANGED <<Surroundings, base, current, source, next, failed>>

VisitProducers ==
  /\ visit
  /\ UNCHANGED <<Surroundings, base, current, source, next, failed>>

RecordLineage ==
  /\ pc = "lineage"
  /\ Decide(Composed, compositionObservation.err)
  /\ observation' = compositionObservation
  /\ UNCHANGED <<Surroundings, cache, reachable, target, base, current, source, graph, stack>>

(* One input of the dependency loop, with its cached Get. *)
CheckInput ==
  LET port == product.spec.inputs[next]
      dependency == cache[port.ref]
      reason == IF port.foreign THEN "CrossNamespaceDependencyDenied"
                ELSE IF dependency = None THEN "DependencyNotFound"
                ELSE IF ~producerReady(dependency) THEN "DependencyNotReady"
                ELSE IF ~hasOutput(dependency, port.output) THEN "OutputNotFound"
                ELSE ""
  IN  /\ pc = "inputs"
      /\ \/ reason = "" /\ Proceed(product, next + 1)
         \/ reason # "" /\ setReadiness(product, FALSE, reason, FALSE) /\ UNCHANGED next
         \/ /\ ~port.foreign /\ ~reachable
            /\ setReadiness(product, FALSE, "DependencyUnavailable", TRUE) /\ UNCHANGED next
      /\ UNCHANGED <<Surroundings, cache, reachable, target, base, current, source, walkVars>>

(* Mutant: only a verified composition is looked at again. *)
requeueAfter_VerifiedOnly ==
  \/ product.status.composition # None /\ product.status.composition.ok
  \/ product.spec.connector \/ product.spec.contractChecks
  \/ product.spec.source # "none"

(* Mutant: a source sets no timer. *)
requeueAfter_NoSource ==
  product.status.composition # None \/ product.spec.connector \/ product.spec.contractChecks

(* Whether Reconcile asks to run again after thirty seconds. *)
requeueAfter ==
  \/ product.status.composition # None
  \/ product.spec.connector \/ product.spec.contractChecks
  \/ product.spec.source # "none"

(* The end of Reconcile: an error is retried, a RequeueAfter sets a timer. *)
EndReconcile(err) ==
  /\ queue' = IF err THEN queue \cup {target} ELSE queue
  /\ timers' = IF ~err /\ requeueAfter THEN timers \cup {target} ELSE timers
  /\ StopWorker

(* Mutant: the update carries no resourceVersion. *)
updateStatusIfChanged_NoVersion ==
  /\ pc = "write"
  /\ \/ /\ product.status # base /\ api[target] # None
        /\ api' = [api EXCEPT ![target].status = product.status]
        /\ fresh' = fresh \ {target}
     \/ (product.status = base \/ api[target] = None) /\ UNCHANGED <<api, fresh>>
  /\ EndReconcile(failed)
  /\ UNCHANGED <<cache, depEvents, worldVars>>

(* The update reaches the server only with the current resourceVersion; an *)
(* unreachable server may lose the request or its answer.                  *)
updateStatusIfChanged ==
  LET Applied == /\ api' = [api EXCEPT ![target].status = product.status]
                 /\ fresh' = fresh \ {target}
      NotApplied == UNCHANGED <<api, fresh>>
  IN  /\ pc = "write"
      /\ \/ product.status = base /\ NotApplied /\ EndReconcile(failed)
         \/ product.status # base /\ current /\ reachable /\ Applied /\ EndReconcile(failed)
         \/ product.status # base /\ ~current /\ NotApplied /\ EndReconcile(TRUE)
         \/ product.status # base /\ current /\ ~reachable /\ Applied /\ EndReconcile(TRUE)
         \/ product.status # base /\ current /\ ~reachable /\ NotApplied /\ EndReconcile(TRUE)
      /\ UNCHANGED <<cache, depEvents, worldVars>>

-----------------------------------------------------------------------------
Disturb ==
  \/ \E p \in Touched : Create(p) \/ Edit(p) \/ MarkDeleting(p) \/ Remove(p) \/ FactChanges(p)
  \/ ApiChanges \/ Restart

Machinery ==
  \E p \in Products : InformerSync(p) \/ requestsForDependency(p) \/ TimerFires(p)

Work ==
  \/ Observe \/ SkipComposition \/ observeComposition \/ VisitProducers \/ RecordLineage
  \/ CheckInput \/ updateStatusIfChanged

Reconcile == (\E p \in Products : BeginReconcile(p)) \/ Work

Next == Disturb \/ Machinery \/ Reconcile

(* Informer, handlers and timers run in goroutines of their own; the queue *)
(* is first in first out, so every queued product gets its turn.           *)
Fairness ==
  /\ \A p \in Products : /\ WF_vars(InformerSync(p))
                         /\ WF_vars(requestsForDependency(p)) /\ WF_vars(TimerFires(p))
                         /\ SF_vars(BeginReconcile(p))
  /\ WF_vars(Work)

Spec == Init /\ [][Next]_vars

FairSpec == Spec /\ Fairness

-----------------------------------------------------------------------------
(* Properties.                                                             *)

Phases == {"idle", "observe", "composition", "visit", "lineage", "inputs", "write"}

(* Every variable keeps its type, and a worker past its first Get has an   *)
(* object in hand.                                                         *)
TypeOK ==
  /\ api \in [Products -> Objects \cup {None}]
  /\ cache \in [Products -> Objects \cup {None}]
  /\ fresh \subseteq Products /\ depEvents \subseteq Products
  /\ queue \subseteq Products /\ timers \subseteq Products
  /\ reachable \in BOOLEAN /\ enabled \subseteq Features
  /\ facts \in [Products -> SUBSET Facts]
  /\ pc \in Phases
  /\ target \in Products \cup {None} /\ product \in Objects \cup {None}
  /\ pc # "idle" => target \in Products /\ product \in Objects
  /\ base \in Statuses /\ current \in BOOLEAN /\ next \in Nat /\ failed \in BOOLEAN
  /\ source \in [ready : BOOLEAN, reason : Reasons]
  /\ graph \in Graphs /\ stack \in Seq(Frames) /\ observation \in Observations

Bound(condition, declared, generation) ==
  /\ declared <=> condition # None
  /\ condition # None => condition.observedGeneration = generation

(* The status o carries for its own generation was computed from its own   *)
(* spec: each condition is there exactly when the spec declares the        *)
(* capability, the recorded lineage is that of the spec's inputs, and      *)
(* Ready is True only with every one of them passing.                      *)
Coherent(o) ==
  LET status == o.status
  IN  /\ status.observedGeneration = o.generation
      /\ Bound(status.connector, o.spec.connector, o.generation)
      /\ Bound(status.contracts, o.spec.contractChecks, o.generation)
      /\ Bound(status.source, o.spec.source = "engine", o.generation)
      /\ status.composition # None =>
           /\ o.spec.inputs # <<>>
           /\ status.composition.observedGeneration = o.generation
      /\ status.inputs # {} =>
           {<<entry.name, entry.ref>> : entry \in status.inputs}
             = {<<o.spec.inputs[i].name, o.spec.inputs[i].ref>> : i \in DOMAIN o.spec.inputs}
      /\ status.ready.ok =>
           /\ Passing(status.connector) /\ Passing(status.contracts)
           /\ Passing(status.source) /\ Passing(status.composition)
           /\ \A entry \in status.inputs : entry.ready
           /\ Contracted(o.spec) => status.composition # None

(* A Ready condition that claims the current generation is coherent with   *)
(* the current spec, through edits, deletions, re-creations under the same *)
(* name, restarts with other flags and ambiguous writes.  Only the         *)
(* resourceVersion of updateStatusIfChanged keeps a slow reconciliation of *)
(* a deleted object from certifying its successor.                         *)
GenerationBinding ==
  \A p \in Products :
    /\ api[p] # None /\ api[p].status.ready # None
    /\ api[p].status.ready.observedGeneration = api[p].generation
    => Coherent(api[p])

(* Capabilities p declares whose state no watch reports. *)
Unwatched(o) == o.spec.source # "none" \/ o.spec.connector \/ o.spec.contractChecks

Evidence(p) ==
  LET spec == api[p].spec
      found(feature, fact) == feature \in enabled /\ fact \in facts[p]
  IN  /\ spec.connector => found("connectors", "connector")
      /\ spec.contractChecks => found("contracts", "contracts")
      /\ spec.source # "none" => found("sources", "source")
      /\ spec.source = "engine" => "engines" \in enabled

(* What readiness of the direct inputs means without composition. *)
InputsHold(p) ==
  \A i \in DOMAIN api[p].spec.inputs :
    LET port == api[p].spec.inputs[i]
    IN  /\ port.contract = None /\ ~port.foreign
        /\ api[port.ref] # None
        /\ producerReady(api[port.ref])
        /\ hasOutput(api[port.ref], port.output)

ShouldBeReady(p) ==
  /\ Evidence(p)
  /\ IF "composition" \in enabled /\ api[p].spec.inputs # <<>>
     THEN CompositionHolds(api, p) ELSE InputsHold(p)

(* The stored status of p says what the server's objects imply right now.  *)
Settled(p) ==
  LET status == api[p].status
      composed == "composition" \in enabled /\ api[p].spec.inputs # <<>>
  IN  api[p] # None =>
        /\ status.ready # None
        /\ status.ready.observedGeneration = api[p].generation
        /\ status.ready.ok <=> ShouldBeReady(p)
        /\ composed => /\ status.composition # None
                       /\ status.composition.ok <=> CompositionHolds(api, p)
        /\ ~composed => status.inputs = {}

(* Nothing is queued, in flight or on its way from the server. *)
Quiescent ==
  pc = "idle" /\ queue = {} /\ depEvents = {} /\ fresh = Products

(* No wake-up is lost: whenever the controller has nothing left to do, the *)
(* status of every product agrees with all its transitive producers.  Only *)
(* what no watch reports may be out of date, and then a timer is running.  *)
NoLostWakeup ==
  Quiescent => \A p \in Products :
                 \/ Settled(p)
                 \/ Unwatched(api[p]) /\ p \in timers

(* With composition on, even an event lost to a failing List leaves a      *)
(* timer behind for every consumer it concerned.                           *)
TimerCoversLostEvents ==
  Quiescent /\ "composition" \in enabled =>
    \A p \in Products : Settled(p) \/ p \in timers

(* Once nobody disturbs the system any more, every status becomes and      *)
(* stays the one the objects imply, and the controller stops writing.      *)
Converges ==
  <>[][~Disturb]_vars /\ <>[]reachable =>
    /\ <>[](\A p \in Products : Settled(p))
    /\ <>[][api' = api]_vars

=============================================================================
