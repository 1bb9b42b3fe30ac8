# data-product-controller in TLA+

A Kubernetes controller keeps `DataProduct` objects' status up to date, a registry publishes them,
a browser application shows them, and small HTTP services connect them to their sources. The
modules here model the parts that carry the project's own logic, model-check them with TLC and
prove most of the safety properties with TLAPS for every value of the parameters.

## The system

| Part | State it keeps | Operations | What makes it correct |
| --- | --- | --- | --- |
| `DataProduct` API (`api/v1alpha1`) | spec, generation, status in the API server | create, edit, delete (publishers), status update (controller) | a status belongs to the generation it claims |
| reconciler (`internal/controller/dataproduct_controller.go`) | informer cache, work queue, timers; nothing of its own across reconciliations | `Reconcile`, `requestsForDependency`, status write | no wake-up lost, statuses settle, no status certifies another object |
| composition (`composition.go`) | one walk: products read, memo of heights, path, edge count | `observeComposition`, `visit` | the verdict is exact for what was read, within limits, and the call returns |
| contract checks (`contracts.go`) | none | uncached reads of up to eight probe Deployments within five seconds | condition follows the latest reads, a timer follows it |
| source, engine and connector observers (`internal/provisioner`, `provider`, `connector`) | none | several uncached reads each | ready only on evidence that belongs together |
| registry (`internal/registry`) | one trace slot; none otherwise | list, discover with cursors, one descriptor, one dependency trace | only profile-conforming documents, complete means complete |
| browser (`internal/registry/ui`, `web`) | inventory, selection, route, trace, pending reads | load, page, select, trace, export, hide and show | what is shown and exported is the selection's |
| HTTP source connector (`internal/httpsource`) | two slot pools, gauges, a mutex | query, probe, scrape | health samples are whole, from callers that stayed |
| contract probe (`internal/contractprobe`) | one slot, gauges, a reader/writer lock | probe, scrape | as above, and in order |
| server lifecycle (`internal/httpserver`, `cmd/*`) | listener, shutdown deadline | run, shut down | ends, with the right error |
| publisher preflight (`internal/preflight`) | one report while it is made | read sources, admit documents, check the graph, plan | agrees with the controller, and its report bears out its own claims |
| sample clients (`docs/examples`, `examples`) | none | read a report, a trace, an API | refuse what is not borne out |
| catalogue, dataspace export, UI kit, delivery scripts | files and documents | pure conversions, mostly of text | outside concurrency; see "Not modelled" |

How they interact: publishers write specs; the informer copies objects to the controller's cache
and raises events, for the object itself and, through `requestsForDependency`, for its consumers;
the worker reads the cache and unwatched workloads and writes a status, which is again an event.
The registry reads the same objects at any time and answers the browser, which checks every answer
before showing it. The connector and the probe run in other pods; the controller sees them, and the
databases behind a product, through observers that read a resource and a Secret one after the other and
that no event announces. Before any of this, a publisher may check the same manifests offline.

What is hard: a reconciliation works on a copy that may be old, may lose the race for the write and
may not learn whether the write was applied; events can be lost; graph walks read a moving cache
under limits and a deadline, with a memo; the registry reads specs and statuses that are out of step; HTTP handlers
race scrapes and their own callers' departure; the page's answers arrive in another order than it asked; an
observer's two reads may be of two incarnations of a source. PROJECT.json lists these as hazards, line by line.

## Modules

| Module | Models | State and actions |
| --- | --- | --- |
| `DataProducts` | `dataproduct_types.go`, compatibility helpers | the records; `hasOutput`, `inputCompatibility`, `compatibleVersion`, `producerReady` |
| `DependencyGraphs` | reference definitions, no code | `Upstream`, `Layers`, `Cyclic`, `CompositionHolds`: what a graph of products means |
| `CompositionGraph` | `composition.go` | `graph` (products, missing, visited, heights, edges), `stack` of visits; one action per outcome of an iteration of `visit`, `Composed` for the status it leaves |
| `CompositionObservation` | one call of it, with the informer | `world` says what each name may stand for during the call |
| `Reconciler` | `dataproduct_controller.go`, `contracts.go` | API server, cache, queue, timers, facts and one worker; a step per read: `BeginReconcile`, `Observe`, `SkipComposition` or the walk and `RecordLineage`, `CheckInput` per input, `updateStatusIfChanged` |
| `Descriptors` | `descriptor.go`, `descriptor_validation.go`, `handler.go`, `web/descriptor.js` | what is published of an object, and both validators |
| `RegistryView` | the registry beside the reconciler | composes the two: every stored object is one the registry may publish |
| `TraceProfile` | `validTrace`, `validGraph` of `lineage.js` | the browser's predicate on a trace |
| `LineageTrace` | `lineage.go` | one request: `ReadRoot`, the visits, `Respond`; composes with `TraceProfile` |
| `HttpSource` | `httpsource/service.go` | calls at the granularity of slot, cancellation, mutex and gauge; scrapes |
| `ContractProbe` | `contractprobe/service.go` | the same for the probe, with a reader/writer lock |
| `HealthSample` | what the two services promise a scrape | abstract: an observation and a scrape are one step each; `HttpSource` and `ContractProbe` implement it |
| `Sources` | what the adapters share | read failures, current generations, conditions, owner references |
| `CrossplaneSource`, `CnpgSource`, `PerconaSource`, `ArangoSource` | `provisioner/v1/observer.go`; `cnpg.go` and `cnpg_hybrid.go`; `percona.go`; `arango.go` and `arango_checksum.go` | operators: the reasons an adapter finds against a source, in the code's order |
| `ConnectorWorkload` | `connector/v1/observer.go` | the same for a Deployment |
| `SourceWorld` | external: users' declarations, operators' reports, publishers' Secrets | operators only |
| `SourceObservation` | `Registry.Observe` with its adapter, `Deployment.observe` | `Begin`, `ReadResource`, `ReadSecret`, `Return` or `ReadWorkload`; around them `Edit`, `Delete`, `Create`, `Report`, `Publish`, `Withdraw`, `Expire` |
| `Discovery` | `discovery.go`, `uiConfig` and `listProducts` of `handler.go`, the statuses of `productLineage` | one response as an operator of the registry's history, the moment and the query |
| `RegistryPage` | `registry.js`, the panel of `lineage.js` | inventory, flags, route, selection, panel and the reads in flight; one action per listener and per arrival; composes with `Discovery` |
| `ServerLifecycle` | `httpserver.Run`, `serve` of http-source, the probe's `run` | `Select`, `Shutdown`, `Drain`, `Close`, `Collect` against net/http, the signal and the deadline |
| `Preflight` | `internal/preflight` | operators from a selection of sources to a report |
| `ReportReader` | `docs/examples/preflight-client` | `validateReport`, the independent judgement of a report |
| `PublisherReview` | the three on the same products | composes `CompositionObservation`, `Preflight` and `ReportReader` |
| `CompositionProofs`, `CompositionWalkProofs` | | lemmas about `CompositionGraph`; theorems about `CompositionObservation` |
| `ReconcilerProofs` | | theorems about `Reconciler` and `RegistryView` |
| `LineageProofs` | | theorems about `LineageTrace` |
| `HttpSourceProofs`, `ContractProbeProofs` | | theorems about the two services, with their refinement of `HealthSample` |
| `SourceProofs`, `PageProofs` | | theorems about `SourceObservation` and `RegistryPage` |
| `MC*` | | instances for TLC |

Abstractions worth knowing:

- `resourceVersion` is what it decides: whether a copy is the server's current object (`fresh` for
  the cache, `current` for the worker). An informer that lags moves to the present object in one
  step; the states in between would only add copies the same checks refuse.
- The `For` handler only enqueues a key and is part of `InformerSync`; the dependency handler reads
  the cache and is a step of its own. A failed `Get` of the product itself puts the key back
  and changes nothing, hence no action.
- The breadth-first search over consumers is its closure. The connector, contract and source
  observers are one step, each drawing on `facts`; a change of facts between them is
  a change before or after the step, for no condition of one is read by another.
- Messages, transition times, names and URLs are left out. Sizes are numbers chosen by the
  publisher; `MaxLineageBytes`, `MaxDescriptor` and `MaxMetadata` are compared with their sums.
- A version is a major number and the rest, or `Unstable` for what cannot be compared (also
  reached by numbers too large to parse).
- The lists a response sorts are sets; a page of a listing is the set of the next keys in the store's order. The clock of a gauge is the number of observations.
- Requests that are refused before they touch state (method, query, body, a second trace) have no
  action.
- The name of a Secret is the role it plays: generated by CloudNativePG, derived by some operator,
  Percona's fixed system Secret, or dedicated to the application. A declaration is a supported one or one that
  differs from it in a single unsupported point.
- A checksum is the encoding it is made of: equal encodings, equal checksums. The two libraries differ
  in how they write a claim template without a creation time, which is what the code repairs.
- The page numbers its requests and compares on arrival. A read in flight carries whether its number is
  still the current one; `abort` only makes it end sooner, and any read may end at any time.
- An answer shows the registry as it was at some moment between request and arrival; a cursor names
  the snapshot it continues.
- In `Preflight` a context is a number of questions after which it is done, so that a deadline can
  strike at each place where the code asks. A document has at most one fault, the first a rule would find.

## Runs

| Run | Question | Bounds |
| --- | --- | --- |
| `composition_walk` | Is `observeComposition`'s verdict exact, its reason true, its memo right, its resources bounded, and does it return? Does the offline check of the same products agree, and is its report acceptable? | see below |
| `trace_walk` | Does the browser accept every trace, is `complete` exact, are the issues real, the budgets kept, every request answered? | see below |
| `reconcile_events` | Do watch events alone keep a chain of three products current? | end of the chain edited or marked for deletion, composition on or off, no timers |
| `reconcile_recreate` | Can a status certify another object, and what covers a lost event? | a producer removed and created again with equal generation; outages, ambiguous writes, failing List |
| `registry_published` | Is everything the registry can read publishable, and `ready` honest? | all capabilities beside a contracted input, edits, deletion, facts that change unwatched |
| `converges` | Do statuses settle once nobody interferes? | two products edited into a cycle and back, restarts with other flags |
| `source_calls` | Scrapes, cancellation, saturation and progress of the connector | two queries, one probe, an endless scrape; one slot of each kind |
| `source_latest` | Does the gauge reflect the access that completed last? (It does not: finding) | as above |
| `probe_calls` | The same questions for the contract probe, and the order | two calls, two endless scrapes |
| `source_observed` | Is a source called ready only on evidence of one incarnation that is current, and is a healthy one found ready? | eleven selections over all adapters, two incarnations of two generations, three events |
| `registry_page` | Is what the page shows, and lets be saved, what was asked for, its inventory honest with discovery and without, its controls busy only while they should be? | two products in one of two namespaces, pages of one, one change at the registry, four user or registry events, any number of reads in flight |
| `server_shutdown` | Does the process end, and is its exit status honest? | each of the three processes, a request at a time on each server |

In `composition_walk` and `trace_walk` a `world` fixes the objects each name may stand for. The
families are: every graph of three products with up to two inputs each, cyclic and incomplete ones
included; every acyclic graph of four products and one of five, against limits of three levels, four
products and five edges, so each limit is met exactly and exceeded by one; contracts, versions,
protocols, foreign references, sizes and object states on a short chain; failing reads and
deadlines (for traces before, during and after each read); and products that change during the
walk. Two inputs are the fewest that share a producer at two depths, four products the fewest that
do so below the root. The five products are the fewest that exceed the product limit.

On the same graphs `composition_walk` runs the offline check: on the products in one file and in two,
with the deadline at several questions, with each fault in a document, a repeated identity, an unreadable
file, too many sources or documents, an encoded report that is too large, and the API-only mode. Limits of three
sources, six documents, four products and two findings shown are each met and exceeded, and each of the check's twenty
codes occurs.

In `source_observed` three events are enough for the longest story that matters: the resource deleted,
made again and reported ready between the two reads of one observation, or an edit, a report and a new
publication. In `registry_page` four events are: refresh, navigate, hide and show, with a change or a compaction
at the registry among them; or a refresh, a product shown while its configuration is awaited, discovery turned off, and then a
card or a link. Links lead to products of the same namespace only, so both products are in one; the other namespace is a scope in
which nothing of theirs may show. Scopes that take some products and leave others are the theorem's (`InventoryIsHonest`): a third
product is beyond this run.

Two products suffice where the subject is one object and its consumer, three where an event must
travel on. One edit per product is enough for a stale copy; the generation bound counts it. The
reconciler's runs do not check deadlock: a quiet controller may stop, and `NoLostWakeup` says when
it may. The walks have an explicit final step, and the services' scrapes repeat, so deadlock is
checked there. A page whose events are used up and whose reads have landed, and a server that has returned,
may stop, too.

Each run has the properties of one subject. `NoLostWakeup` is checked twice, because watch events and
unwatched facts are different halves of it.

### Properties in brief

- `GenerationBinding`: a Ready condition that claims the current generation was computed from the
  current spec, condition by condition, through re-creation, ambiguous writes and restarts.
- `NoLostWakeup`, `TimerCoversLostEvents`: when the controller has nothing to do, every status is
  what the objects imply, or a timer runs.
- `Converges`: statuses settle and writing stops. Its run has no ambiguous writes; those are `GenerationBinding`'s.
- `VerdictExact`, `ReasonAccurate`, `HeightsExact`, `WalkBounded`, `Terminates`: the walk against
  the reference definitions of `DependencyGraphs` on what it read. `ReasonAccurate` speaks of the structural reasons; a foreign
  reference and an unavailable producer are seen in one read.
- `DescriptorAdmitted`, `ReadinessConsistent`: spec and status out of step never make a document the
  server drops or the browser refuses, nor one ready on old evidence.
- `BrowserAccepts`, `CompleteExact`, `IssuesAccurate`: server and browser agree on traces.
- `ReviewAgrees`: the offline check and the controller's walk, two implementations with two memos, agree
  on structure, depth and cycles, and the witness the check shows is a path that is there. `ReportAccepted`: every
  report is one the independent reader accepts, and none that was cut short looks complete.
- `ReadyMeansOneSource`, `ReadyIsCurrent`, `LateNeverReady`, `SettledSourceReady`: ready means a credential of the
  incarnation that was judged, on a current report of a supported declaration, in time; and no adapter asks for
  what a healthy operator never reports.
- `ShownWasAsked`, `InventoryHonest`, `BusyExact`: the page under answers in any order. With discovery off a descriptor of an
  earlier selection may linger in `selectedDescriptor`; `ShownWasAsked` allows that, as `saveDescriptor` wants discovery, and shows
  that it is gone when discovery is back. `InventoryHonest` compares the first API's list with all products, the paged one with those that
  have a portable descriptor. The page presents a cursor with its own query only, so that a cursor of another query is refused is
  not what this property is about.
- `CleanStop`, `Stops`: the exit status hides nothing, and there is one.
- `HealthSampled` (the refinement of `HealthSample`), `AbandonedNeverObserved`, `BusyOnlyWhenFull`, `LatestShown`, `AllAnswered`:
  health samples are whole, ordered, of callers that stayed; nobody is starved.

### Fairness

`Converges` assumes weak fairness of informer, handlers, timers and the worker's steps, which run in goroutines of
their own, and strong fairness of taking a given key, because the work queue is first in
first out. It assumes nothing of publishers: its premise is that they stop and the API answers.
The walks assume only that their goroutine runs; neither waits for another. The services assume that a handler runs on (an HTTP client
timeout of five seconds ends every read) and, for `HttpSource`, strong fairness of `Lock`: Go's mutex hands over to a
waiter that starves. `ContractProbe` needs only weak fairness, as a waiting writer keeps new
readers out of an `RWMutex`. `SettledSourceReady` assumes that observations go on, as the controller's timer makes
them; the world may do nothing. `Stops` assumes that the process runs and that a deadline which was set
passes; requests may hang and a server may never get to serve.

### Refinement

`HealthSample` is the promise of the metrics: observations happen one after the other, each at one moment, and a
scrape shows the state at one moment between its begin and its end. In `HttpSource` an observation is a lock, two gauges and an
unlock, in `ContractProbe` a lock, a counter, three gauge writes and an unlock, and a scrape collects metric by
metric. The mapping takes the sequence of observations that hold or have released the lock and, for a scrape,
what it had collected when it gave the lock back. Both runs check `HealthSample!Spec` under it.

### Finding

`docs/http-source.md` and the metric's help say `http_source_ready` reflects the most recently completed
access. `fetch` completes, and gives back its slot, before `record` takes the mutex, so two accesses
can be recorded in the other order and the older result stays until the next access. The probe
keeps its slot until it has recorded and does not show this.

### Observed, and not a disagreement

- With composition off, dependency cycles are not detected: statuses may hold each other up. The documents
  promise `DependencyCycle` only with composition on; `converges` uses a cycle with a contracted input.
- With composition off no timer covers an event lost to a failing List.
- With the flag off the connector records `disabled` for calls that were cancelled, too.

## Proofs

| Theorem | Module | States |
| --- | --- | --- |
| `TypeCorrect`, `GenerationBound`, `TimersCover`, `NoWakeupLost` | `ReconcilerProofs` | `TypeOK`, `GenerationBinding`, `TimerCoversLostEvents`, `NoLostWakeup` |
| `AlwaysAdmitted`, `AlwaysConsistent` | `ReconcilerProofs` | `DescriptorAdmitted`, `ReadinessConsistent` |
| `TypeCorrect`, `VerdictIsExact`, `ReasonIsAccurate`, `HeightsAreExact`, `WalkIsBounded` | `CompositionWalkProofs` | `TypeOK`, `VerdictExact`, `ReasonAccurate`, `HeightsExact`, `WalkBounded` |
| `AlwaysBounded`, `AlwaysAccurate`, `AlwaysExact`, `AlwaysAccepted` | `LineageProofs` | `WalkBounded`, `IssuesAccurate`, `CompleteExact`, `BrowserAccepts` |
| `TypeCorrect`, `AbandonedUnobserved`, `BusyIsFull`, `HealthRefined` | `HttpSourceProofs` | `TypeOK`, `AbandonedNeverObserved`, `BusyOnlyWhenFull`, `HealthSampled` |
| `AbandonedUnpublished`, `LatestIsShown`, `HealthRefined` | `ContractProbeProofs` | `AbandonedNeverObserved`, `LatestShown`, `HealthSampled` |
| `ReadyIsOneSource`, `ReadyOnlyCurrent`, `LateIsNotReady` | `SourceProofs` | `ReadyMeansOneSource`, `ReadyIsCurrent`, `LateNeverReady` |
| `ShowsWhatWasAsked`, `BusyWhilePending`, `InventoryIsHonest` | `PageProofs` | `ShownWasAsked`, `BusyExact`, `InventoryHonest` |

Each follows from one inductive invariant of its component. What that adds to the property, and why:

**Reconciler**, for every set of products, manifests, limits, flags and disturbances.

- `TypeInv`, for `TypeOK`: every frame of the walk's stack names a product already read, or the walk would look
  into nothing; a fresh cached copy equals the server's object; the worker's copy, while current, has an object
  to be written to.
- `BindingInv`, for `GenerationBinding`: `CurrentCopy` (a current copy differs from the server's object in its status
  only, which is what the version check of the write buys), `PhaseInv` (what each phase of `Reconcile` has
  established of the working copy: capabilities evaluated, lineage composed, a decision taken), and `StoredInv`
  (every stored status is bound, and none is ahead of its object's generation, so an edit makes a
  generation no condition claims).
- `CoverInv`, for `TimerCoversLostEvents`: every product is at every moment queued, still to be announced to the cache, held by the
  worker, on a timer, gone or settled (`AllCovered`). The worker may drop its product without writing, so one needs that a current copy started
  from the server's status (`CurrentBase`: nothing to write means nothing changed), that a copy which is not current is
  looked at again (`FreshCurrent`), and that with composition on a copy with inputs gets a composition, hence a
  timer, and one without inputs nothing to wait for (`CoverPhase`).
- `WakeInv`, for `NoLostWakeup`: a product nothing will bring the worker back to (it is not queued, its cached copy is the server's,
  and no product it draws on has an event still to be handled: `~Awaited`) has a status that says what the
  cache implies, or a timer (`Rested`). The worker needs the same of its unfinished work: its copy is the cached object (`OwnCopy`), what the
  walk has read agrees with the cache (`WalkUnderWay`), the inputs the loop has passed still hold (`LoopUnderWay`), and so does the
  verdict about to be written (`VerdictReached`), each unless the product is awaited. The hard step is the informer's: a change at q leaves alone whatever
  does not have q among its transitive producers. That is a lemma on graphs: two stores that agree on everything
  below a product have the same layers there (`LayersAlike`) and the same verdict (`AlikeVerdict`). And a product that does have q upstream is
  awaited until the handler has queued it. The theorem assumes that the List of the dependency handler does not fail (`"list" \notin Disturbances`): an event that is
  lost there is lost, and `TimersCover`, which has no such hypothesis, says what covers it with composition on.

**Registry**: `RegistryInv` is `BindingInv` with the lineage. Recorded inputs are about declared inputs, one about each,
whenever they are published (`StoredLineage`, and `WorkerLineage` for the copy that will be stored); no CompositionReady condition
is ahead of its object, so an edit cannot make old inputs publishable under a new spec.

**Composition walk**, for every graph, limit and every cache that moves under the walk. `CompositionInv` says of a walk at work
(`Walking`): a visited product has every input checked, stands above all its producers and right above one of them (`Complete`);
the stack is a path without repetition from the target, each frame with its earlier inputs checked and room for
its height below the limit (`Stacked`); everything read is visited or on the stack (`Fresh`); the edge counter is the number of
edges of what was read (`Counted`); and all of it lies below the target (`Reached`). At the end, a walk without
a failure is `Sound`, and a failure is a `Defect` of the graph. The lemmas on `Layers` connect this with the reference: where heights
fall along every input, a layer lies that much lower (`LayersBelow`), a path goes down one by one (`LayersDescend`) and
heights are fewer than the products (`HeightsFew`), so a completed walk has an acyclic graph of the height in the memo;
products that keep naming one another are in every layer (`LayersStay`), so a key met again on the stack is a cycle
in the sense of `DependencyGraphs`; and reading one more product takes none out of a layer (`LayersGrow`). The recursive
function `Layers` is taken apart level by level; the inductions that needs are taken from the least
counterexample among the naturals (`LeastNat`), as the induction rules with an operator parameter are not available to the provers.

`CompositionProofs` holds what both walks and the lineage rest on: each step keeps the types of graph and
stack (`VisitType`), the lineage is one entry per input (`LineageType`), the verdict is a condition the code can
produce (`VerdictType`).

**Trace**, for every graph, every limit, every store that changes under the walk and a deadline at any point. `TraceInv` says of the walk (`Walking`):

- a node tells what was read, of a product that is held its health and of another why it is not (`Nodes`), and the budgets are kept (`Budgets`);
- the active visits are one of each product, each begun over a resolved edge of the one before, with what is left to look at not yet listed (`Stacked`);
- every edge lists an input of a product that is held, once, at the depth of a path from the root (`Lists`, `Placed`), and its state is
  backed by a node, an issue or a budget (`Stated`);
- heights fall along resolved edges once the producer's visit is over (`Falling`) and are lengths of real paths (`Realised`), everything asked
  for hangs on an edge (`Hanging`), and an issue is one the products have (`Real`);
- as long as there is no issue, every input is listed or still to be looked at, and the heights leave room below the limit (`Whole`).

The invariant is about the edges the trace lists, the reference about the products that were held. `Steps` over the listed edges joins the two:
`LayersAreSteps` says that where every input is listed the layers are the steps, `StepsFall` and `StepsEnd` that steps along falling
heights end, so that a trace without issues is of an acyclic graph; `AttemptsInGraph` and `ListedCounted` bound what was asked for
and what was listed by the graph and its inputs, so that a limit that was hit is one the graph exceeds. `AlwaysAccepted` then goes through
`validTrace` and `validGraph` clause by clause, for every answer the server can give, complete or cut short.

**Services**, for any number of calls and scrapes. `SourceInv` and `ProbeInv` say who holds slot and lock, by where calls stand
(`SlotsExact`, `MutexExact`; `SlotExact`, `WriterExact`); that outside a recording the gauges, and in the probe the counters, are those of the
observations made so far (`GaugesCurrent`, `CountsCurrent`); that what a scrape under way has read is still so (`ScrapeCurrent`);
and that a recorded result no longer changes (`RecordedSettled`). For the probe `CheckedInOrder` adds that calls are recorded in the order in which they
read the contract, which is where the slot that is kept until `release` enters; the connector has no such invariant, see
the finding. The refinement of `HealthSample` is proved step by step: each action maps to an observation, a scrape's begin or end, or a stutter.

**Observers**, for every selection and any number of incarnations, generations and events. `ObservationInv` keeps what an observation knows at
each point: after the first read that the adapter found nothing against the resource it read, after the second nothing against
the Secret either, whatever the cluster holds by then. One lemma per adapter then says what "nothing against" implies.

**Page**, for any products and any number of reads in flight whose answers say anything. `PageInv`: no family of reads has two
live ones (`Single`), a live read asks for what the page is about to show (`Awaited`), a page that was left listens to nothing (`Silent`).
A configuration that turns discovery on withdraws the selection in the same step, which is why an old descriptor cannot be saved.
`InventoryInv`, for `InventoryHonest`, with the answers of `Discovery` and a registry that changes between any two of them: the pages so far are everything of one
snapshot from the first key to the one where the cursor continues (`PagesHonest`), a cursor is there only on top of pages of its own query
(`CursorFits`), a live read asks for just the next page (`ReadsFit`), and while a first page is awaited nothing is shown (`LoadingEmpty`). One list
answers with a gapless stretch of the keys (`ListedPart`), and two stretches that meet are one (`PagesJoin`).

Assumptions are the `ASSUME`s of the modules, which TLC evaluates on every run: manifests are well-typed,
their ports are keyed by name and there is an output (the CRD's schema: `ManifestsAssumption`, `InputNamesAssumption`, `OutputsAssumption`); the namespace is finite
and limits are positive (`NamespaceAssumption`, `LimitsAssumption`); the objects a walk may meet are well-typed and of manifests of their name
(`WorldsAssumption`, `TraceAssumption`); flags and disturbances are from their vocabularies (`ReconcilerAssumption`); slot pools are not empty and a call is one kind of call
(`SlotsAssumption`), failures are the reasons the code has (`ProbesAssumption`); a well-formed reference names a Secret (`SelectionsAssumption`); products are
finitely many, in the order of their keys, and the page asks for no more than the registry allows (`DiscoveryAssumption`, `PageAssumption`); `None` is
nothing else (`NoneAssumption`, `UnreadAssumption`, `CursorAssumption`, `AbsentAssumption`).

Only model-checked:

- everything under fairness: `Converges`, `Terminates`, `AllAnswered`, `SettledSourceReady`, `Stops`; the provers have no rule for it;
- `ReviewAgrees`, `ReportAccepted`: `Preflight` declares a `RECURSIVE` operator, and what its recursion computes is an induction over data;
- `CleanStop`: the state space of a process does not depend on a parameter, and the run covers all of it.

## Not modelled

- What one HTTP read does (URLs, TLS, headers, size limits, JSON): a step with any of its results.
- The reconciler sees observers as facts that change without an event; `SourceObservation` models them by
  themselves. The two are not composed: every verdict of an observer is a fact the reconciler's runs already draw.
- Readers that are not configured: `main.go` wires them before it starts the manager.
- Text: descriptor names and URLs, field paths with line and column, the v1 report, DCAT and DSP documents, JSON and
  YAML scanning, the UI kit's rendering, CI and release scripts. No state, or state only of strings.
- The session between host and frame (`web/ui-contract.js`), the demo product and the other two sample clients.
- The generated deepcopy code and the CRD's own validation; manifests satisfy it.

`Preflight` declares a `RECURSIVE` operator for the depth-first search of `graphWitness`, and is therefore used by
TLC only; no module with a theorem reaches it.

## Plan

What is left, most important first:

1. `UIContract`: the session between host and frame in `ui-contract.js`.
2. `ReviewAgrees` as a theorem about a `Preflight` without `RECURSIVE`, the search stated as a relation on paths.
