---------------------------- MODULE LineageTrace ----------------------------
(***************************************************************************)
(* One request of productLineage with its lineageWalk                      *)
(* (internal/registry/lineage.go): a depth-first walk over the declared    *)
(* inputs that keeps going past failures and records each as an issue.     *)
(*                                                                         *)
(* The recursion is a stack; a step is one iteration of visit's loop with  *)
(* the Get it may make, or one return.  Products change between two Gets,  *)
(* and the five-second deadline passes between or in the middle of steps.  *)
(* lineageSlot admits one walk at a time and a refused request touches     *)
(* nothing, so one request is the whole of the state.                      *)
(***************************************************************************)
EXTENDS TraceProfile

CONSTANTS
  MaxDescriptor,   \* largest descriptor the profile admits
  MaxMetadata,     \* public metadata one walk may retain
  Worlds           \* what may surround one request, see world

ASSUME TraceAssumption ==
  /\ MaxDescriptor \in Nat /\ MaxMetadata \in Nat
  /\ \A w \in Worlds :
       /\ w.deadline \in BOOLEAN /\ w.breakdowns \subseteq {"unavailable", "identity-mismatch"}
       /\ DOMAIN w.held = Products
  /\ \A p \in Products : \A o \in UNION {w.held[p] : w \in Worlds} :
       o = None \/ (o \in Objects /\ o.spec \in Manifests[p])

(* What the walk keeps of a product: its declarations, and its node. *)
Declarations == [spec : Specs]

Observations == [state : observedStates \cup failures, generation : Nat,
                 observedGeneration : Nat, version : Versions \cup {None}]

ASSUME UnreadAssumption == None \notin Declarations /\ None \notin Observations

VARIABLES
  world,     \* held: what each name may stand for while the request runs;
             \* deadline: whether it may pass; breakdowns: how a Get may fail
  store,     \* the products as the reader would answer now
  expired,   \* whether the request's deadline has passed
  root,      \* the selected product
  pc,        \* where the request stands
  walk,      \* the fields of lineageWalk
  stack,     \* the active visits: [key, left], the root first
  response   \* what the caller gets: a trace, a failure or None

vars == <<world, store, expired, root, pc, walk, stack, response>>

EmptyWalk == [products |-> [p \in Products |-> None], nodes |-> [p \in Products |-> None],
              visited |-> {}, heights |-> [p \in Products |-> 0], issues |-> {},
              retained |-> 0, edges |-> <<>>]

Init ==
  /\ world \in Worlds
  /\ store \in {f \in [Products -> UNION {world.held[p] : p \in Products}] :
                 \A p \in Products : f[p] \in world.held[p]}
  /\ expired = FALSE
  /\ root \in Products
  /\ pc = "read" /\ walk = EmptyWalk /\ stack = <<>> /\ response = None

-----------------------------------------------------------------------------
Attempts(w) == {p \in Products : w.nodes[p] # None}

incomplete(w, reason) == [w EXCEPT !.issues = @ \cup {reason}]

(* When the deadline passes relative to the stages of one loop iteration. *)
Moments == IF world.deadline THEN {"later", "before", "during", "after"} ELSE {"later"}

readinessState(o) ==
  IF o.deleting THEN "deleting" ELSE portableDescriptorFor(o).readiness

Failed(state) == [state |-> state, generation |-> 0, observedGeneration |-> 0, version |-> None]

(* What the Get of key and the checks on its answer find. *)
found(w, key, moment, breakdown) ==
  LET o == store[key]
  IN  IF moment = "during" THEN "timeout"
      ELSE IF breakdown # None THEN breakdown
      ELSE IF o = None THEN "missing"
      ELSE IF o.spec.size > MaxDescriptor THEN "invalid"
      ELSE IF o.spec.size > MaxMetadata - w.retained THEN "metadata-limit"
      ELSE readinessState(o)

(* The product is read and only the declarations the walk needs retained. *)
lookup(w, key, moment, breakdown) ==
  LET state == found(w, key, moment, breakdown)
      published == portableDescriptorFor(store[key])
  IN  [state |-> state,
       walk |-> IF state \in failures
                THEN incomplete([w EXCEPT !.nodes[key] = Failed(state)], state)
                ELSE [w EXCEPT !.nodes[key] = [state |-> state, generation |-> published.generation,
                                               observedGeneration |-> published.observedGeneration,
                                               version |-> store[key].spec.version],
                               !.products[key] = [spec |-> store[key].spec],
                               !.retained = @ + store[key].spec.size]]

GivesUp(w, reason) == [state |-> reason, walk |-> incomplete(w, reason)]

readIf(cached, full, w, key, moment, breakdown) ==
  IF cached THEN [state |-> w.nodes[key].state, walk |-> w]
  ELSE IF moment = "before" THEN GivesUp(w, "timeout")
  ELSE IF full THEN GivesUp(w, "product-limit")
  ELSE lookup(w, key, moment, breakdown)

(* Mutant: a product that was looked up in vain is looked up again. *)
read_CachesSuccessOnly(w, key, moment, breakdown) ==
  readIf(w.products[key] # None, Cardinality(Attempts(w)) >= MaxProducts, w, key, moment, breakdown)

(* Mutant: only products that were found count against the budget. *)
read_CountsFoundOnly(w, key, moment, breakdown) ==
  readIf(w.nodes[key] # None, Cardinality({p \in Products : w.products[p] # None}) >= MaxProducts,
         w, key, moment, breakdown)

(* Failures are cached like successes, and every attempt counts. *)
read(w, key, moment, breakdown) ==
  readIf(w.nodes[key] # None, Cardinality(Attempts(w)) >= MaxProducts, w, key, moment, breakdown)

-----------------------------------------------------------------------------
(* visit.                                                                  *)

visiting == {stack[i].key : i \in DOMAIN stack}

(* A visit under way: the product and the inputs it has still to look at.  *)
Frame(w, key) ==
  [key |-> key,
   left |-> {w.products[key].spec.inputs[i] : i \in DOMAIN w.products[key].spec.inputs}]

frame == stack[Len(stack)]

(* Inputs are visited in the order of their names. *)
input == CHOOSE i \in frame.left : \A j \in frame.left : i.name <= j.name

Passed == [stack EXCEPT ![Len(stack)].left = @ \ {input}]

Taller(w, key, child) ==
  [w EXCEPT !.heights[key] = IF @ > w.heights[child] THEN @ ELSE 1 + w.heights[child]]

WithEdge(w, state, compatibility) ==
  [w EXCEPT !.edges =
     Append(@, [from |-> frame.key, to |-> input.ref, foreign |-> input.foreign,
                input |-> input.name, depth |-> Len(stack), state |-> state,
                compatibility |-> compatibility, requirement |-> input.contract])]

compatibility(port, object) ==
  CASE inputCompatibility(port, object) = "" -> "compatible"
    [] inputCompatibility(port, object) = "OutputNotFound" -> "output-missing"
    [] inputCompatibility(port, object) = "ContractIncompatible" -> "contract-incompatible"

(* Mutant: a shared producer is accepted at any depth. *)
verdict_AnyDepth(w, key, moment) ==
  IF moment # "later" THEN "timeout"
  ELSE IF key \in visiting THEN "cycle"
  ELSE IF key \in w.visited THEN "resolved" ELSE "enter"

(* How visit of key begins, one level below the active ones. *)
verdict(w, key, moment) ==
  IF moment # "later" THEN "timeout"
  ELSE IF key \in visiting THEN "cycle"
  ELSE IF key \in w.visited /\ Len(stack) + w.heights[key] >= MaxDepth THEN "depth-limit"
  ELSE IF key \in w.visited THEN "resolved" ELSE "enter"

active == pc = "visit" /\ stack # <<>>

looking == active /\ frame.left # {} /\ Len(walk.edges) < MaxEdges /\ ~expired

(* Mutant: the loop spins once the deadline has passed. *)
BreakOff_Spins ==
  /\ active /\ frame.left # {} /\ (Len(walk.edges) >= MaxEdges \/ expired)
  /\ walk' = incomplete(walk, IF Len(walk.edges) >= MaxEdges THEN "edge-limit" ELSE "timeout")
  /\ stack' = IF expired THEN stack ELSE [stack EXCEPT ![Len(stack)].left = {}]
  /\ UNCHANGED <<world, store, expired, root, pc, response>>

(* No edge may be added, or the deadline has passed: the loop is left. *)
BreakOff ==
  /\ active /\ frame.left # {} /\ (Len(walk.edges) >= MaxEdges \/ expired)
  /\ walk' = incomplete(walk, IF Len(walk.edges) >= MaxEdges THEN "edge-limit" ELSE "timeout")
  /\ stack' = [stack EXCEPT ![Len(stack)].left = {}]
  /\ UNCHANGED <<world, store, expired, root, pc, response>>

InspectForeign ==
  /\ looking /\ input.foreign
  /\ walk' = incomplete(WithEdge(walk, "cross-namespace", "not-evaluated"), "cross-namespace")
  /\ stack' = Passed
  /\ UNCHANGED <<world, store, expired, root, pc, response>>

(* Mutant: the last permitted level is not inspected. *)
InspectTooDeep_Early ==
  /\ looking /\ ~input.foreign /\ Len(stack) + 1 >= MaxDepth
  /\ walk' = incomplete(WithEdge(walk, "depth-limit", "not-evaluated"), "depth-limit")
  /\ stack' = Passed
  /\ UNCHANGED <<world, store, expired, root, pc, response>>

InspectTooDeep ==
  /\ looking /\ ~input.foreign /\ Len(stack) >= MaxDepth
  /\ walk' = incomplete(WithEdge(walk, "depth-limit", "not-evaluated"), "depth-limit")
  /\ stack' = Passed
  /\ UNCHANGED <<world, store, expired, root, pc, response>>

(* The producer is read, its contract compared and, unless that is over at *)
(* once, its own visit begun.                                              *)
Inspect ==
  /\ looking /\ ~input.foreign /\ Len(stack) < MaxDepth
  /\ \E moment \in Moments, breakdown \in world.breakdowns \cup {None} :
       LET r == read(walk, input.ref, moment, breakdown)
           object == r.walk.products[input.ref]
           state == verdict(r.walk, input.ref, moment)
           known == WithEdge(r.walk, IF state = "enter" THEN "resolved" ELSE state,
                             compatibility(input, object))
           over == Taller(known, frame.key, input.ref)
       IN  /\ expired' = (moment # "later")
           /\ \/ /\ object = None
                 /\ walk' = WithEdge(r.walk, r.state, "not-evaluated") /\ stack' = Passed
              \/ /\ object # None /\ state = "enter"
                 /\ walk' = known /\ stack' = Append(Passed, Frame(r.walk, input.ref))
              \/ /\ object # None /\ state = "resolved"
                 /\ walk' = over /\ stack' = Passed
              \/ /\ object # None /\ state \in failures
                 /\ walk' = incomplete(over, state) /\ stack' = Passed
  /\ UNCHANGED <<world, store, root, pc, response>>

(* visit of the top product ends. *)
Return ==
  /\ active /\ frame.left = {}
  /\ LET w == [walk EXCEPT !.visited = @ \cup {frame.key}]
         rest == SubSeq(stack, 1, Len(stack) - 1)
     IN  /\ stack' = rest
         /\ \/ rest = <<>> /\ walk' = w /\ pc' = "respond"
            \/ /\ rest # <<>> /\ walk' = Taller(w, rest[Len(rest)].key, frame.key)
               /\ UNCHANGED pc
  /\ UNCHANGED <<world, store, expired, root, response>>

visit == BreakOff \/ InspectForeign \/ InspectTooDeep \/ Inspect \/ Return

-----------------------------------------------------------------------------
(* productLineage around the walk.                                         *)

Refusal(state) ==
  [refused |-> TRUE,
   code |-> CASE state = "missing" -> 404 [] state = "invalid" -> 422
              [] state = "trace-too-large" -> 413 [] OTHER -> 502]

ReadRoot ==
  /\ pc = "read"
  /\ \E moment \in Moments, breakdown \in world.breakdowns \cup {None} :
       LET r == read(walk, root, IF expired THEN "before" ELSE moment, breakdown)
       IN  /\ expired' = (expired \/ moment # "later")
           /\ \/ /\ r.walk.products[root] = None
                 /\ response' = Refusal(r.state) /\ pc' = "done"
                 /\ walk' = r.walk /\ UNCHANGED stack
              \/ /\ r.walk.products[root] # None /\ moment # "later"
                 /\ walk' = incomplete(r.walk, "timeout") /\ pc' = "respond"
                 /\ UNCHANGED <<stack, response>>
              \/ /\ r.walk.products[root] # None /\ moment = "later"
                 /\ walk' = r.walk /\ stack' = <<Frame(r.walk, root)>> /\ pc' = "visit"
                 /\ UNCHANGED response
  /\ UNCHANGED <<world, store, root>>

(* The trace; sorted for the reader, which changes no check on it. *)
trace ==
  [refused |-> FALSE, root |-> root, complete |-> walk.issues = {}, issues |-> walk.issues,
   nodes |-> {[key |-> p, state |-> walk.nodes[p].state,
               generation |-> walk.nodes[p].generation,
               observedGeneration |-> walk.nodes[p].observedGeneration,
               version |-> walk.nodes[p].version] : p \in Attempts(walk)},
   edges |-> walk.edges]

(* The encoded trace may turn out too large for a response. *)
Respond ==
  /\ pc = "respond"
  /\ response' \in {trace, Refusal("trace-too-large")}
  /\ pc' = "done"
  /\ UNCHANGED <<world, store, expired, root, walk, stack>>

productLineage == ReadRoot \/ visit \/ Respond

(* External: a watch event or a write replaces one product. *)
ProductChanges ==
  /\ pc # "done"
  /\ \E p \in Products : \E o \in world.held[p] \ {store[p]} :
       store' = [store EXCEPT ![p] = o]
  /\ UNCHANGED <<world, expired, root, pc, walk, stack, response>>

DeadlinePasses ==
  /\ world.deadline /\ ~expired /\ pc # "done"
  /\ expired' = TRUE
  /\ UNCHANGED <<world, store, root, pc, walk, stack, response>>

Finished == pc = "done" /\ UNCHANGED vars

Next == productLineage \/ ProductChanges \/ DeadlinePasses \/ Finished

(* The handler's goroutine runs on. *)
Spec == Init /\ [][Next]_vars /\ WF_vars(productLineage)

-----------------------------------------------------------------------------
answered == response # None /\ ~response.refused

(* Whatever the walk meets (cycles, shared producers, limits, failing      *)
(* reads, a deadline in the middle of a branch), the browser accepts the   *)
(* trace it is sent.                                                       *)
BrowserAccepts == answered => validTrace(response, root)

(* The inputs the snapshot declares: what a complete trace lists. *)
Declared ==
  UNION {{<<p, walk.products[p].spec.inputs[i].name>> : i \in DOMAIN walk.products[p].spec.inputs} :
           p \in {q \in Products : walk.products[q] # None}}

(* "complete: true means the permitted dependency graph was inspected":    *)
(* all of it was read, each input is listed once, nothing is cyclic or too *)
(* deep; and short of failures, limits and the deadline it is complete.    *)
CompleteExact ==
  answered =>
    LET snapshot == walk.products
        inspected == /\ \A p \in Graph(snapshot, root) :
                          /\ snapshot[p] # None
                          /\ \A i \in DOMAIN InputsOf(snapshot, p) : ~InputsOf(snapshot, p)[i].foreign
                     /\ ~Cyclic(snapshot, root)
                     /\ Layers(snapshot, root)[MaxDepth] = {}
        listed == {<<e.from, e.input>> : e \in Edges(response)} = Declared
    IN  /\ response.complete => inspected /\ listed
        /\ inspected /\ listed /\ ~expired => response.complete

(* An issue is one the snapshot really has. *)
IssuesAccurate ==
  answered =>
    LET snapshot == walk.products
    IN  /\ "cycle" \in response.issues => Cyclic(snapshot, root)
        /\ "depth-limit" \in response.issues => Layers(snapshot, root)[MaxDepth] # {}
        /\ "product-limit" \in response.issues => Cardinality(Graph(snapshot, root)) > MaxProducts
        /\ "edge-limit" \in response.issues =>
             Cardinality(Declared) > MaxEdges
        /\ "timeout" \in response.issues => expired

(* The budgets of the walk hold at every step. *)
WalkBounded ==
  /\ Cardinality(Attempts(walk)) <= MaxProducts
  /\ Len(walk.edges) <= MaxEdges
  /\ walk.retained <= MaxMetadata
  /\ Len(stack) <= MaxDepth
  /\ \A i, j \in DOMAIN stack : i # j => stack[i].key # stack[j].key

(* The request is answered, however products change meanwhile. *)
Terminates == <>(pc = "done")

=============================================================================
