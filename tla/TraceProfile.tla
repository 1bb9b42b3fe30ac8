---------------------------- MODULE TraceProfile ----------------------------
(***************************************************************************)
(* A dependency trace as the registry sends it (lineageTrace in            *)
(* internal/registry/lineage.go) and the profile the browser holds it to   *)
(* before it renders anything (validTrace and validGraph in                *)
(* internal/registry/ui/lineage.js).  Texts, links and the health          *)
(* dimensions of a node are outside the model.                             *)
(***************************************************************************)
EXTENDS DependencyGraphs, Descriptors

observedStates == {"ready", "not-ready", "stale", "unobserved", "disabled", "deleting"}

failures == {"missing", "unavailable", "invalid", "identity-mismatch", "timeout",
             "metadata-limit", "product-limit", "depth-limit", "edge-limit",
             "cross-namespace", "cycle"}

compatibilities == {"compatible", "output-missing", "contract-incompatible", "not-evaluated"}

lineageNode == [key : Products, state : observedStates \cup failures, generation : Nat,
                observedGeneration : Nat, version : Versions \cup {None}]

lineageEdge == [from : Products, to : Products, foreign : BOOLEAN, input : Nat,
                depth : Nat, state : failures \cup {"resolved"},
                compatibility : compatibilities, requirement : Contracts \cup {None}]

Edges(trace) == {trace.edges[i] : i \in DOMAIN trace.edges}

Keys(trace) == {node.key : node \in trace.nodes}

Observed(trace) == {node.key : node \in {n \in trace.nodes : n.state \in observedStates}}

Resolved(trace) == {e \in Edges(trace) : e.state = "resolved"}

(* The products reached from p along edges of E, in exactly n steps. *)
Steps(E, p) ==
  LET at[n \in 0 .. Cardinality(Products) + MaxDepth] ==
        IF n = 0 THEN {p} ELSE {e.to : e \in {f \in E : f.from \in at[n - 1]}}
  IN  at

Reached(E, p) == UNION {Steps(E, p)[n] : n \in 0 .. Cardinality(Products)}

(* Every node hangs on the root, resolved edges form no cycle, a cycle     *)
(* verdict closes a resolved path, and each product's inputs carry one     *)
(* depth, the length of a resolved path that leads to it.                  *)
validGraph(trace) ==
  LET E == Edges(trace)
      named == {e \in E : ~e.foreign /\ e.to \in Keys(trace)}
      resolved == Resolved(trace)
  IN  /\ \A e, f \in E : e.from = f.from => e.depth = f.depth
      /\ Keys(trace) \subseteq Reached(named, trace.root)
      /\ \A e \in E : e.state = "cycle" => e.from \in Reached(resolved, e.to)
      /\ \A p \in Observed(trace) : Steps(resolved, p)[Cardinality(Products)] = {}
      /\ \A e \in E :
           /\ e.from = trace.root => e.depth = 1
           /\ e.depth = MaxDepth => e.state \in {"depth-limit", "cross-namespace"}
           /\ e.from \in Steps(resolved, trace.root)[e.depth - 1]

validNode(trace, node) ==
  /\ node \in lineageNode
  /\ \/ /\ node.state \in observedStates
        /\ node.state # "deleting" =>
             validObservation(node.state, node.generation, node.observedGeneration)
     \/ /\ node.state \in failures /\ node.state \in trace.issues
        /\ node.generation = 0 /\ node.observedGeneration = 0 /\ node.version = None

validEdge(trace, e) ==
  LET target == {node \in trace.nodes : ~e.foreign /\ node.key = e.to}
      failed == {node \in target : node.state \in failures}
  IN  /\ e \in lineageEdge /\ e.from \in Observed(trace) /\ e.depth \in 1 .. MaxDepth
      /\ \/ /\ e.state = "resolved" /\ e.compatibility # "not-evaluated"
            /\ ~e.foreign /\ e.to \in Observed(trace)
         \/ e.state \in failures /\ e.state \in trace.issues
      /\ e.state = "cross-namespace" <=> e.foreign
      /\ e.state \in {"missing", "unavailable", "invalid", "identity-mismatch",
                      "metadata-limit", "product-limit", "cross-namespace"}
           => e.compatibility = "not-evaluated"
      /\ e.state \in {"missing", "invalid", "identity-mismatch", "metadata-limit"}
           => \E node \in target : node.state = e.state
      /\ e.state \in {"missing", "unavailable", "invalid", "identity-mismatch",
                      "timeout", "metadata-limit", "product-limit"}
           => \A node \in failed : node.state = e.state
      /\ e.compatibility = "contract-incompatible" => e.requirement # None
      /\ e.compatibility = "compatible" /\ e.requirement # None =>
           \A node \in target : node.version = None
                                \/ compatibleVersion(node.version, e.requirement.minimumVersion)

(* The browser renders the trace only if it is closed, bounded and neither *)
(* falsely complete nor incomplete without a reason.                       *)
validTrace(trace, root) ==
  /\ trace.root = root /\ root \in Observed(trace)
  /\ trace.complete <=> trace.issues = {}
  /\ trace.issues \subseteq failures
  /\ Cardinality(trace.nodes) <= MaxProducts /\ Len(trace.edges) <= MaxEdges
  /\ \A m, n \in trace.nodes : m.key = n.key => m = n
  /\ \A i, j \in DOMAIN trace.edges :
       trace.edges[i].from = trace.edges[j].from /\ trace.edges[i].input = trace.edges[j].input
         => i = j
  /\ \A node \in trace.nodes : validNode(trace, node)
  /\ \A e \in Edges(trace) : validEdge(trace, e)
  /\ validGraph(trace)

=============================================================================
