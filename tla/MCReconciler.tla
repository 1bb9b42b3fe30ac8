---------------------------- MODULE MCReconciler ----------------------------
(* Instances of Reconciler. *)
EXTENDS RegistryView

CONSTANTS a, b, c, out, other, openapi

Plain(p) == [name |-> 1, ref |-> p, foreign |-> FALSE, output |-> out, contract |-> None]
Requires(p) == [Plain(p) EXCEPT !.contract =
                  [protocol |-> openapi, minimumVersion |-> [major |-> 1, rest |-> 1]]]

Root == [inputs |-> <<>>, outputs |-> <<[name |-> out, protocol |-> openapi]>>,
         version |-> [major |-> 1, rest |-> 1], source |-> "none", connector |-> FALSE,
         contractChecks |-> FALSE, size |-> 1]

From(ports) == [Root EXCEPT !.inputs = ports]

(* A chain c -> b -> a whose end may lose its output. *)
Chain == [p \in Products |->
            CASE p = a -> {Root, [Root EXCEPT !.outputs = <<[name |-> other, protocol |-> openapi]>>]}
              [] p = b -> {From(<<Plain(a)>>)}
              [] OTHER -> {From(<<Plain(b)>>)}]

(* A producer that may come back with another capability, and its consumer. *)
Returning == [p \in Products |->
                CASE p = a -> {Root, [Root EXCEPT !.connector = TRUE]} [] OTHER -> {From(<<Plain(a)>>)}]

(* Two products that can be edited into a cycle, one input of which has a  *)
(* contract.                                                               *)
Cycle == [p \in Products |->
            CASE p = a -> {Root, From(<<Requires(b)>>)} [] OTHER -> {From(<<Plain(a)>>)}]

(* Every capability a product may declare, beside a contracted input, to   *)
(* publish and to edit away.                                               *)
Publications ==
  [p \in Products |->
     CASE p = a -> {[From(<<Requires(b)>>) EXCEPT !.connector = TRUE],
                    [Root EXCEPT !.source = "engine", !.contractChecks = TRUE],
                    [Root EXCEPT !.source = "crossplane"]}
       [] OTHER -> {Root}]

CompositionOn == {{"composition"}}
EitherFlag == {{}, {"composition"}}
Composing == {Features, {"sources"}}

=============================================================================
