--------------------------- MODULE MCComposition ---------------------------
(* Instances of CompositionObservation. *)
EXTENDS PublisherReview

CONSTANTS a, b, c, d, e, out, other, openapi, sql

Abc == <<a, b, c, d, e>>

Plain(p) == [name |-> 2, ref |-> p, foreign |-> FALSE, output |-> out, contract |-> None]
Earlier(port) == [port EXCEPT !.name = 1]
Foreign(p) == [Plain(p) EXCEPT !.foreign = TRUE]
Requires(p, v) == [Plain(p) EXCEPT !.contract = [protocol |-> openapi, minimumVersion |-> v]]

V(major, rest) == [major |-> major, rest |-> rest]

Spec0 == [inputs |-> <<>>, outputs |-> <<[name |-> out, protocol |-> openapi]>>,
          version |-> V(1, 1), source |-> "none", connector |-> FALSE,
          contractChecks |-> FALSE, size |-> 1]

(* Up to two plain inputs out of S. *)
Lists(S) == {<<>>} \cup {<<Plain(p)>> : p \in S} \cup {<<Plain(p), Earlier(Plain(q))>> : p, q \in S}

Ready == Condition(TRUE, "DependenciesReady", 1)

Object(spec, ready) == [spec |-> spec, generation |-> 1, deleting |-> FALSE,
                        status |-> [NewStatus EXCEPT !.ready = ready]]

(* The ready products with the inputs of one of these lists. *)
Composing(lists) == {Object([Spec0 EXCEPT !.inputs = l], Ready) : l \in lists}

(* One world for every choice of an object for each name; the names left   *)
(* out stand for nothing.                                                  *)
Still(choices, outages) ==
  {[held |-> [p \in Products |-> IF p \in DOMAIN f THEN {f[p]} ELSE {None}], outages |-> outages] :
     f \in FoldSet(LAMBDA p, fs : {f @@ (p :> o) : f \in fs, o \in choices[p]}, {<<>>}, DOMAIN choices)}

(* Every graph of three products with up to two inputs each; c may be      *)
(* missing or unready.                                                     *)
AllGraphs ==
  LET all == Composing(Lists({a, b, c}))
  IN  Still((a :> all) @@ (b :> all)
            @@ (c :> all \cup {None} \cup {[o EXCEPT !.status.ready = None] : o \in all}), FALSE)

(* Every acyclic graph of four products in the order a, b, c, d; and one   *)
(* product too many.                                                       *)
Ordered ==
  Still((a :> Composing(Lists({b, c, d}))) @@ (b :> Composing(Lists({c, d})))
        @@ (c :> Composing(Lists({d}))) @@ (d :> Composing({<<>>})), FALSE)
  \cup
  Still((a :> Composing({<<Plain(b), Earlier(Plain(c))>>})) @@ (b :> Composing({<<Plain(d), Earlier(Plain(e))>>}))
        @@ (c :> Composing({<<>>})) @@ (d :> Composing({<<>>})) @@ (e :> Composing({<<>>})), FALSE)

(* Contracts, foreign references and bulky metadata on a short chain, with *)
(* failing reads.                                                          *)
Contracted ==
  Still((a :> Composing({<<i, Earlier(Plain(c))>> :
                           i \in {Foreign(b), Plain(b), Requires(b, V(1, 1)),
                                  Requires(b, V(0, 1)), Requires(b, Unstable)}}))
        @@ (b :> {Object([Spec0 EXCEPT !.inputs = l, !.version = v, !.outputs = o, !.size = s], Ready) :
                    l \in {<<>>, <<Plain(c)>>, <<Requires(c, V(1, 1))>>},
                    v \in {V(0, 1), V(0, 2), V(1, 0), V(1, 2), V(2, 1), Unstable},
                    o \in {<<[name |-> other, protocol |-> openapi]>>,
                           <<[name |-> out, protocol |-> sql]>>, Spec0.outputs},
                    s \in {1, 2}})
        @@ (c :> {None} \cup {Object([Spec0 EXCEPT !.version = v], r) :
                                 v \in {V(1, 0), V(1, 1)}, r \in {None, Ready}}), TRUE)

(* The cache moves during the walk. *)
Moving ==
  {[held |-> [p \in Products |->
      CASE p = a -> {o} [] p \in {b, c} -> {None} \cup Composing({<<>>} \cup {<<Plain(q)>> : q \in {a, b, c} \ {p}})
        [] OTHER -> {None}], outages |-> TRUE] :
     o \in Composing({<<Plain(b)>>, <<Plain(b), Earlier(Plain(c))>>})}

Assorted == AllGraphs \cup Ordered \cup Contracted \cup Moving

(* What publishers may write, for the types. *)
Writable == [p \in Products |-> {o.spec : o \in UNION {w.held[p] : w \in Assorted} \ {None}}]

=============================================================================
