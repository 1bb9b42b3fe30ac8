----------------------------- MODULE MCLineage -----------------------------
(* Instances of LineageTrace. *)
EXTENDS LineageTrace, FiniteSetsExt, TLC

CONSTANTS a, b, c, d, e, out, other, openapi

Plain(p) == [name |-> 2, ref |-> p, foreign |-> FALSE, output |-> out, contract |-> None]
Earlier(port) == [port EXCEPT !.name = 1]
Foreign(p) == [Plain(p) EXCEPT !.foreign = TRUE]
Requires(p) == [Plain(p) EXCEPT !.contract =
                  [protocol |-> openapi, minimumVersion |-> [major |-> 1, rest |-> 1]]]

Spec0 == [inputs |-> <<>>, outputs |-> <<[name |-> out, protocol |-> openapi]>>,
          version |-> [major |-> 1, rest |-> 1], source |-> "none", connector |-> FALSE,
          contractChecks |-> FALSE, size |-> 1]

Lists(S) == {<<>>} \cup {<<Plain(p)>> : p \in S} \cup {<<Plain(p), Earlier(Plain(q))>> : p, q \in S}

Object(s, generation, deleting, ready) ==
  [spec |-> s, generation |-> generation, deleting |-> deleting,
   status |-> [NewStatus EXCEPT !.ready = ready]]

Ready == Condition(TRUE, "DependenciesReady", 1)

(* The ready products with the inputs of one of these lists. *)
Composing(lists) == {Object([Spec0 EXCEPT !.inputs = l], 1, FALSE, Ready) : l \in lists}

(* One world for every choice of an object for each name; the names left   *)
(* out stand for nothing.                                                  *)
Still(choices, deadline, breakdowns) ==
  {[held |-> [p \in Products |-> IF p \in DOMAIN f THEN {f[p]} ELSE {None}],
    deadline |-> deadline, breakdowns |-> breakdowns] :
     f \in FoldSet(LAMBDA p, fs : {f @@ (p :> o) : f \in fs, o \in choices[p]}, {<<>>}, DOMAIN choices)}

(* Every graph of three products with up to two inputs each; c may be      *)
(* missing.                                                                *)
AllGraphs ==
  LET all == Composing(Lists({a, b, c}))
  IN  Still((a :> all) @@ (b :> all) @@ (c :> all \cup {None}), FALSE, {})

(* Every acyclic graph of four products in the order a, b, c, d; and one   *)
(* product too many, found or not.                                         *)
Ordered ==
  Still((a :> Composing(Lists({b, c, d}))) @@ (b :> Composing(Lists({c, d})))
        @@ (c :> Composing(Lists({d}))) @@ (d :> Composing({<<>>})), FALSE, {})
  \cup
  Still((a :> Composing({<<Plain(b), Earlier(Plain(c))>>})) @@ (b :> Composing({<<Plain(d), Earlier(Plain(e))>>}))
        @@ (c :> Composing({<<>>})) @@ (d :> {None} \cup Composing({<<>>}))
        @@ (e :> {None} \cup Composing({<<>>})), FALSE, {})

(* Contracts, foreign references, bulky products, a missing output; ready, *)
(* stale, unobserved and deleting products.                                *)
Contracted ==
  LET seen(s) == {Object(s, 2, x, r) :
                    x \in BOOLEAN, r \in {None, Ready, Condition(TRUE, "DependenciesReady", 2)}}
      consumers == {[Spec0 EXCEPT !.inputs = l] :
                      l \in {<<i, Earlier(j)>> : i \in {Foreign(b), Plain(b), Requires(b)},
                                                 j \in {Plain(c), Plain(b)}}}
      producers == {[Spec0 EXCEPT !.inputs = l, !.version = v, !.outputs = o, !.size = s] :
                      l \in {<<>>, <<Plain(c)>>, <<Requires(a)>>},
                      v \in {[major |-> 1, rest |-> 0], [major |-> 1, rest |-> 2], Unstable},
                      o \in {<<[name |-> other, protocol |-> openapi]>>, Spec0.outputs},
                      s \in {1, 3, 4}}
  IN  Still((a :> {Object(s, 2, FALSE, Ready) : s \in consumers})
            @@ (b :> UNION {seen(s) : s \in producers}) @@ (c :> Composing({<<>>})), FALSE, {})

(* The deadline may pass and a Get may fail, anywhere in a small graph. *)
Interrupted ==
  Still((a :> Composing({<<Plain(b), Earlier(Plain(c))>>, <<Plain(c), Earlier(Plain(b))>>}))
        @@ (b :> Composing(Lists({a, c}))) @@ (c :> {None} \cup Composing(Lists({a, b}))),
        TRUE, {"unavailable", "identity-mismatch"})

(* Products change during the walk. *)
Moving ==
  {[held |-> [p \in Products |->
      CASE p = a -> {o} [] p \in {b, c} -> {None} \cup Composing({<<>>} \cup {<<Plain(q)>> : q \in {a, b, c} \ {p}})
        [] OTHER -> {None}], deadline |-> TRUE, breakdowns |-> {}] :
     o \in Composing({<<Plain(b)>>, <<Plain(b), Earlier(Plain(c))>>})}

Assorted == AllGraphs \cup Ordered \cup Contracted \cup Interrupted \cup Moving

(* What publishers may write, for the types. *)
Writable == [p \in Products |-> {o.spec : o \in UNION {w.held[p] : w \in Assorted} \ {None}}]

=============================================================================
