------------------------------ MODULE Discovery ------------------------------
(***************************************************************************)
(* The registry's discovery API (internal/registry/discovery.go): one page *)
(* of the inventory, or one product, per request; the place to continue at *)
(* travels with the client in a cursor, bound to the query it came from.   *)
(* And what else the page in the browser reads: the configuration, the     *)
(* list of the first API, and traces as far as they are answered.          *)
(*                                                                         *)
(* A response is [status, body]; a product is its key and the generation   *)
(* its descriptor was made of.                                             *)
(***************************************************************************)
EXTENDS Naturals, Sequences, FiniteSets, FiniteSetsExt

CONSTANTS
  None,
  Keys,          \* product identities, in the order of the store
  Namespaces,    \* their namespaces
  NamespaceOf,   \* of a key
  MaxLimit,      \* largest page, and all that the first API lists
  MaxResponse    \* descriptors of any size that fit in one response

ASSUME DiscoveryAssumption ==
  /\ Keys \subseteq Nat \ {0} /\ IsFiniteSet(Keys) /\ None \notin Keys
  /\ NamespaceOf \in [Keys -> Namespaces] /\ None \notin Namespaces
  /\ MaxLimit \in Nat \ {0} /\ MaxResponse \in Nat \ {0}

(* What the store holds of a key. *)
Published == {"absent", "valid", "invalid"}

Response(status, body) == [status |-> status, body |-> body]
discoveryFailure(status) == Response(status, None)

-----------------------------------------------------------------------------
(* External: a list of the API server, in the order of the keys, from one  *)
(* snapshot of the store; its token names the snapshot and the last key.   *)
Listed(snapshot, namespace, limit, after) ==
  LET rest == {k \in Keys : k > after /\ snapshot[k] # "absent" /\ namespace \in {None, NamespaceOf[k]}}
      items == {k \in rest : Cardinality({j \in rest : j < k}) < limit}
  IN  [items |-> items, last |-> IF items = rest THEN None ELSE Max(items)]

-----------------------------------------------------------------------------
(* A cursor is the canonical encoding of the query it came from with the   *)
(* token, and goes with that query only.                                   *)
Tokens == [snapshot : Nat, after : Keys]
Cursors == [namespace : Namespaces \cup {None}, limit : 1..MaxLimit, token : Tokens]

ASSUME CursorAssumption == None \notin Tokens /\ None \notin Cursors

parseDiscoveryQuery(query) ==
  /\ query.limit \in 1..MaxLimit
  /\ query.cursor # None =>
       /\ query.cursor.namespace = query.namespace /\ query.cursor.limit = query.limit
       /\ query.cursor.token # None

(* The status of a read that failed. *)
readFailure ==
  [canceled |-> 408, deadline |-> 504, expired |-> 410, missing |-> 404, rejected |-> 400, unavailable |-> 503]

(* Mutant: products without a descriptor are left out in silence. *)
page_Silent(query, snapshot, list) ==
  LET encoded == {k \in list.items : snapshot.products[k] = "valid"}
  IN  [products |-> encoded, snapshot |-> snapshot.id, rejected |-> 0,
       continue |-> IF list.last = None THEN None
                    ELSE [namespace |-> query.namespace, limit |-> query.limit,
                          token |-> [snapshot |-> snapshot.id, after |-> list.last]]]

(* The page: the products that have a portable descriptor, how many do     *)
(* not, and the cursor of the rest; snapshot is not sent, and is kept for  *)
(* the properties.                                                         *)
page(query, snapshot, list) ==
  LET encoded == {k \in list.items : snapshot.products[k] = "valid"}
  IN  [products |-> encoded, snapshot |-> snapshot.id, rejected |-> Cardinality(list.items \ encoded),
       continue |-> IF list.last = None THEN None
                    ELSE [namespace |-> query.namespace, limit |-> query.limit,
                          token |-> [snapshot |-> snapshot.id, after |-> list.last]]]

(* history: what the registry and the API server were at each moment;      *)
(* expired: the snapshots the API server has compacted by then; failure:   *)
(* None or how the read fails.                                             *)
discoveryProducts(history, moment, query, failure) ==
  IF ~history[moment].server.discovery THEN discoveryFailure(404)
  ELSE IF ~parseDiscoveryQuery(query) THEN discoveryFailure(400)
  ELSE LET token == IF query.cursor = None THEN [snapshot |-> moment, after |-> 0] ELSE query.cursor.token
           snapshot == [id |-> token.snapshot, products |-> history[token.snapshot].products]
           list == Listed(snapshot.products, query.namespace, query.limit, token.after)
       IN  IF failure # None THEN discoveryFailure(readFailure[failure])
           ELSE IF token.snapshot \in history[moment].expired THEN discoveryFailure(readFailure["expired"])
           ELSE IF \/ Cardinality(list.items) > query.limit
                   \/ \E k \in list.items : query.namespace \notin {None, NamespaceOf[k]}
                THEN discoveryFailure(502)
           ELSE IF Cardinality(page(query, snapshot, list).products) > MaxResponse THEN discoveryFailure(413)
           ELSE Response(200, page(query, snapshot, list))

(* One product by its exact key. *)
discoveryProduct(at, key, failure) ==
  IF ~at.server.discovery THEN discoveryFailure(404)
  ELSE IF failure # None THEN discoveryFailure(readFailure[failure])
  ELSE CASE at.products[key] = "absent" -> discoveryFailure(readFailure["missing"])
         [] at.products[key] = "invalid" -> discoveryFailure(422)
         [] at.products[key] = "valid" -> Response(200, key)

-----------------------------------------------------------------------------
(* Traces need both flags; the page is told of neither without discovery.  *)
uiConfig(at) == Response(200, [at.server EXCEPT !.lineage = @ /\ at.server.discovery])

(* The first API lists everything at once or nothing, and asks for no      *)
(* portable descriptor.  It counts no product as rejected and has no       *)
(* cursor.                                                                 *)
listProducts(at, moment, failure) ==
  LET list == Listed(at.products, None, MaxLimit, 0)
  IN  IF failure # None THEN discoveryFailure(500)
      ELSE IF list.last # None \/ Cardinality(list.items) > MaxResponse THEN discoveryFailure(413)
      ELSE Response(200, [products |-> list.items, snapshot |-> moment, rejected |-> 0, continue |-> None])

(* Whether a product's trace is answered; LineageTrace says with what. *)
productLineage(at, key, failure) ==
  IF ~(at.server.discovery /\ at.server.lineage) THEN discoveryFailure(404)
  ELSE IF failure # None THEN discoveryFailure(502)
  ELSE CASE at.products[key] = "absent" -> discoveryFailure(404)
         [] at.products[key] = "invalid" -> discoveryFailure(422)
         [] at.products[key] = "valid" -> Response(200, key)

=============================================================================
