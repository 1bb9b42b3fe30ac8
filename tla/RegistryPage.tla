----------------------------- MODULE RegistryPage -----------------------------
(***************************************************************************)
(* The registry's page in the browser (internal/registry/ui/registry.js    *)
(* and the trace panel of lineage.js) against the discovery API.           *)
(*                                                                         *)
(* Handlers run to their end or to an await; answers come in any order, or *)
(* not at all, in which case the read's own timeout rejects it.  The page  *)
(* numbers its reads and ignores answers to a read that is no longer the   *)
(* last one.  Here a read in flight carries whether its number still is    *)
(* the counter's value; raising a counter makes the reads of that family   *)
(* old.  Aborting one changes nothing but how soon it is rejected.  An     *)
(* answer shows the registry at some moment between request and arrival.   *)
(***************************************************************************)
EXTENDS Discovery

CONSTANTS
  Malformed,    \* the product of an address that names none
  PageLimit,    \* the page size the browser asks for
  MaxMoments,   \* bound on the changes at the registry, plus one
  MaxEvents     \* bound on what users and publishers do

ASSUME PageAssumption == PageLimit \in 1..MaxLimit /\ PageLimit <= MaxResponse

VARIABLES
  active,     \* documentActive
  flags,      \* discoveryEnabled and lineageEnabled as last read
  inventory,  \* the inventory shown, see Empty
  field,      \* the namespace field
  route,      \* the product of the address: a key, None, or Malformed
  selected,   \* selectedKey, selectedDescriptor, and whether links to other products are shown
  trace,      \* the trace panel: [key, snapshot, busy]
  flights,    \* reads under way
  history,    \* moments of the registry, the current one last: [products, server, expired]
  events,     \* what users and publishers may still do
  asked       \* history: the product last asked for

page_vars == <<active, flags, inventory, field, route, selected, trace, flights, asked>>
vars == <<active, flags, inventory, field, route, selected, trace, flights, history, events, asked>>

Now == Len(history)

Off == [discovery |-> FALSE, lineage |-> FALSE]
Empty == [loaded |-> FALSE, complete |-> FALSE, products |-> {}, rejected |-> 0, continuation |-> None,
          namespace |-> None, snapshot |-> None, busy |-> FALSE, moreBusy |-> FALSE, failure |-> FALSE]
Unselected == [key |-> None, descriptor |-> None, linked |-> FALSE]
NoTrace == [key |-> None, snapshot |-> None, busy |-> FALSE]

Flight(kind, key, query) == [kind |-> kind, key |-> key, query |-> query, since |-> Now, current |-> TRUE]

(* The counters: inventoryRequest, selection, and the panel's current. *)
Inventory == {"config", "list", "listAll", "more"}
Selection == {"product"}
Tracing == {"trace"}

(* Raising the counter of a family. *)
Raised(reads, family) ==
  {IF f.kind \in family THEN [f EXCEPT !.current = FALSE] ELSE f : f \in reads}

Query(cursor) == [namespace |-> inventory.namespace, limit |-> PageLimit, cursor |-> cursor]

-----------------------------------------------------------------------------
(* Parts of handlers: the reads, selection and panel they leave behind.    *)

(* clearSelection withdraws what is shown, the panel's trace included. *)
clearedReads(reads) == Raised(reads, Selection \cup Tracing)

Cleared == selected' = Unselected /\ trace' = NoTrace

(* navigateProduct withdraws what is shown and reads the product again. *)
navigateProduct(key, reads) ==
  /\ Cleared
  /\ asked' = IF key \in Keys THEN key ELSE None
  /\ flights' = clearedReads(reads) \cup (IF key \in Keys THEN {Flight("product", key, None)} ELSE {})

(* selectProduct shows a product; with discovery it becomes the one to     *)
(* save, and its trace and its upstream products are offered.  Without,    *)
(* the descriptor to save is left as it was.                               *)
selectProduct(key, reads) ==
  /\ selected' = [key |-> key, descriptor |-> IF flags.discovery THEN key ELSE selected.descriptor,
                  linked |-> flags.discovery]
  /\ trace' = [NoTrace EXCEPT !.key = IF flags.discovery /\ flags.lineage THEN key ELSE None]
  /\ flights' = clearedReads(reads)

(* loadProducts withdraws everything and reads the configuration first. *)
loadProducts ==
  /\ inventory' = [Empty EXCEPT !.namespace = field, !.busy = TRUE]
  /\ Cleared /\ asked' = None
  /\ flights' = clearedReads(Raised(flights, Inventory)) \cup {Flight("config", None, None)}

-----------------------------------------------------------------------------
(* What users do.                                                          *)

Event == events > 0 /\ events' = events - 1 /\ UNCHANGED history

Refresh ==
  /\ Event /\ active /\ ~inventory.busy
  /\ loadProducts /\ UNCHANGED <<active, flags, field, route>>

(* The scope form is there once discovery is known to be on, and is not    *)
(* disabled by a read under way.                                           *)
Submit ==
  /\ Event /\ active /\ flags.discovery
  /\ loadProducts /\ UNCHANGED <<active, flags, field, route>>

Type(namespace) ==
  /\ Event /\ flags.discovery /\ field # namespace /\ field' = namespace
  /\ UNCHANGED <<active, flags, inventory, route, selected, trace, flights, asked>>

loadMore ==
  /\ Event /\ active /\ inventory.continuation # None /\ ~inventory.moreBusy
  /\ inventory' = [inventory EXCEPT !.moreBusy = TRUE]
  /\ flights' = flights \cup {Flight("more", None, Query(inventory.continuation))}
  /\ UNCHANGED <<active, flags, field, route, selected, trace, asked>>

(* A click on a product's card. *)
Click(key) ==
  /\ Event /\ active /\ key \in inventory.products
  /\ \/ flags.discovery /\ route' = key /\ navigateProduct(key, flights)
     \/ ~flags.discovery /\ selectProduct(key, flights) /\ asked' = key /\ UNCHANGED route
  /\ UNCHANGED <<active, flags, inventory, field>>

(* Back or forward. *)
Popstate(key) ==
  /\ Event /\ active /\ route # key /\ route' = key
  /\ IF flags.discovery THEN navigateProduct(key, flights) ELSE UNCHANGED <<selected, trace, flights, asked>>
  /\ UNCHANGED <<active, flags, inventory, field>>

(* A link of the lineage or of the trace, to another product of the same   *)
(* namespace.  It is there as long as the product it was shown with, even  *)
(* if the configuration has been read again since.                         *)
Follow(key) ==
  /\ Event /\ active /\ selected.linked /\ key # selected.key /\ NamespaceOf[key] = NamespaceOf[selected.key]
  /\ route' = key /\ navigateProduct(key, flights)
  /\ UNCHANGED <<active, flags, inventory, field>>

(* The panel's load. *)
Trace ==
  /\ Event /\ active /\ trace.key # None /\ ~trace.busy
  /\ trace' = [trace EXCEPT !.snapshot = None, !.busy = TRUE]
  /\ flights' = Raised(flights, Tracing) \cup {Flight("trace", trace.key, None)}
  /\ UNCHANGED <<active, flags, inventory, field, route, selected, asked>>

(* The page is left, and perhaps kept by the browser for the way back. *)
PageHide ==
  /\ Event /\ active /\ active' = FALSE
  /\ inventory' = [inventory EXCEPT !.products = {}, !.loaded = FALSE, !.complete = FALSE, !.continuation = None, !.busy = FALSE]
  /\ Cleared /\ asked' = None /\ flights' = clearedReads(Raised(flights, Inventory))
  /\ UNCHANGED <<flags, field, route>>

PageShow ==
  /\ Event /\ ~active /\ active' = TRUE
  /\ loadProducts /\ UNCHANGED <<flags, field, route>>

-----------------------------------------------------------------------------
(* What arrives: a response, or None where the read is rejected.           *)

Landed(f) == flights \ {f}

Ignored(f) == flights' = Landed(f) /\ UNCHANGED <<active, flags, inventory, field, route, selected, trace, asked>>

(* The configuration, and with it the route's product; then the first page. *)
Configured(f, response) ==
  IF ~f.current THEN Ignored(f)
  ELSE /\ IF response = None
          THEN /\ inventory' = [inventory EXCEPT !.busy = FALSE]
               /\ flights' = Landed(f) /\ UNCHANGED <<flags, selected, trace, asked>>
          ELSE LET next == IF response.status = 200 THEN response.body ELSE Off
                   reads == Landed(f) \cup {Flight(IF next.discovery THEN "list" ELSE "listAll", None, Query(None))}
               IN  /\ flags' = next
                   /\ IF next.discovery THEN navigateProduct(route, reads)
                      ELSE flights' = reads /\ UNCHANGED <<selected, trace, asked>>
                   /\ UNCHANGED inventory
       /\ UNCHANGED <<active, field, route>>

(* The first page of the inventory. *)
FirstPage(f, response) ==
  IF ~f.current THEN Ignored(f)
  ELSE /\ inventory' =
            IF response = None \/ response.status # 200 THEN [inventory EXCEPT !.busy = FALSE]
            ELSE [inventory EXCEPT !.products = response.body.products, !.rejected = response.body.rejected,
                                   !.continuation = response.body.continue,
                                   !.complete = response.body.continue = None,
                                   !.snapshot = response.body.snapshot, !.loaded = TRUE, !.busy = FALSE]
       /\ flights' = Landed(f) /\ UNCHANGED <<active, flags, field, route, selected, trace, asked>>

(* Another page: a product that is there already is replaced; a page that  *)
(* fails leaves the cursor, unless it has expired.                         *)
NextPage(f, response) ==
  IF ~f.current THEN Ignored(f)
  ELSE /\ inventory' =
            IF response = None \/ response.status # 200
            THEN [inventory EXCEPT !.failure = TRUE, !.moreBusy = FALSE,
                                   !.continuation = IF response # None /\ response.status = 410 THEN None ELSE @]
            ELSE [inventory EXCEPT !.products = @ \cup response.body.products, !.rejected = @ + response.body.rejected,
                                   !.continuation = response.body.continue,
                                   !.complete = response.body.continue = None,
                                   !.failure = FALSE, !.moreBusy = FALSE]
       /\ flights' = Landed(f) /\ UNCHANGED <<active, flags, field, route, selected, trace, asked>>

(* Mutant: whichever product arrives is shown. *)
Product_Latest(f, response) ==
  IF ~active \/ response = None \/ response.status # 200 THEN Ignored(f)
  ELSE /\ selectProduct(response.body, Landed(f))
       /\ UNCHANGED <<active, flags, inventory, field, route, asked>>

(* The product of the route; an answer for another product is an error. *)
Product(f, response) ==
  IF ~f.current \/ ~active \/ response = None \/ response.status # 200 \/ response.body # f.key THEN Ignored(f)
  ELSE /\ selectProduct(response.body, Landed(f))
       /\ UNCHANGED <<active, flags, inventory, field, route, asked>>

(* Mutant: the panel is idle after any answer. *)
Traced_AnyEnds(f, response) ==
  /\ trace' = IF f.current /\ response # None /\ response.status = 200
              THEN [trace EXCEPT !.snapshot = f.key, !.busy = FALSE] ELSE [trace EXCEPT !.busy = FALSE]
  /\ flights' = Landed(f) /\ UNCHANGED <<active, flags, inventory, field, route, selected, asked>>

(* The trace, which is checked to be of the product asked for. *)
Traced(f, response) ==
  IF ~f.current THEN Ignored(f)
  ELSE /\ trace' = [trace EXCEPT !.busy = FALSE,
                                 !.snapshot = IF response # None /\ response.status = 200 /\ response.body = f.key
                                              THEN f.key ELSE None]
       /\ flights' = Landed(f) /\ UNCHANGED <<active, flags, inventory, field, route, selected, asked>>

(* What the registry, or a proxy that cannot reach it, answers at a moment. *)
Answer(f, moment, failure) ==
  LET at == history[moment]
  IN  CASE f.kind = "config" -> IF failure = None THEN uiConfig(at) ELSE discoveryFailure(503)
        [] f.kind = "listAll" -> listProducts(at, moment, failure)
        [] f.kind \in {"list", "more"} -> discoveryProducts(history, moment, f.query, failure)
        [] f.kind = "product" -> discoveryProduct(at, f.key, failure)
        [] f.kind = "trace" -> productLineage(at, f.key, failure)

Land(f, response) ==
  /\ CASE f.kind = "config" -> Configured(f, response)
       [] f.kind \in {"list", "listAll"} -> FirstPage(f, response)
       [] f.kind = "more" -> NextPage(f, response)
       [] f.kind = "product" -> Product(f, response)
       [] f.kind = "trace" -> Traced(f, response)
  /\ UNCHANGED history /\ UNCHANGED events

Respond(f) == \E moment \in f.since..Now, failure \in {None, "unavailable"} : Land(f, Answer(f, moment, failure))
Reject(f) == Land(f, None)

-----------------------------------------------------------------------------
(* What happens at the registry.                                           *)

Moves(moment) ==
  /\ events > 0 /\ events' = events - 1 /\ Now < MaxMoments /\ moment # history[Now]
  /\ history' = Append(history, moment) /\ UNCHANGED page_vars

Change(key, state) == Moves([history[Now] EXCEPT !.products[key] = state])
Compact == Moves([history[Now] EXCEPT !.expired = 1..Now])
Flip == Moves([history[Now] EXCEPT !.server.discovery = ~@])

-----------------------------------------------------------------------------
Init ==
  /\ active = TRUE /\ flags = Off /\ field = None /\ route \in {None, Malformed} \cup Keys
  /\ inventory = [Empty EXCEPT !.busy = TRUE]
  /\ selected = Unselected /\ trace = NoTrace /\ asked = None
  /\ history \in {<<moment>> : moment \in [products : [Keys -> {"valid", "invalid"}], expired : {{}},
                                           server : [discovery : BOOLEAN, lineage : BOOLEAN]]}
  /\ flights = {Flight("config", None, None)}
  /\ events = MaxEvents

User ==
  \/ Refresh \/ Submit \/ loadMore \/ Trace \/ PageHide \/ PageShow
  \/ \E namespace \in Namespaces \cup {None} : Type(namespace)
  \/ \E key \in Keys : Click(key) \/ Follow(key)
  \/ \E key \in {None, Malformed} \cup Keys : Popstate(key)

Network == \E f \in flights : Respond(f) \/ Reject(f)

Registry == (\E key \in Keys, state \in Published : Change(key, state)) \/ Compact \/ Flip

Next == User \/ Network \/ Registry

Spec == Init /\ [][Next]_vars

-----------------------------------------------------------------------------
(* Properties.                                                             *)

(* Whatever order answers come in, the product shown, the descriptor that  *)
(* can be saved and the trace that can be saved are of the product last    *)
(* asked for, also when discovery is turned off and on under the page; a   *)
(* page that is left keeps none of them, and no late answer brings one     *)
(* back.  Saving a descriptor takes discovery.                             *)
ShownWasAsked ==
  /\ selected.key \in {None, asked} /\ (flags.discovery => selected.descriptor \in {None, selected.key})
  /\ trace.key \in {None, selected.key} /\ trace.snapshot \in {None, trace.key}
  /\ ~active => /\ selected = Unselected /\ trace = NoTrace
                /\ inventory.products = {} /\ inventory.continuation = None

(* The pages of an inventory are of one listing: no product of another one *)
(* is among them, when the page calls them complete none is missing and    *)
(* those without a descriptor are counted, and the registry never refuses  *)
(* the page's own cursor as that of another query.  Without discovery the  *)
(* list is of all products, with a portable descriptor or not.             *)
InventoryHonest ==
  /\ inventory.loaded =>
       LET scope == {k \in Keys : inventory.namespace \in {None, NamespaceOf[k]}}
           state == history[inventory.snapshot].products
           listed == IF flags.discovery THEN {k \in scope : state[k] = "valid"} ELSE {k \in Keys : state[k] # "absent"}
       IN  /\ inventory.products \subseteq listed
           /\ inventory.complete => inventory.products = listed
           /\ inventory.complete /\ flags.discovery =>
                inventory.rejected = Cardinality({k \in scope : state[k] = "invalid"})
  /\ \A f \in flights : f.kind = "more" => parseDiscoveryQuery(f.query)

(* The controls are busy exactly while the read they started, and no older *)
(* one, is under way.                                                      *)
BusyExact ==
  LET pending(kinds) == \E f \in flights : f.kind \in kinds /\ f.current
  IN  /\ inventory.busy <=> pending(Inventory \ {"more"})
      /\ active => (inventory.moreBusy <=> pending({"more"}))
      /\ trace.busy <=> pending(Tracing)

=============================================================================
