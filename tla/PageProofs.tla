----------------------------- MODULE PageProofs -----------------------------
(***************************************************************************)
(* Machine-checked theorems about RegistryPage, for every set of products  *)
(* and namespaces, every page size, and any number of reads in flight      *)
(* whose answers come in any order: what the page shows and which of its   *)
(* controls are busy, whatever the answers say; and, with the answers of   *)
(* Discovery, that its inventory is honest.                                *)
(***************************************************************************)
EXTENDS RegistryPage, FiniteSetTheorems, WellFoundedInduction, TLAPS

(* A read in flight. *)
IsRead(f) ==
  /\ DOMAIN f = {"kind", "key", "query", "since", "current"}
  /\ f.kind \in Inventory \cup Selection \cup Tracing
  /\ f.current \in BOOLEAN

(* The reads whose answers the page still listens to. *)
Live(reads) == {f \in reads : f.current}

(* The reads behind the first page: at most one of them is live. *)
Loading == Inventory \ {"more"}

Fields ==
  /\ active \in BOOLEAN
  /\ DOMAIN inventory = DOMAIN Empty /\ inventory.busy \in BOOLEAN /\ inventory.moreBusy \in BOOLEAN
  /\ DOMAIN trace = DOMAIN NoTrace /\ trace.busy \in BOOLEAN

Reads == \A f \in flights : IsRead(f)

(* No family has two live reads, except that a product's has no need of it. *)
Single ==
  \A f, g \in Live(flights) :
    \/ f.kind \in Loading /\ g.kind \in Loading
    \/ f.kind = "more" /\ g.kind = "more"
    \/ f.kind = "trace" /\ g.kind = "trace"
    => f = g

(* A live read asks for what the page is about to show. *)
Awaited ==
  \A f \in Live(flights) : /\ f.kind = "product" => f.key = asked
                           /\ f.kind = "trace" => f.key = trace.key

(* A page that was left listens to nothing. *)
Silent == ~active => Live(flights) = {}

PageInv == Fields /\ Reads /\ Single /\ Awaited /\ Silent /\ ShownWasAsked /\ BusyExact

-----------------------------------------------------------------------------
(* Reads.                                                                  *)

(* A new read is live. *)
LEMMA FlightRead ==
  ASSUME NEW kind \in Inventory \cup Selection \cup Tracing, NEW key, NEW query
  PROVE  /\ IsRead(Flight(kind, key, query)) /\ Flight(kind, key, query).current
         /\ Flight(kind, key, query).kind = kind /\ Flight(kind, key, query).key = key
  BY DEF IsRead, Flight

(* Raising a counter silences its family and no other read. *)
LEMMA RaisedLive ==
  ASSUME NEW reads, \A f \in reads : IsRead(f), NEW family
  PROVE  /\ \A f \in Raised(reads, family) : IsRead(f)
         /\ Live(Raised(reads, family)) = {f \in Live(reads) : f.kind \notin family}
<1> DEFINE old(f) == [f EXCEPT !.current = FALSE]
           raised(f) == IF f.kind \in family THEN old(f) ELSE f
<1>1. Raised(reads, family) = {raised(f) : f \in reads}
  BY DEF Raised
<1>2. ASSUME NEW f \in reads
      PROVE  IsRead(old(f)) /\ ~old(f).current
  BY DEF IsRead
<1> HIDE DEF old
<1>3. \A f \in Raised(reads, family) : IsRead(f)
  BY <1>1, <1>2
<1>4. \A f \in reads : raised(f).current => f.kind \notin family /\ raised(f) = f
  BY <1>2
<1>5. \A f \in reads : f.kind \notin family => raised(f) = f
  OBVIOUS
<1> HIDE DEF raised
<1>6. Live(Raised(reads, family)) = {f \in Live(reads) : f.kind \notin family}
  BY <1>1, <1>4, <1>5 DEF Live
<1> QED
  BY <1>3, <1>6

(* So clearSelection silences product and trace. *)
LEMMA ClearedLive ==
  ASSUME NEW reads, \A f \in reads : IsRead(f)
  PROVE  /\ \A f \in clearedReads(reads) : IsRead(f)
         /\ Live(clearedReads(reads)) = {f \in Live(reads) : f.kind \in Inventory}
<1>1. \A f \in Live(reads) : f.kind \in Inventory \cup Selection \cup Tracing
  BY DEF Live, IsRead
<1>2. Inventory \cap (Selection \cup Tracing) = {}
  BY DEF Inventory, Selection, Tracing
<1> QED
  BY <1>1, <1>2, RaisedLive DEF clearedReads

(* And a reload silences all. *)
LEMMA AllLive ==
  ASSUME NEW reads, \A f \in reads : IsRead(f)
  PROVE  /\ \A f \in clearedReads(Raised(reads, Inventory)) : IsRead(f)
         /\ Live(clearedReads(Raised(reads, Inventory))) = {}
<1> DEFINE raised == Raised(reads, Inventory)
<1>1. /\ \A f \in raised : IsRead(f)
      /\ Live(raised) = {f \in Live(reads) : f.kind \notin Inventory}
  BY RaisedLive
<1> HIDE DEF raised
<1>2. /\ \A f \in clearedReads(raised) : IsRead(f)
      /\ Live(clearedReads(raised)) = {f \in Live(raised) : f.kind \in Inventory}
  BY <1>1, ClearedLive
<1> QED
  BY <1>1, <1>2 DEF raised

-----------------------------------------------------------------------------
(* Parts of handlers.                                                      *)

(* The controls, by the reads that are live. *)
LEMMA BusyByLive ==
  BusyExact <=>
    /\ inventory.busy <=> \E f \in Live(flights) : f.kind \in Loading
    /\ active => (inventory.moreBusy <=> \E f \in Live(flights) : f.kind = "more")
    /\ trace.busy <=> \E f \in Live(flights) : f.kind = "trace"
  BY DEF BusyExact, Live, Loading, Tracing

(* loadProducts starts afresh with one read. *)
LEMMA LoadKeeps ==
  ASSUME PageInv, loadProducts, active' = TRUE
  PROVE  PageInv'
<1> DEFINE first == Flight("config", None, None)
<1>1. \A f \in flights : IsRead(f)
  BY DEF PageInv, Reads
<1>2. IsRead(first) /\ first.current /\ first.kind = "config"
  BY FlightRead DEF Inventory
<1>3. /\ inventory' = [Empty EXCEPT !.namespace = field, !.busy = TRUE]
      /\ selected' = Unselected /\ trace' = NoTrace /\ asked' = None
      /\ flights' = clearedReads(Raised(flights, Inventory)) \cup {first}
  BY DEF loadProducts, Cleared
<1> HIDE DEF first
<1>4. (\A f \in flights' : IsRead(f)) /\ Live(flights') = {first}
  BY <1>1, <1>2, <1>3, AllLive DEF Live
<1>5. /\ DOMAIN inventory' = DOMAIN Empty /\ inventory'.busy = TRUE /\ inventory'.moreBusy = FALSE
      /\ trace'.busy = FALSE /\ trace'.key = None /\ trace'.snapshot = None
      /\ selected'.key = None /\ selected'.descriptor = None
  BY <1>3 DEF Empty, NoTrace, Unselected
<1>6. Fields'
  BY <1>3, <1>5 DEF Fields
<1>7. Reads' /\ Single' /\ Awaited' /\ Silent'
  BY <1>2, <1>4 DEF Reads, Single, Awaited, Silent
<1>8. ShownWasAsked'
  BY <1>5 DEF ShownWasAsked
<1>9. first.kind \in Loading /\ first.kind # "more" /\ first.kind # "trace"
  BY <1>2 DEF Loading, Inventory
<1>10. BusyExact'
  BY <1>4, <1>5, <1>9 DEF BusyExact, Live, Loading, Tracing
<1> QED
  BY <1>6, <1>7, <1>8, <1>10 DEF PageInv

(* Reads among which those of the inventory go on as before. *)
CarriesOn(reads) ==
  /\ \A f \in reads : IsRead(f)
  /\ \A f, g \in Live(reads) : \/ f.kind \in Loading /\ g.kind \in Loading
                               \/ f.kind = "more" /\ g.kind = "more"
                               => f = g
  /\ (\E f \in Live(reads) : f.kind \in Loading) <=> (\E f \in Live(flights) : f.kind \in Loading)
  /\ (\E f \in Live(reads) : f.kind = "more") <=> (\E f \in Live(flights) : f.kind = "more")

(* Whatever the page shows next, and the product it reads for it, if any,  *)
(* the inventory goes on as before.                                        *)
LEMMA ShowKeeps ==
  ASSUME PageInv, NEW reads, CarriesOn(reads), NEW wanted,
         \A f \in wanted : IsRead(f) /\ f.current /\ f.kind = "product" /\ f.key = asked',
         active = TRUE, active' = TRUE, inventory' = inventory,
         flights' = clearedReads(reads) \cup wanted,
         selected'.key \in {None, asked'}, flags'.discovery => selected'.descriptor \in {None, selected'.key},
         DOMAIN trace' = DOMAIN NoTrace, trace'.key \in {None, selected'.key},
         trace'.snapshot = None, trace'.busy = FALSE
  PROVE  PageInv'
<1>1. /\ \A f \in reads : IsRead(f)
      /\ \A f, g \in Live(reads) : \/ f.kind \in Loading /\ g.kind \in Loading
                                   \/ f.kind = "more" /\ g.kind = "more"
                                   => f = g
      /\ (\E f \in Live(reads) : f.kind \in Loading) <=> (\E f \in Live(flights) : f.kind \in Loading)
      /\ (\E f \in Live(reads) : f.kind = "more") <=> (\E f \in Live(flights) : f.kind = "more")
  BY DEF CarriesOn
<1>2. Fields'
  BY DEF PageInv, Fields
<1>3. /\ \A f \in clearedReads(reads) : IsRead(f)
      /\ Live(clearedReads(reads)) = {f \in Live(reads) : f.kind \in Inventory}
  BY <1>1, ClearedLive
<1>4. Reads'
  BY <1>3 DEF Reads
<1>5. Live(flights') = {f \in Live(reads) : f.kind \in Inventory} \cup wanted
  BY <1>3 DEF Live
<1>6. {"more"} \cup Loading \subseteq Inventory /\ {"product", "trace"} \cap Inventory = {}
  BY DEF Loading, Inventory
<1>7. Single'
  BY <1>1, <1>5, <1>6 DEF Single
<1>8. Awaited'
  BY <1>5, <1>6 DEF Awaited
<1>9. Silent' /\ ShownWasAsked'
  BY DEF Silent, ShownWasAsked
<1>10. /\ (\E f \in Live(flights') : f.kind \in Loading) <=> (\E f \in Live(flights) : f.kind \in Loading)
       /\ (\E f \in Live(flights') : f.kind = "more") <=> (\E f \in Live(flights) : f.kind = "more")
       /\ ~\E f \in Live(flights') : f.kind = "trace"
  BY <1>1, <1>5, <1>6
<1>11. /\ inventory.busy <=> \E f \in Live(flights) : f.kind \in Loading
       /\ inventory.moreBusy <=> \E f \in Live(flights) : f.kind = "more"
  BY BusyByLive DEF PageInv
<1>12. BusyExact'
  BY <1>10, <1>11 DEF BusyExact, Live, Loading, Tracing
<1> QED
  BY <1>2, <1>4, <1>7, <1>8, <1>9, <1>12 DEF PageInv

(* navigateProduct. *)
LEMMA NavigateKeeps ==
  ASSUME PageInv, NEW reads, CarriesOn(reads), NEW key, navigateProduct(key, reads),
         active = TRUE, active' = TRUE, inventory' = inventory
  PROVE  PageInv'
<1> DEFINE wanted == IF key \in Keys THEN {Flight("product", key, None)} ELSE {}
<1>1. /\ flights' = clearedReads(reads) \cup wanted /\ asked' = IF key \in Keys THEN key ELSE None
      /\ selected' = Unselected /\ trace' = NoTrace
  BY DEF navigateProduct, Cleared
<1>2. \A f \in wanted : IsRead(f) /\ f.current /\ f.kind = "product" /\ f.key = asked'
  BY <1>1, FlightRead DEF Selection
<1>3. /\ selected'.key = None /\ selected'.descriptor = None
      /\ trace'.key = None /\ trace'.snapshot = None /\ trace'.busy = FALSE
  BY <1>1 DEF Unselected, NoTrace
<1> HIDE DEF wanted
<1> QED
  BY <1>1, <1>2, <1>3, ShowKeeps

(* selectProduct. *)
LEMMA SelectKeeps ==
  ASSUME PageInv, NEW reads, CarriesOn(reads), NEW key, selectProduct(key, reads), asked' = key,
         active = TRUE, active' = TRUE, inventory' = inventory, flags' = flags
  PROVE  PageInv'
<1>1. flights' = clearedReads(reads) \cup {}
  BY DEF selectProduct
<1>2. selected'.key = key /\ (flags'.discovery => selected'.descriptor = key)
  BY DEF selectProduct
<1>3. /\ DOMAIN trace' = DOMAIN NoTrace /\ trace'.key \in {None, key}
      /\ trace'.snapshot = None /\ trace'.busy = FALSE
  BY DEF selectProduct, NoTrace
<1> DEFINE wanted == {}
<1>4. \A f \in wanted : IsRead(f) /\ f.current /\ f.kind = "product" /\ f.key = asked'
  OBVIOUS
<1>5. flights' = clearedReads(reads) \cup wanted
  BY <1>1
<1>6. selected'.key \in {None, asked'} /\ (flags'.discovery => selected'.descriptor \in {None, selected'.key})
  BY <1>2
<1>7. trace'.key \in {None, selected'.key}
  BY <1>2, <1>3
<1> HIDE DEF wanted
<1> QED
  BY <1>3, <1>4, <1>5, <1>6, <1>7, ShowKeeps

(* The reads under way go on as before. *)
LEMMA FlightsCarryOn ==
  ASSUME PageInv
  PROVE  CarriesOn(flights)
  BY DEF PageInv, Reads, Single, CarriesOn

(* A step that touches nothing the invariant speaks of. *)
LEMMA SameKeeps ==
  ASSUME PageInv, UNCHANGED <<active, flags, inventory, selected, trace, flights, asked>>
  PROVE  PageInv'
  BY DEF PageInv, Fields, Reads, Single, Awaited, Silent, ShownWasAsked, BusyExact, Live, Loading, Tracing

-----------------------------------------------------------------------------
(* What arrives.                                                           *)

(* An answer nobody waits for, or a product that is not shown. *)
LEMMA IgnoreKeeps ==
  ASSUME PageInv, NEW f \in flights, ~f.current \/ f.kind = "product", Ignored(f)
  PROVE  PageInv'
<1>1. flights' = flights \ {f} /\ UNCHANGED <<active, flags, inventory, selected, trace, asked>>
  BY DEF Ignored, Landed
<1>2. Live(flights') = Live(flights) \ {f}
  BY <1>1 DEF Live
<1>3. Fields' /\ Reads' /\ Single' /\ Awaited' /\ Silent' /\ ShownWasAsked'
  BY <1>1, <1>2 DEF PageInv, Fields, Reads, Single, Awaited, Silent, ShownWasAsked
<1>4. \A kind \in Inventory \cup Tracing :
        (\E g \in Live(flights') : g.kind = kind) <=> (\E g \in Live(flights) : g.kind = kind)
  <2>1. f \notin Live(flights) \/ f.kind \notin Inventory \cup Tracing
    BY DEF Live, Inventory, Tracing
  <2> QED
    BY <1>2, <2>1
<1>5. BusyExact'
  BY <1>1, <1>4 DEF PageInv, BusyExact, Live, Loading, Inventory, Tracing
<1> QED
  BY <1>3, <1>5 DEF PageInv

(* A live read that lands was the only one of its family. *)
LEMMA LandedLive ==
  ASSUME PageInv, NEW f \in flights, f.current
  PROVE  /\ active = TRUE /\ f \in Live(flights) /\ Live(Landed(f)) = Live(flights) \ {f}
         /\ \A g \in Landed(f) : IsRead(g)
         /\ f.kind \in Loading => ~\E g \in Live(Landed(f)) : g.kind \in Loading
         /\ f.kind = "more" => ~\E g \in Live(Landed(f)) : g.kind = "more"
         /\ f.kind = "trace" => ~\E g \in Live(Landed(f)) : g.kind = "trace"
<1>1. f \in Live(flights) /\ Live(Landed(f)) = Live(flights) \ {f}
  BY DEF Live, Landed
<1>2. active = TRUE
  BY <1>1 DEF PageInv, Silent, Fields
<1>3. \A g \in Landed(f) : IsRead(g)
  BY DEF PageInv, Reads, Landed
<1> QED
  BY <1>1, <1>2, <1>3 DEF PageInv, Single

(* A landing that leaves the other families as they are. *)
LEMMA LandKeeps ==
  ASSUME PageInv, NEW f \in flights, f.current, f.kind \in Inventory, flights' = Landed(f),
         UNCHANGED <<active, flags, selected, trace, asked>>,
         DOMAIN inventory' = DOMAIN Empty,
         f.kind \in Loading => inventory'.busy = FALSE /\ inventory'.moreBusy = inventory.moreBusy,
         f.kind = "more" => inventory'.moreBusy = FALSE /\ inventory'.busy = inventory.busy
  PROVE  PageInv'
<1>1. /\ active = TRUE /\ f \in Live(flights) /\ Live(flights') = Live(flights) \ {f}
      /\ \A g \in flights' : IsRead(g)
      /\ f.kind \in Loading => ~\E g \in Live(flights') : g.kind \in Loading
      /\ f.kind = "more" => ~\E g \in Live(flights') : g.kind = "more"
  BY LandedLive
<1>2. f.kind \in Loading \/ f.kind = "more"
  BY DEF Loading
<1>3. "more" \notin Loading /\ "trace" \notin Loading
  BY DEF Loading, Inventory
<1>4. Fields'
  BY <1>2 DEF PageInv, Fields
<1>5. Reads' /\ Single' /\ Awaited' /\ Silent' /\ ShownWasAsked'
  BY <1>1 DEF PageInv, Reads, Single, Awaited, Silent, ShownWasAsked
<1>6. /\ f.kind # "more" => ((\E g \in Live(flights') : g.kind = "more") <=> (\E g \in Live(flights) : g.kind = "more"))
      /\ f.kind \notin Loading =>
           ((\E g \in Live(flights') : g.kind \in Loading) <=> (\E g \in Live(flights) : g.kind \in Loading))
      /\ (\E g \in Live(flights') : g.kind = "trace") <=> (\E g \in Live(flights) : g.kind = "trace")
  BY <1>1, <1>2, <1>3
<1>7. /\ inventory.busy <=> \E g \in Live(flights) : g.kind \in Loading
      /\ inventory.moreBusy <=> \E g \in Live(flights) : g.kind = "more"
      /\ trace.busy <=> \E g \in Live(flights) : g.kind = "trace"
  BY <1>1, BusyByLive DEF PageInv
<1>8. /\ inventory'.busy <=> \E g \in Live(flights') : g.kind \in Loading
      /\ inventory'.moreBusy <=> \E g \in Live(flights') : g.kind = "more"
      /\ trace'.busy <=> \E g \in Live(flights') : g.kind = "trace"
  BY <1>1, <1>2, <1>3, <1>6, <1>7
<1>9. BusyExact'
  BY <1>8 DEF BusyExact, Live, Loading, Tracing
<1> QED
  BY <1>4, <1>5, <1>9 DEF PageInv

(* The configuration. *)
LEMMA ConfiguredKeeps ==
  ASSUME PageInv, NEW f \in flights, f.kind = "config", NEW response, Configured(f, response)
  PROVE  PageInv'
<1>1. CASE ~f.current
  BY <1>1, IgnoreKeeps DEF Configured
<1>2. CASE f.current /\ response = None
  <2>1. /\ inventory' = [inventory EXCEPT !.busy = FALSE]
        /\ flights' = Landed(f) /\ UNCHANGED <<active, flags, selected, trace, asked>>
    BY <1>2 DEF Configured
  <2>2. DOMAIN inventory = DOMAIN Empty
    BY DEF PageInv, Fields
  <2>3. /\ DOMAIN inventory' = DOMAIN Empty /\ inventory'.busy = FALSE
        /\ inventory'.moreBusy = inventory.moreBusy
    BY <2>1, <2>2 DEF Empty
  <2>4. f.kind \in Inventory /\ f.kind # "more"
    BY DEF Inventory
  <2> QED
    BY <1>2, <2>1, <2>3, <2>4, LandKeeps
<1>3. CASE f.current /\ response # None
  <2> DEFINE config == IF response.status = 200 THEN response.body ELSE Off
             first == Flight(IF config.discovery THEN "list" ELSE "listAll", None, Query(None))
             reads == Landed(f) \cup {first}
  <2>1. /\ IF config.discovery THEN navigateProduct(route, reads)
           ELSE flights' = reads /\ UNCHANGED <<selected, trace, asked>>
        /\ flags' = config /\ UNCHANGED <<active, inventory>>
    BY <1>3 DEF Configured
  <2>2. IsRead(first) /\ first.current /\ first.kind \in {"list", "listAll"}
    BY FlightRead DEF Inventory
  <2> HIDE DEF first, config
  <2>3. first.kind \in Loading /\ f.kind \in Loading /\ "more" \notin Loading /\ "trace" \notin Loading
    BY <2>2 DEF Loading, Inventory
  <2>4. /\ active = TRUE /\ f \in Live(flights) /\ Live(Landed(f)) = Live(flights) \ {f}
        /\ \A g \in Landed(f) : IsRead(g)
        /\ ~\E g \in Live(Landed(f)) : g.kind \in Loading
    BY <1>3, <2>3, LandedLive
  <2>5. Live(reads) = Live(Landed(f)) \cup {first}
    BY <2>2 DEF Live
  <2>6. CarriesOn(reads)
    BY <2>2, <2>3, <2>4, <2>5 DEF CarriesOn, PageInv, Single
  <2>7. CASE config.discovery
    BY <2>1, <2>4, <2>6, <2>7, NavigateKeeps
  <2>8. CASE ~config.discovery
    <3>1. flights' = reads /\ UNCHANGED <<active, inventory, selected, trace, asked>>
      BY <2>1, <2>8
    <3>2. Reads' /\ Single' /\ Awaited'
      BY <2>2, <2>3, <2>4, <2>5, <3>1 DEF PageInv, Reads, Single, Awaited
    <3>3. Fields' /\ Silent' /\ ShownWasAsked'
      BY <2>1, <2>4, <2>8, <3>1 DEF PageInv, Fields, Silent, ShownWasAsked
    <3>4. /\ inventory.busy <=> \E g \in Live(flights) : g.kind \in Loading
          /\ inventory.moreBusy <=> \E g \in Live(flights) : g.kind = "more"
          /\ trace.busy <=> \E g \in Live(flights) : g.kind = "trace"
      BY <2>4, BusyByLive DEF PageInv
    <3>5. /\ inventory'.busy <=> \E g \in Live(flights') : g.kind \in Loading
          /\ inventory'.moreBusy <=> \E g \in Live(flights') : g.kind = "more"
          /\ trace'.busy <=> \E g \in Live(flights') : g.kind = "trace"
      BY <2>3, <2>4, <2>5, <3>1, <3>4
    <3>6. BusyExact'
      BY <3>5 DEF BusyExact, Live, Loading, Tracing
    <3> QED
      BY <3>2, <3>3, <3>6 DEF PageInv
  <2> QED
    BY <2>7, <2>8
<1> QED
  BY <1>1, <1>2, <1>3

(* A page of the inventory, the first or another. *)
LEMMA PageKeeps ==
  ASSUME PageInv, NEW f \in flights, NEW response,
         \/ f.kind \in {"list", "listAll"} /\ FirstPage(f, response)
         \/ f.kind = "more" /\ NextPage(f, response)
  PROVE  PageInv'
<1>1. DOMAIN inventory = DOMAIN Empty
  BY DEF PageInv, Fields
<1>2. CASE ~f.current
  BY <1>2, IgnoreKeeps DEF FirstPage, NextPage
<1>3. CASE f.current /\ f.kind \in {"list", "listAll"} /\ FirstPage(f, response)
  <2>1. flights' = Landed(f) /\ UNCHANGED <<active, flags, selected, trace, asked>>
    BY <1>3 DEF FirstPage
  <2>2. /\ DOMAIN inventory' = DOMAIN Empty /\ inventory'.busy = FALSE
        /\ inventory'.moreBusy = inventory.moreBusy
    <3>1. CASE response = None \/ response.status # 200
      <4>1. inventory' = [inventory EXCEPT !.busy = FALSE]
        BY <1>3, <3>1 DEF FirstPage
      <4> QED
        BY <1>1, <4>1 DEF Empty
    <3>2. CASE ~(response = None \/ response.status # 200)
      <4> DEFINE a == response.body.products
                 b == response.body.rejected
                 c == response.body.continue
                 d == response.body.continue = None
                 e == response.body.snapshot
      <4>1. inventory' = [inventory EXCEPT !.products = a, !.rejected = b, !.continuation = c,
                                           !.complete = d, !.snapshot = e, !.loaded = TRUE, !.busy = FALSE]
        BY <1>3, <3>2 DEF FirstPage
      <4> HIDE DEF a, b, c, d, e
      <4> QED
        BY <1>1, <4>1 DEF Empty
    <3> QED
      BY <3>1, <3>2
  <2>3. f.kind \in Inventory /\ f.kind # "more"
    BY <1>3 DEF Inventory
  <2> QED
    BY <1>3, <2>1, <2>2, <2>3, LandKeeps
<1>4. CASE f.current /\ f.kind = "more" /\ NextPage(f, response)
  <2>1. flights' = Landed(f) /\ UNCHANGED <<active, flags, selected, trace, asked>>
    BY <1>4 DEF NextPage
  <2>2. /\ DOMAIN inventory' = DOMAIN Empty /\ inventory'.moreBusy = FALSE
        /\ inventory'.busy = inventory.busy
    <3>1. CASE response = None \/ response.status # 200
      <4> DEFINE c == IF response # None /\ response.status = 410 THEN None ELSE inventory.continuation
      <4>1. inventory' = [inventory EXCEPT !.failure = TRUE, !.moreBusy = FALSE, !.continuation = c]
        BY <1>4, <3>1 DEF NextPage
      <4> HIDE DEF c
      <4> QED
        BY <1>1, <4>1 DEF Empty
    <3>2. CASE ~(response = None \/ response.status # 200)
      <4> DEFINE a == inventory.products \cup response.body.products
                 b == inventory.rejected + response.body.rejected
                 c == response.body.continue
                 d == response.body.continue = None
      <4>1. inventory' = [inventory EXCEPT !.products = a, !.rejected = b, !.continuation = c,
                                           !.complete = d, !.failure = FALSE, !.moreBusy = FALSE]
        BY <1>4, <3>2 DEF NextPage
      <4> HIDE DEF a, b, c, d
      <4> QED
        BY <1>1, <4>1 DEF Empty
    <3> QED
      BY <3>1, <3>2
  <2>3. f.kind \in Inventory /\ f.kind \notin Loading
    BY <1>4 DEF Inventory, Loading
  <2> QED
    BY <1>4, <2>1, <2>2, <2>3, LandKeeps
<1> QED
  BY <1>2, <1>3, <1>4

(* A product. *)
LEMMA ProductKeeps ==
  ASSUME PageInv, NEW f \in flights, f.kind = "product", NEW response, Product(f, response)
  PROVE  PageInv'
<1>1. CASE Ignored(f)
  BY <1>1, IgnoreKeeps
<1>2. CASE ~Ignored(f)
  <2>1. /\ f.current /\ response.body = f.key /\ selectProduct(response.body, Landed(f))
        /\ UNCHANGED <<active, flags, inventory, asked>>
    BY <1>2 DEF Product
  <2>2. /\ active = TRUE /\ f \in Live(flights) /\ Live(Landed(f)) = Live(flights) \ {f}
        /\ \A g \in Landed(f) : IsRead(g)
    BY <2>1, LandedLive
  <2>3. f.kind \notin Loading /\ f.kind # "more"
    BY DEF Loading, Inventory
  <2>4. CarriesOn(Landed(f))
    BY <2>2, <2>3 DEF CarriesOn, PageInv, Single
  <2>5. asked' = f.key
    BY <2>1, <2>2 DEF PageInv, Awaited
  <2> QED
    BY <2>1, <2>2, <2>4, <2>5, SelectKeeps
<1> QED
  BY <1>1, <1>2

(* A trace. *)
LEMMA TracedKeeps ==
  ASSUME PageInv, NEW f \in flights, f.kind = "trace", NEW response, Traced(f, response)
  PROVE  PageInv'
<1>1. CASE ~f.current
  BY <1>1, IgnoreKeeps DEF Traced
<1>2. CASE f.current
  <2>1. /\ flights' = Landed(f) /\ UNCHANGED <<active, flags, inventory, selected, asked>>
        /\ \E snapshot \in {None, f.key} : trace' = [trace EXCEPT !.busy = FALSE, !.snapshot = snapshot]
    BY <1>2 DEF Traced
  <2>2. /\ active = TRUE /\ f \in Live(flights) /\ Live(flights') = Live(flights) \ {f}
        /\ \A g \in flights' : IsRead(g)
        /\ ~\E g \in Live(flights') : g.kind = "trace"
    BY <1>2, <2>1, LandedLive
  <2>3. DOMAIN trace = DOMAIN NoTrace /\ f.key = trace.key
    BY <2>2 DEF PageInv, Fields, Awaited
  <2>4. /\ DOMAIN trace' = DOMAIN NoTrace /\ trace'.busy = FALSE /\ trace'.key = trace.key
        /\ trace'.snapshot \in {None, trace.key}
    BY <2>1, <2>3 DEF NoTrace
  <2>5. Fields' /\ Reads' /\ Single' /\ Awaited' /\ Silent'
    BY <2>1, <2>2, <2>4 DEF PageInv, Fields, Reads, Single, Awaited, Silent
  <2>6. ShownWasAsked'
    BY <2>1, <2>2, <2>4 DEF PageInv, ShownWasAsked
  <2>7. f.kind \notin Loading /\ f.kind # "more"
    BY DEF Loading, Inventory
  <2>8. /\ inventory.busy <=> \E g \in Live(flights) : g.kind \in Loading
        /\ inventory.moreBusy <=> \E g \in Live(flights) : g.kind = "more"
    BY <2>2, BusyByLive DEF PageInv
  <2>9. /\ inventory'.busy <=> \E g \in Live(flights') : g.kind \in Loading
        /\ inventory'.moreBusy <=> \E g \in Live(flights') : g.kind = "more"
        /\ trace'.busy <=> \E g \in Live(flights') : g.kind = "trace"
    BY <2>1, <2>2, <2>4, <2>7, <2>8
  <2>10. BusyExact'
    BY <2>9 DEF BusyExact, Live, Loading, Tracing
  <2> QED
    BY <2>5, <2>6, <2>10 DEF PageInv
<1> QED
  BY <1>1, <1>2

-----------------------------------------------------------------------------
(* The theorems.                                                           *)

(* In the initial state one read is under way and nothing is shown. *)
LEMMA InitPage == Init => PageInv
<1> SUFFICES ASSUME Init PROVE PageInv
  OBVIOUS
<1> DEFINE first == Flight("config", None, None)
<1>1. IsRead(first) /\ first.current /\ first.kind = "config"
  BY FlightRead DEF Inventory
<1>2. /\ active = TRUE /\ inventory = [Empty EXCEPT !.busy = TRUE]
      /\ selected = Unselected /\ trace = NoTrace /\ asked = None /\ flights = {first}
  BY DEF Init
<1> HIDE DEF first
<1>3. /\ DOMAIN inventory = DOMAIN Empty /\ inventory.busy = TRUE /\ inventory.moreBusy = FALSE
      /\ trace.busy = FALSE /\ trace.key = None /\ trace.snapshot = None
      /\ selected.key = None /\ selected.descriptor = None
  BY <1>2 DEF Empty, NoTrace, Unselected
<1>4. Fields /\ Reads /\ Single /\ Awaited /\ Silent
  BY <1>1, <1>2, <1>3 DEF Fields, Reads, Single, Awaited, Silent, Live
<1>5. ShownWasAsked
  BY <1>2, <1>3 DEF ShownWasAsked
<1>6. BusyExact
  BY <1>1, <1>2, <1>3 DEF BusyExact, Inventory, Tracing
<1> QED
  BY <1>4, <1>5, <1>6 DEF PageInv

(* What the user does. *)
LEMMA UserKeeps ==
  ASSUME PageInv, User
  PROVE  PageInv'
<1>1. CASE Refresh \/ Submit \/ PageShow
  <2>1. active \in BOOLEAN
    BY DEF PageInv, Fields
  <2>2. loadProducts /\ active' = TRUE
    BY <1>1, <2>1 DEF Refresh, Submit, PageShow
  <2> QED
    BY <2>2, LoadKeeps
<1>2. CASE loadMore
  <2> DEFINE more == Flight("more", None, Query(inventory.continuation))
  <2>1. /\ active = TRUE /\ ~inventory.moreBusy /\ inventory' = [inventory EXCEPT !.moreBusy = TRUE]
        /\ flights' = flights \cup {more} /\ UNCHANGED <<active, flags, selected, trace, asked>>
    BY <1>2 DEF loadMore, PageInv, Fields
  <2>2. IsRead(more) /\ more.current /\ more.kind = "more"
    BY FlightRead DEF Inventory
  <2> HIDE DEF more
  <2>3. DOMAIN inventory = DOMAIN Empty
    BY DEF PageInv, Fields
  <2>4. /\ DOMAIN inventory' = DOMAIN Empty /\ inventory'.moreBusy = TRUE
        /\ inventory'.busy = inventory.busy
    BY <2>1, <2>3 DEF Empty
  <2>5. Live(flights') = Live(flights) \cup {more}
    BY <2>1, <2>2 DEF Live
  <2>6. "more" \notin Loading
    BY DEF Loading
  <2>7. /\ inventory.busy <=> \E g \in Live(flights) : g.kind \in Loading
        /\ ~\E g \in Live(flights) : g.kind = "more"
        /\ trace.busy <=> \E g \in Live(flights) : g.kind = "trace"
    BY <2>1, BusyByLive DEF PageInv
  <2>8. Fields' /\ Reads' /\ Awaited' /\ Silent' /\ ShownWasAsked'
    BY <2>1, <2>2, <2>4, <2>5 DEF PageInv, Fields, Reads, Awaited, Silent, ShownWasAsked
  <2>9. Single'
    BY <2>2, <2>5, <2>6, <2>7 DEF PageInv, Single
  <2>10. /\ inventory'.busy <=> \E g \in Live(flights') : g.kind \in Loading
         /\ inventory'.moreBusy <=> \E g \in Live(flights') : g.kind = "more"
         /\ trace'.busy <=> \E g \in Live(flights') : g.kind = "trace"
    BY <2>1, <2>2, <2>4, <2>5, <2>6, <2>7
  <2>11. BusyExact'
    BY <2>10 DEF BusyExact, Live, Loading, Tracing
  <2> QED
    BY <2>8, <2>9, <2>11 DEF PageInv
<1>3. CASE Trace
  <2> DEFINE read == Flight("trace", trace.key, None)
             old == Raised(flights, Tracing)
  <2>1. /\ active = TRUE /\ trace' = [trace EXCEPT !.snapshot = None, !.busy = TRUE]
        /\ flights' = old \cup {read} /\ UNCHANGED <<active, flags, inventory, selected, asked>>
    BY <1>3 DEF Trace, PageInv, Fields
  <2>2. IsRead(read) /\ read.current /\ read.kind = "trace" /\ read.key = trace.key
    BY FlightRead DEF Tracing
  <2>3. /\ \A f \in old : IsRead(f)
        /\ Live(old) = {f \in Live(flights) : f.kind \notin Tracing}
    BY RaisedLive DEF PageInv, Reads
  <2> HIDE DEF read, old
  <2>4. DOMAIN trace = DOMAIN NoTrace
    BY DEF PageInv, Fields
  <2>5. /\ DOMAIN trace' = DOMAIN NoTrace /\ trace'.busy = TRUE /\ trace'.snapshot = None
        /\ trace'.key = trace.key
    BY <2>1, <2>4 DEF NoTrace
  <2>6. Live(flights') = {f \in Live(flights) : f.kind # "trace"} \cup {read}
    BY <2>1, <2>2, <2>3 DEF Live, Tracing
  <2>7. "trace" \notin Loading
    BY DEF Loading, Inventory
  <2>8. /\ inventory.busy <=> \E g \in Live(flights) : g.kind \in Loading
        /\ inventory.moreBusy <=> \E g \in Live(flights) : g.kind = "more"
    BY <2>1, BusyByLive DEF PageInv
  <2>9. Fields' /\ Reads' /\ Silent' /\ ShownWasAsked'
    BY <2>1, <2>2, <2>3, <2>5 DEF PageInv, Fields, Reads, Silent, ShownWasAsked
  <2>10. Single' /\ Awaited'
    BY <2>1, <2>2, <2>5, <2>6, <2>7 DEF PageInv, Single, Awaited
  <2>11. /\ inventory'.busy <=> \E g \in Live(flights') : g.kind \in Loading
         /\ inventory'.moreBusy <=> \E g \in Live(flights') : g.kind = "more"
         /\ trace'.busy <=> \E g \in Live(flights') : g.kind = "trace"
    BY <2>1, <2>2, <2>5, <2>6, <2>7, <2>8
  <2>12. BusyExact'
    BY <2>11 DEF BusyExact, Live, Loading, Tracing
  <2> QED
    BY <2>9, <2>10, <2>12 DEF PageInv
<1>4. CASE PageHide
  <2>1. /\ active' = FALSE /\ selected' = Unselected /\ trace' = NoTrace
        /\ flights' = clearedReads(Raised(flights, Inventory))
        /\ inventory' = [inventory EXCEPT !.products = {}, !.loaded = FALSE, !.complete = FALSE,
                                          !.continuation = None, !.busy = FALSE]
    BY <1>4 DEF PageHide, Cleared
  <2>2. (\A f \in flights' : IsRead(f)) /\ Live(flights') = {}
    BY <2>1, AllLive DEF PageInv, Reads
  <2>3. DOMAIN inventory = DOMAIN Empty
    BY DEF PageInv, Fields
  <2>4. /\ DOMAIN inventory' = DOMAIN Empty /\ inventory'.moreBusy = inventory.moreBusy
        /\ inventory'.busy = FALSE /\ inventory'.products = {} /\ inventory'.continuation = None
    BY <2>1, <2>3 DEF Empty
  <2>5. /\ trace'.busy = FALSE /\ trace'.key = None /\ trace'.snapshot = None
        /\ selected'.key = None /\ selected'.descriptor = None
    BY <2>1 DEF NoTrace, Unselected
  <2>6. Fields' /\ Reads' /\ Single' /\ Awaited' /\ Silent'
    BY <2>1, <2>2, <2>4, <2>5 DEF PageInv, Fields, Reads, Single, Awaited, Silent
  <2>7. ShownWasAsked'
    BY <2>1, <2>4, <2>5 DEF ShownWasAsked
  <2>8. BusyExact'
    BY <2>1, <2>2, <2>4, <2>5 DEF BusyExact, Live
  <2> QED
    BY <2>6, <2>7, <2>8 DEF PageInv
<1>5. CASE \E namespace \in Namespaces \cup {None} : Type(namespace)
  BY <1>5, SameKeeps DEF Type
<1>6. ASSUME NEW key \in Keys, Click(key)
      PROVE  PageInv'
  <2>1. active = TRUE /\ active' = TRUE /\ inventory' = inventory /\ flags' = flags
    BY <1>6 DEF Click, PageInv, Fields
  <2>2. CASE navigateProduct(key, flights)
    BY <2>1, <2>2, FlightsCarryOn, NavigateKeeps
  <2>3. CASE selectProduct(key, flights) /\ asked' = key
    BY <2>1, <2>3, FlightsCarryOn, SelectKeeps
  <2> QED
    BY <1>6, <2>2, <2>3 DEF Click
<1>7. ASSUME NEW key, Popstate(key)
      PROVE  PageInv'
  <2>1. active = TRUE /\ active' = TRUE /\ inventory' = inventory /\ flags' = flags
    BY <1>7 DEF Popstate, PageInv, Fields
  <2>2. CASE navigateProduct(key, flights)
    BY <2>1, <2>2, FlightsCarryOn, NavigateKeeps
  <2>3. CASE UNCHANGED <<selected, trace, flights, asked>>
    BY <2>1, <2>3, SameKeeps
  <2> QED
    BY <1>7, <2>2, <2>3 DEF Popstate
<1>8. ASSUME NEW key \in Keys, Follow(key)
      PROVE  PageInv'
  <2>1. /\ active = TRUE /\ active' = TRUE /\ inventory' = inventory
        /\ navigateProduct(key, flights)
    BY <1>8 DEF Follow, PageInv, Fields
  <2> QED
    BY <2>1, FlightsCarryOn, NavigateKeeps
<1> QED
  BY <1>1, <1>2, <1>3, <1>4, <1>5, <1>6, <1>7, <1>8 DEF User

(* Every step keeps the invariant. *)
LEMMA NextPageInv == PageInv /\ [Next]_vars => PageInv'
<1> SUFFICES ASSUME PageInv, [Next]_vars PROVE PageInv'
  OBVIOUS
<1>1. CASE User
  BY <1>1, UserKeeps
<1>2. ASSUME NEW f \in flights, NEW response, Land(f, response)
      PROVE  PageInv'
  <2>1. f.kind \in {"config", "list", "listAll", "more", "product", "trace"}
    BY DEF PageInv, Reads, IsRead, Inventory, Selection, Tracing
  <2>2. CASE f.kind = "config"
    BY <1>2, <2>2, ConfiguredKeeps DEF Land
  <2>3. CASE f.kind \in {"list", "listAll"}
    BY <1>2, <2>3, PageKeeps DEF Land
  <2>4. CASE f.kind = "more"
    BY <1>2, <2>4, PageKeeps DEF Land
  <2>5. CASE f.kind = "product"
    BY <1>2, <2>5, ProductKeeps DEF Land
  <2>6. CASE f.kind = "trace"
    BY <1>2, <2>6, TracedKeeps DEF Land
  <2> QED
    BY <2>1, <2>2, <2>3, <2>4, <2>5, <2>6
<1>3. CASE Network
  BY <1>2, <1>3 DEF Network, Respond, Reject
<1>4. CASE Registry
  <2>1. UNCHANGED page_vars
    BY <1>4 DEF Registry, Change, Compact, Flip, Moves
  <2> QED
    BY <2>1, SameKeeps DEF page_vars
<1>5. CASE UNCHANGED vars
  BY <1>5, SameKeeps DEF vars
<1> QED
  BY <1>1, <1>3, <1>4, <1>5 DEF Next

(* Whatever the answers say and in whatever order they come, the page      *)
(* shows, and offers to save, only what was last asked for, and keeps      *)
(* nothing once it is left.                                                *)
THEOREM ShowsWhatWasAsked == Spec => []ShownWasAsked
<1>1. PageInv => ShownWasAsked
  BY DEF PageInv
<1> QED
  BY <1>1, InitPage, NextPageInv, PTL DEF Spec

(* The controls are busy exactly while the read they started is under way: *)
(* none is left disabled by an answer that was ignored, and none is        *)
(* enabled by the answer to an older read.                                 *)
THEOREM BusyWhilePending == Spec => []BusyExact
<1>1. PageInv => BusyExact
  BY DEF PageInv
<1> QED
  BY <1>1, InitPage, NextPageInv, PTL DEF Spec

-----------------------------------------------------------------------------
(* The inventory.                                                          *)

Moments == [products : [Keys -> Published], expired : SUBSET Nat,
            server : [discovery : BOOLEAN, lineage : BOOLEAN]]

(* The products of a namespace whose state is a given one, from after one  *)
(* key up to another or, if that is None, to the end.                      *)
Between(state, namespace, word, low, high) ==
  {k \in Keys : /\ namespace \in {None, NamespaceOf[k]} /\ state[k] = word
                /\ k > low /\ (high = None \/ k <= high)}

(* A non-empty set of naturals has a least element. *)
LEMMA LeastKey ==
  ASSUME NEW S \in SUBSET Nat, S # {}
  PROVE  \E m \in S : \A k \in S : m <= k
<1> DEFINE Less == OpToRel(<, Nat)
<1>1. IsWellFoundedOn(Less, Nat)
  BY NatLessThanWellFounded
<1>2. \A x, y \in Nat : y < x => <<y, x>> \in Less
  BY DEF OpToRel
<1> HIDE DEF Less
<1>3. PICK m \in S : \A k \in S : <<k, m>> \notin Less
  BY <1>1, WFMin
<1>4. \A k \in S : ~(k < m)
  BY <1>2, <1>3
<1> QED
  BY <1>4

(* A finite one has a greatest, the one with the most below it. *)
LEMMA GreatestKey ==
  ASSUME NEW S \in SUBSET Nat, IsFiniteSet(S), S # {}
  PROVE  Max(S) \in S /\ \A k \in S : k <= Max(S)
<1> DEFINE below(k) == {j \in S : j <= k}
           rank(k) == Cardinality(below(k))
           left == {Cardinality(S) - rank(k) : k \in S}
<1>0. \A k \in S : k \in Nat
  OBVIOUS
<1>1. \A k \in S : IsFiniteSet(below(k)) /\ rank(k) \in Nat /\ rank(k) <= Cardinality(S)
  BY FS_Subset, FS_CardinalityType
<1>2. Cardinality(S) \in Nat
  BY FS_CardinalityType
<1>3. ASSUME NEW j \in S, NEW k \in S, j < k
      PROVE  rank(j) < rank(k)
  <2>0. k \in below(k) /\ k \notin below(j)
    BY <1>0, <1>3
  <2>1. below(j) \subseteq below(k) /\ below(j) # below(k)
    <3>1. \A i \in S : i <= j => i <= k
      BY <1>0, <1>3
    <3> QED
      BY <2>0, <3>1
  <2>2. Cardinality(below(j)) <= Cardinality(below(k))
        /\ Cardinality(below(j)) # Cardinality(below(k))
    BY <1>1, <2>1, FS_Subset
  <2> QED
    BY <1>1, <2>2
<1> HIDE DEF rank, below
<1>4. left \in SUBSET Nat /\ left # {}
  <2>1. \A k \in S : Cardinality(S) - rank(k) \in Nat
    BY <1>1, <1>2
  <2> QED
    BY <2>1
<1>5. PICK m \in left : \A n \in left : m <= n
  BY <1>4, LeastKey
<1>6. PICK x \in S : m = Cardinality(S) - rank(x)
  BY <1>5
<1>7. \A k \in S : rank(k) <= rank(x)
  <2>1. \A k \in S : Cardinality(S) - rank(x) <= Cardinality(S) - rank(k)
    BY <1>5, <1>6
  <2> QED
    BY <1>1, <1>2, <1>6, <2>1
<1>8. \A k \in S : x >= k
  <2>1. ASSUME NEW k \in S, x < k
        PROVE  FALSE
    <3>1. rank(x) < rank(k) /\ rank(k) <= rank(x)
      BY <1>3, <1>6, <1>7, <2>1
    <3> QED
      BY <1>1, <1>6, <3>1
  <2> QED
    BY <1>0, <1>6, <2>1
<1>9. Max(S) \in S /\ \A y \in S : Max(S) >= y
  BY <1>8 DEF Max
<1> QED
  BY <1>9

(* What is left of a listing after a key. *)
Remaining(state, namespace, after) ==
  {k \in Keys : k > after /\ state[k] # "absent" /\ namespace \in {None, NamespaceOf[k]}}

(* One list answers with everything that is left, or with the keys up to   *)
(* the last one it names.                                                  *)
LEMMA ListedPart ==
  ASSUME NEW state, NEW namespace, NEW limit \in Nat \ {0}, NEW after \in Nat
  PROVE  LET list == Listed(state, namespace, limit, after)
         IN  /\ list.last \in Keys \cup {None} /\ (list.last # None => list.last > after)
             /\ list.items = {k \in Remaining(state, namespace, after) : list.last = None \/ k <= list.last}
<1> DEFINE rest == Remaining(state, namespace, after)
           before(k) == {j \in rest : j < k}
           items == {k \in rest : Cardinality(before(k)) < limit}
           list == Listed(state, namespace, limit, after)
<1>1. list.items = items /\ list.last = IF items = rest THEN None ELSE Max(items)
  BY DEF Listed, Remaining
<1>2. rest \subseteq Nat /\ IsFiniteSet(rest) /\ rest \subseteq Keys /\ \A k \in rest : k > after
  <2>1. rest \subseteq Keys /\ \A k \in rest : k > after
    BY DEF Remaining
  <2> QED
    BY <2>1, DiscoveryAssumption, FS_Subset
<1> HIDE DEF rest
<1>3. CASE items = rest
  BY <1>1, <1>3 DEF rest
<1>4. CASE items # rest
  <2>0. rest # {}
    BY <1>4
  <2>1. PICK m \in rest : \A k \in rest : m <= k
    BY <1>2, <2>0, LeastKey
  <2>2. before(m) = {}
    <3>1. \A j \in rest : ~(j < m)
      BY <1>2, <2>1
    <3> QED
      BY <3>1
  <2>3. m \in items
    BY <2>2, FS_EmptySet
  <2>4. /\ items \in SUBSET Nat /\ IsFiniteSet(items)
    BY <1>2, FS_Subset
  <2>5. /\ list.last = Max(items) /\ Max(items) \in items /\ \A k \in items : k <= Max(items)
    BY <1>1, <1>4, <2>3, <2>4, GreatestKey
  <2>6. ASSUME NEW k \in rest, NEW x \in items, k <= x
        PROVE  k \in items
    <3>1. before(k) \subseteq before(x)
      <4>1. \A j \in rest : j < k => j < x
        BY <1>2, <2>6
      <4> QED
        BY <4>1
    <3>2. IsFiniteSet(before(x)) /\ IsFiniteSet(before(k))
      BY <1>2, FS_Subset
    <3>3. Cardinality(before(k)) <= Cardinality(before(x))
      BY <3>1, <3>2, FS_Subset
    <3>4. Cardinality(before(k)) \in Nat /\ Cardinality(before(x)) \in Nat
      BY <3>2, FS_CardinalityType
    <3> QED
      BY <3>3, <3>4
  <2> HIDE DEF items
  <2>7. items \subseteq rest
    BY DEF items
  <2>8. list.last \in Keys /\ list.last # None /\ list.last > after
    BY <1>2, <2>5, <2>7, DiscoveryAssumption
  <2>9. items = {k \in rest : k <= Max(items)}
    BY <2>5, <2>6, <2>7
  <2> QED
    BY <1>1, <2>5, <2>8, <2>9 DEF rest
<1> QED
  BY <1>3, <1>4

(* A page shows what lies there and counts the rest, and its cursor        *)
(* continues after its last key.                                           *)
LEMMA PageBody ==
  ASSUME NEW state \in [Keys -> Published], NEW id, NEW query,
         query.limit \in Nat \ {0}, NEW after \in Nat
  PROVE  LET list == Listed(state, query.namespace, query.limit, after)
             body == page(query, [id |-> id, products |-> state], list)
             high == list.last
         IN  /\ high \in Keys \cup {None} /\ (high # None => high > after)
             /\ body.snapshot = id
             /\ body.products = Between(state, query.namespace, "valid", after, high)
             /\ body.rejected = Cardinality(Between(state, query.namespace, "invalid", after, high))
             /\ body.continue = IF high = None THEN None
                                ELSE [namespace |-> query.namespace, limit |-> query.limit,
                                      token |-> [snapshot |-> id, after |-> high]]
<1> DEFINE rest == Remaining(state, query.namespace, after)
           list == Listed(state, query.namespace, query.limit, after)
           body == page(query, [id |-> id, products |-> state], list)
           high == list.last
           encoded == {k \in list.items : state[k] = "valid"}
<1>1. /\ high \in Keys \cup {None} /\ (high # None => high > after)
      /\ list.items = {k \in rest : high = None \/ k <= high}
  BY ListedPart
<1>2. /\ body.snapshot = id /\ body.products = encoded
      /\ body.rejected = Cardinality(list.items \ encoded)
      /\ body.continue = IF high = None THEN None
                         ELSE [namespace |-> query.namespace, limit |-> query.limit,
                               token |-> [snapshot |-> id, after |-> high]]
  BY DEF page
<1> HIDE DEF list, body
<1>3. \A k \in Keys : state[k] \in {"absent", "valid", "invalid"}
  BY DEF Published
<1>4. encoded = Between(state, query.namespace, "valid", after, high)
  BY <1>1 DEF Between, Remaining
<1>5. list.items \ encoded = Between(state, query.namespace, "invalid", after, high)
  BY <1>1, <1>3 DEF Between, Remaining
<1> QED
  BY <1>1, <1>2, <1>4, <1>5 DEF list, body

Follows(low, high) == low \in Keys /\ high \in Keys \cup {None} /\ (high # None => high > low)

Join(state, namespace, word, low, high) ==
  /\ Between(state, namespace, word, 0, low) \cup Between(state, namespace, word, low, high)
       = Between(state, namespace, word, 0, high)
  /\ Cardinality(Between(state, namespace, word, 0, low))
       + Cardinality(Between(state, namespace, word, low, high))
       = Cardinality(Between(state, namespace, word, 0, high))

(* Two pages, the second after the last key of the first, make one. *)
LEMMA PagesJoin ==
  ASSUME NEW state, NEW namespace, NEW word, NEW low, NEW high, Follows(low, high)
  PROVE  Join(state, namespace, word, low, high)
<1> DEFINE A == Between(state, namespace, word, 0, low)
           B == Between(state, namespace, word, low, high)
           C == Between(state, namespace, word, 0, high)
<1>1. /\ Keys \subseteq Nat \ {0} /\ IsFiniteSet(Keys) /\ None \notin Keys
      /\ low \in Keys /\ high \in Keys \cup {None} /\ (high # None => high > low)
  BY DiscoveryAssumption DEF Follows
<1>2. A \cup B = C /\ A \cap B = {}
  <2> DEFINE upto(k, bound) == bound = None \/ k <= bound
  <2>1. \A k \in Keys : /\ upto(k, low) <=> k <= low
                        /\ k > 0 /\ (k <= low <=> ~(k > low))
    BY <1>1
  <2>2. \A k \in Keys : k <= low => upto(k, high)
    BY <1>1
  <2> HIDE DEF upto
  <2>3. /\ A = {k \in Keys : /\ namespace \in {None, NamespaceOf[k]} /\ state[k] = word
                            /\ k > 0 /\ upto(k, low)}
        /\ B = {k \in Keys : /\ namespace \in {None, NamespaceOf[k]} /\ state[k] = word
                            /\ k > low /\ upto(k, high)}
        /\ C = {k \in Keys : /\ namespace \in {None, NamespaceOf[k]} /\ state[k] = word
                            /\ k > 0 /\ upto(k, high)}
    BY DEF Between, upto
  <2> HIDE DEF A, B, C
  <2> QED
    BY <2>1, <2>2, <2>3
<1>4. IsFiniteSet(A) /\ IsFiniteSet(B)
  BY <1>1, FS_Subset DEF Between
<1> HIDE DEF A, B, C
<1>5. Cardinality(A \cup B) = Cardinality(A) + Cardinality(B) - Cardinality(A \cap B)
  BY <1>4, FS_Union
<1>6. Cardinality(A) \in Nat /\ Cardinality(B) \in Nat /\ Cardinality(A \cap B) = 0
  BY <1>2, <1>4, FS_CardinalityType, FS_EmptySet
<1>7. Cardinality(C) = Cardinality(A) + Cardinality(B)
  <2>1. Cardinality(C) = Cardinality(A \cup B)
    BY <1>2
  <2> QED
    BY <1>5, <1>6, <2>1
<1> QED
  BY <1>2, <1>7 DEF A, B, C, Join

(* What the pages so far are: with discovery, everything of one snapshot   *)
(* up to where the cursor continues, or to the end if they are complete;   *)
(* without, all products at once.                                          *)
PagesHonest ==
  inventory.loaded =>
    LET state == history[inventory.snapshot].products
        upto(word, high) == Between(state, inventory.namespace, word, 0, high)
        cursor == inventory.continuation
    IN  /\ inventory.snapshot \in 1..Now
        /\ ~flags.discovery => inventory.products = {k \in Keys : state[k] # "absent"} /\ cursor = None
        /\ flags.discovery =>
             /\ inventory.products \subseteq upto("valid", None)
             /\ inventory.complete => /\ inventory.products = upto("valid", None)
                                      /\ inventory.rejected = Cardinality(upto("invalid", None))
             /\ cursor # None => /\ cursor.token.snapshot = inventory.snapshot
                                 /\ inventory.products = upto("valid", cursor.token.after)
                                 /\ inventory.rejected = Cardinality(upto("invalid", cursor.token.after))

(* A cursor is there only on top of pages of a discovery, and of its query. *)
CursorFits ==
  inventory.continuation # None =>
    /\ inventory.loaded /\ flags.discovery
    /\ inventory.continuation \in Cursors
    /\ inventory.continuation.namespace = inventory.namespace
    /\ inventory.continuation.limit = PageLimit

(* A page that is being loaded shows nothing yet. *)
LoadingEmpty == inventory.busy => ~inventory.loaded /\ inventory.continuation = None

(* A live read asks what the inventory is about. *)
ReadFits(f) ==
  /\ f.kind = "list" => flags.discovery /\ f.query = Query(None)
  /\ f.kind = "listAll" => ~flags.discovery
  /\ f.kind = "more" => inventory.continuation # None /\ f.query = Query(inventory.continuation)

(* Reads of this moment or an earlier one, with cursors of their queries. *)
Dated(reads) ==
  \A f \in reads : f.since \in 1..Now /\ (f.kind = "more" => parseDiscoveryQuery(f.query))

ReadsFit == Dated(flights) /\ \A f \in Live(flights) : ReadFits(f)

Scoped ==
  /\ field \in Namespaces \cup {None} /\ inventory.namespace \in Namespaces \cup {None}
  /\ history \in Seq(Moments) /\ history # <<>>

InventoryInv == Scoped /\ ReadsFit /\ LoadingEmpty /\ CursorFits /\ PagesHonest

(* The invariant says that the inventory is honest. *)
LEMMA InventoryImplies == InventoryInv => InventoryHonest
<1> SUFFICES ASSUME InventoryInv PROVE InventoryHonest
  OBVIOUS
<1>1. \A f \in flights : f.kind = "more" => parseDiscoveryQuery(f.query)
  BY DEF InventoryInv, ReadsFit, Dated
<1>2. Keys \subseteq Nat \ {0}
  BY DiscoveryAssumption
<1>3. ASSUME inventory.loaded
      PROVE  LET scope == {k \in Keys : inventory.namespace \in {None, NamespaceOf[k]}}
                 state == history[inventory.snapshot].products
                 listed == IF flags.discovery THEN {k \in scope : state[k] = "valid"} ELSE {k \in Keys : state[k] # "absent"}
             IN  /\ inventory.products \subseteq listed
                 /\ inventory.complete => inventory.products = listed
                 /\ inventory.complete /\ flags.discovery =>
                      inventory.rejected = Cardinality({k \in scope : state[k] = "invalid"})
  <2> DEFINE state == history[inventory.snapshot].products
             scope == {k \in Keys : inventory.namespace \in {None, NamespaceOf[k]}}
  <2>1. CASE ~flags.discovery
    <3>1. inventory.products = {k \in Keys : state[k] # "absent"}
      BY <1>3, <2>1 DEF InventoryInv, PagesHonest
    <3> QED
      BY <2>1, <3>1
  <2>2. CASE flags.discovery
    <3>0. \A k \in Keys : k > 0
      BY <1>2
    <3>1. \A word : Between(state, inventory.namespace, word, 0, None) = {k \in scope : state[k] = word}
      BY <3>0 DEF Between
    <3>2. /\ inventory.products \subseteq Between(state, inventory.namespace, "valid", 0, None)
          /\ inventory.complete =>
               /\ inventory.products = Between(state, inventory.namespace, "valid", 0, None)
               /\ inventory.rejected = Cardinality(Between(state, inventory.namespace, "invalid", 0, None))
      BY <1>3, <2>2 DEF InventoryInv, PagesHonest
    <3>3. /\ Between(state, inventory.namespace, "valid", 0, None) = {k \in scope : state[k] = "valid"}
          /\ Between(state, inventory.namespace, "invalid", 0, None) = {k \in scope : state[k] = "invalid"}
      BY <3>1
    <3> HIDE DEF state, scope
    <3>4. /\ inventory.products \subseteq {k \in scope : state[k] = "valid"}
          /\ inventory.complete =>
               /\ inventory.products = {k \in scope : state[k] = "valid"}
               /\ inventory.rejected = Cardinality({k \in scope : state[k] = "invalid"})
      BY <3>2, <3>3
    <3> QED
      BY <2>2, <3>4 DEF state, scope
  <2> QED
    BY <2>1, <2>2
<1> QED
  BY <1>1, <1>3 DEF InventoryHonest

(* Raising counters does not change that. *)
LEMMA RaisedDated ==
  ASSUME NEW reads, NEW family, \A g \in reads : IsRead(g), Dated(reads)
  PROVE  Dated(Raised(reads, family))
<1> DEFINE old(f) == [f EXCEPT !.current = FALSE]
<1>1. ASSUME NEW f \in reads
      PROVE  old(f).kind = f.kind /\ old(f).query = f.query /\ old(f).since = f.since
  BY DEF IsRead
<1>2. \A g \in Raised(reads, family) : \E f \in reads : g = f \/ g = old(f)
  BY DEF Raised
<1> HIDE DEF old
<1> QED
  BY <1>1, <1>2 DEF Dated

(* Nor do clearSelection and a reload. *)
LEMMA ClearedDated ==
  ASSUME NEW reads, \A g \in reads : IsRead(g), Dated(reads)
  PROVE  Dated(clearedReads(reads)) /\ Dated(clearedReads(Raised(reads, Inventory)))
<1>1. (\A g \in Raised(reads, Inventory) : IsRead(g)) /\ Dated(Raised(reads, Inventory))
  BY RaisedLive, RaisedDated
<1> QED
  BY <1>1, RaisedDated DEF clearedReads

(* There is a current moment. *)
LEMMA NowPositive ==
  ASSUME Scoped
  PROVE  Now \in Nat /\ Now \in 1..Now
  BY DEF Scoped, Now

(* A step that leaves the inventory alone and starts no read for it. *)
LEMMA QuietStep ==
  ASSUME InventoryInv, UNCHANGED <<flags, inventory, history>>, field' \in Namespaces \cup {None},
         Dated(flights'), \A g \in Live(flights') : g.kind \in Inventory => g \in Live(flights)
  PROVE  InventoryInv'
<1>1. Now' = Now
  BY DEF Now
<1>2. Scoped' /\ LoadingEmpty' /\ CursorFits' /\ PagesHonest'
  BY <1>1 DEF InventoryInv, Scoped, LoadingEmpty, CursorFits, PagesHonest
<1>3. {"list", "listAll", "more"} \subseteq Inventory
  BY DEF Inventory
<1>4. \A g \in Live(flights') : ReadFits(g)
  BY <1>3 DEF InventoryInv, ReadsFit, ReadFits
<1>5. \A g : ReadFits(g) => ReadFits(g)'
  BY DEF ReadFits, Query
<1>6. ReadsFit'
  BY <1>1, <1>4, <1>5 DEF ReadsFit, Dated
<1> QED
  BY <1>2, <1>6 DEF InventoryInv

(* Loading starts from nothing. *)
LEMMA LoadStep ==
  ASSUME PageInv, InventoryInv, loadProducts, UNCHANGED <<flags, field, history>>
  PROVE  InventoryInv'
<1> DEFINE first == Flight("config", None, None)
           old == clearedReads(Raised(flights, Inventory))
<1>1. /\ inventory' = [Empty EXCEPT !.namespace = field, !.busy = TRUE]
      /\ flights' = old \cup {first}
  BY DEF loadProducts
<1>2. /\ inventory'.namespace = field /\ inventory'.loaded = FALSE /\ inventory'.continuation = None
  BY <1>1 DEF Empty
<1>3. Now' = Now /\ Now \in 1..Now
  BY NowPositive DEF InventoryInv, Now
<1>4. first.kind = "config" /\ first.since = Now
  BY DEF Flight
<1>5. Live(old) = {} /\ Dated(old)
  BY AllLive, ClearedDated DEF PageInv, Reads, InventoryInv, ReadsFit
<1> HIDE DEF first, old
<1>6. Live(flights') \subseteq {first}
  BY <1>1, <1>5 DEF Live
<1>7. Dated(flights')
  BY <1>1, <1>3, <1>4, <1>5 DEF Dated
<1>8. ReadsFit'
  BY <1>3, <1>4, <1>6, <1>7 DEF ReadsFit, ReadFits, Dated
<1>9. Scoped' /\ LoadingEmpty' /\ CursorFits' /\ PagesHonest'
  BY <1>2 DEF InventoryInv, Scoped, LoadingEmpty, CursorFits, PagesHonest
<1> QED
  BY <1>8, <1>9 DEF InventoryInv

(* A page that is left keeps nothing. *)
LEMMA HideStep ==
  ASSUME PageInv, InventoryInv, PageHide
  PROVE  InventoryInv'
<1> DEFINE old == clearedReads(Raised(flights, Inventory))
<1>1. /\ inventory' = [inventory EXCEPT !.products = {}, !.loaded = FALSE, !.complete = FALSE,
                                        !.continuation = None, !.busy = FALSE]
      /\ flights' = old /\ UNCHANGED <<flags, field, history>>
  BY DEF PageHide, Event
<1>2. DOMAIN inventory = DOMAIN Empty
  BY DEF PageInv, Fields
<1>3. /\ inventory'.namespace = inventory.namespace /\ inventory'.loaded = FALSE
      /\ inventory'.continuation = None
  BY <1>1, <1>2 DEF Empty
<1>4. Live(old) = {} /\ Dated(old)
  BY AllLive, ClearedDated DEF PageInv, Reads, InventoryInv, ReadsFit
<1> HIDE DEF old
<1>5. Now' = Now
  BY <1>1 DEF Now
<1>6. ReadsFit'
  BY <1>1, <1>4, <1>5 DEF ReadsFit, Dated
<1>7. Scoped' /\ LoadingEmpty' /\ CursorFits' /\ PagesHonest'
  BY <1>1, <1>3 DEF InventoryInv, Scoped, LoadingEmpty, CursorFits, PagesHonest
<1> QED
  BY <1>6, <1>7 DEF InventoryInv

(* loadMore asks for what the cursor continues. *)
LEMMA MoreStep ==
  ASSUME PageInv, InventoryInv, loadMore
  PROVE  InventoryInv'
<1> DEFINE query == Query(inventory.continuation)
           more == Flight("more", None, query)
<1>1. /\ inventory' = [inventory EXCEPT !.moreBusy = TRUE] /\ inventory.continuation # None
      /\ flights' = flights \cup {more} /\ UNCHANGED <<flags, field, history>>
  BY DEF loadMore, Event
<1>2. DOMAIN inventory = DOMAIN Empty
  BY DEF PageInv, Fields
<1>4. /\ inventory'.namespace = inventory.namespace /\ inventory'.loaded = inventory.loaded
      /\ inventory'.continuation = inventory.continuation /\ inventory'.busy = inventory.busy
      /\ inventory'.products = inventory.products /\ inventory'.rejected = inventory.rejected
      /\ inventory'.complete = inventory.complete /\ inventory'.snapshot = inventory.snapshot
  BY <1>1, <1>2 DEF Empty
<1>5. Now' = Now /\ Now \in 1..Now
  BY <1>1, NowPositive DEF InventoryInv, Now
<1>6. more.kind = "more" /\ more.query = query /\ more.since = Now /\ more.current = TRUE
  BY DEF Flight
<1>7. parseDiscoveryQuery(query)
  <2>1. /\ inventory.continuation \in Cursors /\ inventory.continuation.namespace = inventory.namespace
        /\ inventory.continuation.limit = PageLimit
    BY <1>1 DEF InventoryInv, CursorFits
  <2>2. inventory.continuation.token # None
    BY <2>1, CursorAssumption DEF Cursors
  <2>3. /\ query.namespace = inventory.namespace /\ query.limit = PageLimit
        /\ query.cursor = inventory.continuation
    BY DEF Query
  <2> HIDE DEF query
  <2> QED
    BY <2>1, <2>2, <2>3, PageAssumption DEF parseDiscoveryQuery
<1> HIDE DEF more
<1> HIDE DEF query
<1>8. Dated(flights')
  BY <1>1, <1>5, <1>6, <1>7 DEF InventoryInv, ReadsFit, Dated
<1>9. \A f \in Live(flights') : ReadFits(f)'
  <2>1. Live(flights') = Live(flights) \cup {more}
    BY <1>1, <1>6 DEF Live
  <2>2. \A f \in Live(flights) : ReadFits(f)
    BY DEF InventoryInv, ReadsFit
  <2>3. ReadFits(more)
    BY <1>1, <1>6 DEF ReadFits, query
  <2>4. \A f : ReadFits(f) => ReadFits(f)'
    BY <1>1, <1>4 DEF ReadFits, Query
  <2> QED
    BY <2>1, <2>2, <2>3, <2>4
<1>10. ReadsFit'
  BY <1>5, <1>8, <1>9 DEF ReadsFit, Dated
<1>11. Scoped' /\ LoadingEmpty' /\ CursorFits'
  BY <1>1, <1>4 DEF InventoryInv, Scoped, LoadingEmpty, CursorFits
<1>12. PagesHonest'
  BY <1>1, <1>4, <1>5 DEF InventoryInv, PagesHonest
<1> QED
  BY <1>10, <1>11, <1>12 DEF InventoryInv

(* While a first page is awaited there is nothing, and no other read for   *)
(* the inventory is listened to.                                           *)
LEMMA LoadingAlone ==
  ASSUME PageInv, InventoryInv, NEW f \in flights, f.current, f.kind \in Loading
  PROVE  /\ inventory.busy /\ ~inventory.loaded /\ inventory.continuation = None
         /\ \A g \in Live(Landed(f)) : g.kind \notin Inventory
<1>1. /\ f \in Live(flights) /\ Live(Landed(f)) = Live(flights) \ {f}
      /\ ~\E g \in Live(Landed(f)) : g.kind \in Loading
  BY LandedLive
<1>2. inventory.busy
  BY <1>1, BusyByLive DEF PageInv
<1>3. ~inventory.loaded /\ inventory.continuation = None
  BY <1>2 DEF InventoryInv, LoadingEmpty
<1>4. \A g \in Live(Landed(f)) : g.kind # "more"
  BY <1>1, <1>3 DEF InventoryInv, ReadsFit, ReadFits
<1> QED
  BY <1>1, <1>2, <1>3, <1>4 DEF Loading

(* Reads that have not landed are as before. *)
LEMMA LandedDated ==
  ASSUME InventoryInv, NEW f
  PROVE  Dated(Landed(f)) /\ Live(Landed(f)) \subseteq Live(flights)
  BY DEF InventoryInv, ReadsFit, Dated, Landed, Live

(* The configuration decides how to ask for the first page. *)
LEMMA ConfiguredStep ==
  ASSUME PageInv, InventoryInv, NEW f \in flights, f.current, f.kind = "config", NEW response,
         Configured(f, response), history' = history
  PROVE  InventoryInv'
<1>1. /\ inventory.busy /\ ~inventory.loaded /\ inventory.continuation = None
      /\ \A g \in Live(Landed(f)) : g.kind \notin Inventory
  BY LoadingAlone DEF Loading, Inventory
<1>2. Dated(Landed(f)) /\ \A g \in Landed(f) : IsRead(g)
  BY LandedDated, LandedLive
<1>3. Now' = Now /\ Now \in 1..Now /\ field' = field
  BY NowPositive DEF InventoryInv, Now, Configured
<1>4. {"list", "listAll", "more"} \subseteq Inventory /\ "product" \notin Inventory
  BY DEF Inventory
<1>5. CASE response = None
  <2>1. inventory' = [inventory EXCEPT !.busy = FALSE] /\ flights' = Landed(f) /\ flags' = flags
    BY <1>5 DEF Configured
  <2>2. DOMAIN inventory = DOMAIN Empty
    BY DEF PageInv, Fields
  <2>3. /\ inventory'.namespace = inventory.namespace /\ inventory'.loaded = inventory.loaded
        /\ inventory'.continuation = inventory.continuation
    BY <2>1, <2>2 DEF Empty
  <2>4. ReadsFit'
    BY <1>1, <1>2, <1>3, <1>4, <2>1 DEF ReadsFit, ReadFits, Dated
  <2>5. Scoped' /\ LoadingEmpty' /\ CursorFits' /\ PagesHonest'
    BY <1>1, <1>3, <2>3 DEF InventoryInv, Scoped, LoadingEmpty, CursorFits, PagesHonest
  <2> QED
    BY <2>4, <2>5 DEF InventoryInv
<1>6. CASE response # None
  <2> DEFINE next == IF response.status = 200 THEN response.body ELSE Off
             first == Flight(IF next.discovery THEN "list" ELSE "listAll", None, Query(None))
             reads == Landed(f) \cup {first}
             wanted == IF route \in Keys THEN {Flight("product", route, None)} ELSE {}
  <2>1. /\ flags' = next /\ inventory' = inventory
        /\ IF next.discovery THEN navigateProduct(route, reads) ELSE flights' = reads
    BY <1>6 DEF Configured
  <2>2. flights' = reads \/ flights' = clearedReads(reads) \cup wanted
    BY <2>1 DEF navigateProduct
  <2>3. /\ first.kind = IF next.discovery THEN "list" ELSE "listAll"
        /\ first.query = Query(None) /\ first.since = Now /\ first.current = TRUE /\ IsRead(first)
    BY DEF Flight, IsRead, Inventory
  <2>4. \A g \in wanted : g.kind = "product" /\ g.since = Now
    BY DEF Flight
  <2> HIDE DEF next, first, wanted
  <2>5. first.kind \in {"list", "listAll"}
    BY <2>3
  <2>6. /\ \A g \in reads : IsRead(g)
        /\ Dated(reads)
    BY <1>2, <1>3, <2>3, <2>5 DEF Dated
  <2>7. \A g \in Live(reads) : g.kind \in Inventory => g = first
    BY <1>1 DEF Live
  <2> HIDE DEF reads
  <2>8. Dated(clearedReads(reads)) /\ Live(clearedReads(reads)) \subseteq Live(reads)
    BY <2>6, ClearedDated, ClearedLive
  <2>9. Dated(flights')
    BY <1>3, <2>2, <2>4, <2>6, <2>8 DEF Dated
  <2>10. \A g \in Live(flights') : g.kind \in Inventory => g = first
    BY <1>4, <2>2, <2>4, <2>7, <2>8 DEF Live
  <2>11. Query(None)' = Query(None)
    BY <2>1 DEF Query
  <2>12. \A g \in Live(flights') : ReadFits(g)'
    BY <1>4, <2>1, <2>3, <2>10, <2>11 DEF ReadFits
  <2>13. ReadsFit'
    BY <1>3, <2>9, <2>12 DEF ReadsFit, Dated
  <2>14. Scoped' /\ LoadingEmpty' /\ CursorFits' /\ PagesHonest'
    BY <1>1, <1>3, <2>1 DEF InventoryInv, Scoped, LoadingEmpty, CursorFits, PagesHonest
  <2> QED
    BY <2>13, <2>14 DEF InventoryInv
<1> QED
  BY <1>5, <1>6

(* One page, as the registry answers it: from after a key of a snapshot up *)
(* to a last key or the end.                                               *)
PageOf(body, id, after, high) ==
  LET state == history[id].products
  IN  /\ high \in Keys \cup {None} /\ (high # None => high > after)
      /\ body.snapshot = id
      /\ body.products = Between(state, inventory.namespace, "valid", after, high)
      /\ body.rejected = Cardinality(Between(state, inventory.namespace, "invalid", after, high))
      /\ body.continue = IF high = None THEN None
                         ELSE [namespace |-> inventory.namespace, limit |-> PageLimit,
                               token |-> [snapshot |-> id, after |-> high]]

(* Whose snapshot and place the query names. *)
Starts(query, moment, id, after) ==
  /\ query.namespace = inventory.namespace /\ query.limit = PageLimit
  /\ id \in 1..Now /\ after \in Nat
  /\ \/ query.cursor = None /\ id = moment /\ after = 0
     \/ query.cursor # None /\ id = query.cursor.token.snapshot /\ after = query.cursor.token.after

(* A response of status 200 is a page of that snapshot, from that place. *)
LEMMA DiscoveryAnswer ==
  ASSUME Scoped, NEW moment, NEW failure \in {None, "unavailable"}, NEW query, NEW id, NEW after,
         Starts(query, moment, id, after),
         discoveryProducts(history, moment, query, failure).status = 200
  PROVE  \E high : PageOf(discoveryProducts(history, moment, query, failure).body, id, after, high)
<1> DEFINE response == discoveryProducts(history, moment, query, failure)
           state == history[id].products
           list == Listed(state, query.namespace, query.limit, after)
           body == page(query, [id |-> id, products |-> state], list)
<1>1. /\ query.namespace = inventory.namespace /\ query.limit = PageLimit
      /\ id \in 1..Now /\ after \in Nat
  BY DEF Starts
<1>2. state \in [Keys -> Published]
  <2>1. history[id] \in Moments
    BY <1>1 DEF Scoped, Now
  <2> QED
    BY <2>1 DEF Moments
<1>3. response.body = body
  <2> DEFINE token == IF query.cursor = None THEN [snapshot |-> moment, after |-> 0] ELSE query.cursor.token
             snapshot == [id |-> token.snapshot, products |-> history[token.snapshot].products]
             listed == Listed(snapshot.products, query.namespace, query.limit, token.after)
  <2>1. token.snapshot = id /\ token.after = after
    BY DEF Starts
  <2>2. \A status : discoveryFailure(status).status = status
    BY DEF discoveryFailure, Response
  <2>3. failure # None => readFailure[failure] = 503
    BY DEF readFailure
  <2>4. readFailure["expired"] = 410
    BY DEF readFailure
  <2>5. response = Response(200, page(query, snapshot, listed))
    <3>1. \/ \E status \in {404, 400, 502, 413, 503, 410} : response = discoveryFailure(status)
          \/ response = Response(200, page(query, snapshot, listed))
      <4> DEFINE off == ~history[moment].server.discovery
                 bad == ~parseDiscoveryQuery(query)
                 gone == token.snapshot \in history[moment].expired
                 odd == \/ Cardinality(listed.items) > query.limit
                        \/ \E k \in listed.items : query.namespace \notin {None, NamespaceOf[k]}
                 large == Cardinality(page(query, snapshot, listed).products) > MaxResponse
                 good == Response(200, page(query, snapshot, listed))
      <4>1. response = IF off THEN discoveryFailure(404) ELSE IF bad THEN discoveryFailure(400)
                       ELSE IF failure # None THEN discoveryFailure(readFailure[failure])
                       ELSE IF gone THEN discoveryFailure(readFailure["expired"])
                       ELSE IF odd THEN discoveryFailure(502)
                       ELSE IF large THEN discoveryFailure(413) ELSE good
        BY DEF discoveryProducts
      <4> HIDE DEF response, off, bad, gone, odd, large, good
      <4> QED
        BY <2>3, <2>4, <4>1 DEF good
    <3>2. response.status = 200
      OBVIOUS
    <3> HIDE DEF response
    <3> QED
      BY <2>2, <3>1, <3>2
  <2>6. snapshot = [id |-> id, products |-> state] /\ listed = list
    BY <2>1
  <2> HIDE DEF response, snapshot, listed, list
  <2> QED
    BY <2>5, <2>6 DEF Response
<1>4. query.limit \in Nat \ {0}
  BY <1>1, PageAssumption
<1>5. /\ list.last \in Keys \cup {None} /\ (list.last # None => list.last > after)
      /\ body.snapshot = id
      /\ body.products = Between(state, query.namespace, "valid", after, list.last)
      /\ body.rejected = Cardinality(Between(state, query.namespace, "invalid", after, list.last))
      /\ body.continue = IF list.last = None THEN None
                         ELSE [namespace |-> query.namespace, limit |-> query.limit,
                               token |-> [snapshot |-> id, after |-> list.last]]
  BY <1>1, <1>2, <1>4, PageBody
<1> HIDE DEF list, body, response
<1>6. PageOf(body, id, after, list.last)
  BY <1>1, <1>5 DEF PageOf
<1> QED
  BY <1>3, <1>6 DEF response

(* A response of status 200 of the first API is of all products. *)
LEMMA FirstAnswer ==
  ASSUME NEW at, NEW moment, NEW failure, listProducts(at, moment, failure).status = 200
  PROVE  LET body == listProducts(at, moment, failure).body
         IN  /\ body.products = {k \in Keys : at.products[k] # "absent"}
             /\ body.continue = None /\ body.snapshot = moment
<1> DEFINE list == Listed(at.products, None, MaxLimit, 0)
           response == listProducts(at, moment, failure)
           large == list.last # None \/ Cardinality(list.items) > MaxResponse
           all == [products |-> list.items, snapshot |-> moment, rejected |-> 0, continue |-> None]
<1>1. response = IF failure # None THEN discoveryFailure(500)
                 ELSE IF large THEN discoveryFailure(413) ELSE Response(200, all)
  BY DEF listProducts
<1>2. discoveryFailure(500).status = 500 /\ discoveryFailure(413).status = 413 /\ Response(200, all).body = all
  BY DEF discoveryFailure, Response
<1>3. list.items = {k \in Remaining(at.products, None, 0) : list.last = None \/ k <= list.last}
  BY DiscoveryAssumption, ListedPart
<1>4. Remaining(at.products, None, 0) = {k \in Keys : at.products[k] # "absent"}
  <2>1. \A k \in Keys : k > 0
    BY DiscoveryAssumption
  <2> QED
    BY <2>1 DEF Remaining
<1> HIDE DEF list, response
<1>5. response.body = all /\ list.last = None
  <2>1. response.status = 200
    BY DEF response
  <2> QED
    BY <1>1, <1>2, <2>1
<1>6. list.items = {k \in Keys : at.products[k] # "absent"}
  BY <1>3, <1>4, <1>5
<1> QED
  BY <1>5, <1>6 DEF response

(* The pages so far have become everything from the start up to a last     *)
(* key, or to the end.                                                     *)
Grown(id, high) ==
  LET state == history[id].products
  IN  /\ high \in Keys \cup {None} /\ id \in 1..Now
      /\ inventory'.loaded /\ inventory'.busy = FALSE
      /\ inventory'.snapshot = id /\ inventory'.namespace = inventory.namespace
      /\ inventory'.products = Between(state, inventory.namespace, "valid", 0, high)
      /\ inventory'.rejected = Cardinality(Between(state, inventory.namespace, "invalid", 0, high))
      /\ inventory'.complete = (inventory'.continuation = None)
      /\ inventory'.continuation = IF high = None THEN None
                                   ELSE [namespace |-> inventory.namespace, limit |-> PageLimit,
                                         token |-> [snapshot |-> id, after |-> high]]

(* That keeps the invariant, when no read for the inventory is left. *)
LEMMA GrownKeeps ==
  ASSUME InventoryInv, flags.discovery, NEW id, NEW high, Grown(id, high),
         NEW f, flights' = Landed(f), \A g \in Live(Landed(f)) : g.kind \notin Inventory,
         UNCHANGED <<flags, field, history>>
  PROVE  InventoryInv'
<1> DEFINE cursor == [namespace |-> inventory.namespace, limit |-> PageLimit,
                      token |-> [snapshot |-> id, after |-> high]]
           state == history[id].products
<1>1. Now' = Now /\ Now \in Nat
  BY NowPositive DEF InventoryInv, Now
<1>2. Dated(Landed(f))
  BY LandedDated
<1>3. {"list", "listAll", "more"} \subseteq Inventory
  BY DEF Inventory
<1>4. ReadsFit'
  BY <1>1, <1>2, <1>3 DEF ReadsFit, ReadFits, Dated
<1>5. /\ high \in Keys \cup {None} /\ id \in 1..Now
      /\ inventory'.loaded /\ inventory'.busy = FALSE
      /\ inventory'.snapshot = id /\ inventory'.namespace = inventory.namespace
      /\ inventory'.products = Between(state, inventory.namespace, "valid", 0, high)
      /\ inventory'.rejected = Cardinality(Between(state, inventory.namespace, "invalid", 0, high))
      /\ inventory'.complete = (inventory'.continuation = None)
      /\ inventory'.continuation = IF high = None THEN None ELSE cursor
  BY DEF Grown
<1>6. high # None => /\ cursor \in Cursors /\ cursor # None
                     /\ cursor.namespace = inventory.namespace /\ cursor.limit = PageLimit
                     /\ cursor.token.snapshot = id /\ cursor.token.after = high
  <2>1. inventory.namespace \in Namespaces \cup {None} /\ id \in Nat /\ PageLimit \in 1..MaxLimit
    BY <1>1, <1>5, PageAssumption DEF InventoryInv, Scoped
  <2>2. high # None => cursor \in Cursors
    BY <1>5, <2>1 DEF Cursors, Tokens
  <2> QED
    BY <2>2, CursorAssumption
<1> HIDE DEF cursor, state
<1>7. Scoped' /\ LoadingEmpty' /\ CursorFits'
  BY <1>5, <1>6 DEF InventoryInv, Scoped, LoadingEmpty, CursorFits
<1>8. Between(state, inventory.namespace, "valid", 0, high) \subseteq Between(state, inventory.namespace, "valid", 0, None)
  BY DEF Between
<1>9. PagesHonest'
  <2>1. history'[inventory'.snapshot].products = state
    BY <1>5 DEF state
  <2>2. CASE high = None
    <3>1. inventory'.continuation = None
      BY <1>5, <2>2
    <3> QED
      BY <1>1, <1>5, <2>1, <2>2, <3>1 DEF PagesHonest
  <2>3. CASE high # None
    <3>1. inventory'.continuation = cursor /\ ~inventory'.complete
      BY <1>5, <1>6, <2>3
    <3> QED
      BY <1>1, <1>5, <1>6, <1>8, <2>1, <2>3, <3>1 DEF PagesHonest
  <2> QED
    BY <2>2, <2>3
<1> QED
  BY <1>4, <1>7, <1>9 DEF InventoryInv

(* The first page. *)
LEMMA FirstStep ==
  ASSUME PageInv, InventoryInv, NEW f \in flights, f.current, f.kind \in {"list", "listAll"},
         NEW response, FirstPage(f, response), history' = history,
         response # None => \E moment \in f.since..Now, failure \in {None, "unavailable"} :
                              response = Answer(f, moment, failure)
  PROVE  InventoryInv'
<1>1. /\ inventory.busy /\ ~inventory.loaded /\ inventory.continuation = None
      /\ \A g \in Live(Landed(f)) : g.kind \notin Inventory
  BY LoadingAlone DEF Loading, Inventory
<1>2. f \in Live(flights) /\ ReadFits(f) /\ f.since \in 1..Now
  BY DEF Live, InventoryInv, ReadsFit, Dated
<1>3. flights' = Landed(f) /\ UNCHANGED <<flags, field, history>> /\ DOMAIN inventory = DOMAIN Empty
  BY DEF FirstPage, PageInv, Fields
<1>4. Now' = Now /\ Now \in Nat
  BY <1>3, NowPositive DEF InventoryInv, Now
<1>5. Dated(Landed(f))
  BY LandedDated
<1>6. {"list", "listAll", "more"} \subseteq Inventory
  BY DEF Inventory
<1>7. ReadsFit'
  BY <1>1, <1>3, <1>4, <1>5, <1>6 DEF ReadsFit, ReadFits, Dated
<1>8. CASE response = None \/ response.status # 200
  <2>1. inventory' = [inventory EXCEPT !.busy = FALSE]
    BY <1>8 DEF FirstPage
  <2>2. /\ inventory'.namespace = inventory.namespace /\ inventory'.loaded = inventory.loaded
        /\ inventory'.continuation = inventory.continuation
    BY <1>3, <2>1 DEF Empty
  <2>3. Scoped' /\ LoadingEmpty' /\ CursorFits' /\ PagesHonest'
    BY <1>1, <1>3, <2>2 DEF InventoryInv, Scoped, LoadingEmpty, CursorFits, PagesHonest
  <2> QED
    BY <1>7, <2>3 DEF InventoryInv
<1>9. CASE ~(response = None \/ response.status # 200)
  <2> DEFINE body == response.body
  <2>1. /\ inventory'.products = body.products /\ inventory'.rejected = body.rejected
        /\ inventory'.continuation = body.continue /\ inventory'.complete = (body.continue = None)
        /\ inventory'.snapshot = body.snapshot /\ inventory'.loaded = TRUE /\ inventory'.busy = FALSE
        /\ inventory'.namespace = inventory.namespace
    <3> DEFINE a == body.products
               b == body.rejected
               c == body.continue
               d == body.continue = None
               e == body.snapshot
    <3>1. inventory' = [inventory EXCEPT !.products = a, !.rejected = b, !.continuation = c,
                                         !.complete = d, !.snapshot = e, !.loaded = TRUE, !.busy = FALSE]
      BY <1>9 DEF FirstPage
    <3> HIDE DEF a, b, c, d, e
    <3>2. /\ inventory'.products = a /\ inventory'.rejected = b /\ inventory'.continuation = c
          /\ inventory'.complete = d /\ inventory'.snapshot = e /\ inventory'.loaded = TRUE
          /\ inventory'.busy = FALSE /\ inventory'.namespace = inventory.namespace
      BY <1>3, <3>1 DEF Empty
    <3> QED
      BY <3>2 DEF a, b, c, d, e
  <2>2. PICK moment \in f.since..Now, failure \in {None, "unavailable"} : response = Answer(f, moment, failure)
    BY <1>9
  <2>3. moment \in 1..Now
    BY <1>2, <1>4
  <2>4. CASE f.kind = "list"
    <3>1. response = discoveryProducts(history, moment, f.query, failure)
      BY <2>2, <2>4 DEF Answer
    <3>2. flags.discovery /\ f.query = Query(None)
      BY <1>2, <2>4 DEF ReadFits
    <3>3. Starts(f.query, moment, moment, 0)
      BY <2>3, <3>2 DEF Starts, Query
    <3>4. PICK high : PageOf(body, moment, 0, high)
      BY <1>9, <3>1, <3>3, DiscoveryAnswer DEF InventoryInv
    <3> HIDE DEF body
    <3>5. Grown(moment, high)
      BY <2>1, <2>3, <3>4 DEF PageOf, Grown
    <3> QED
      BY <1>1, <1>3, <3>2, <3>5, GrownKeeps
  <2>5. CASE f.kind = "listAll"
    <3>1. response = listProducts(history[moment], moment, failure)
      BY <2>2, <2>5 DEF Answer
    <3>2. /\ body.products = {k \in Keys : history[moment].products[k] # "absent"}
          /\ body.continue = None /\ body.snapshot = moment
      BY <1>9, <3>1, FirstAnswer
    <3> HIDE DEF body
    <3>3. /\ inventory'.products = {k \in Keys : history[moment].products[k] # "absent"}
          /\ inventory'.continuation = None /\ inventory'.snapshot = moment
      BY <2>1, <3>2
    <3>4. ~flags.discovery
      BY <1>2, <2>5 DEF ReadFits
    <3>5. Scoped' /\ LoadingEmpty' /\ CursorFits'
      BY <1>3, <2>1, <3>3 DEF InventoryInv, Scoped, LoadingEmpty, CursorFits
    <3>6. PagesHonest'
      BY <1>3, <1>4, <2>3, <3>3, <3>4 DEF PagesHonest
    <3> QED
      BY <1>7, <3>5, <3>6 DEF InventoryInv
  <2> QED
    BY <2>4, <2>5
<1> QED
  BY <1>8, <1>9

(* Another page. *)
LEMMA NextStep ==
  ASSUME PageInv, InventoryInv, NEW f \in flights, f.current, f.kind = "more",
         NEW response, NextPage(f, response), history' = history,
         response # None => \E moment \in f.since..Now, failure \in {None, "unavailable"} :
                              response = Answer(f, moment, failure)
  PROVE  InventoryInv'
<1> DEFINE cursor == inventory.continuation
           id == inventory.snapshot
           low == cursor.token.after
           state == history[id].products
<1>1. f \in Live(flights) /\ ReadFits(f) /\ f.since \in 1..Now
  BY DEF Live, InventoryInv, ReadsFit, Dated
<1>2. cursor # None /\ f.query = Query(cursor)
  BY <1>1 DEF ReadFits
<1>3. /\ inventory.loaded /\ flags.discovery /\ cursor \in Cursors
      /\ cursor.namespace = inventory.namespace /\ cursor.limit = PageLimit
  BY <1>2 DEF InventoryInv, CursorFits
<1>4. /\ id \in 1..Now /\ cursor.token.snapshot = id
      /\ inventory.products = Between(state, inventory.namespace, "valid", 0, low)
      /\ inventory.rejected = Cardinality(Between(state, inventory.namespace, "invalid", 0, low))
      /\ inventory.products \subseteq Between(state, inventory.namespace, "valid", 0, None)
  BY <1>2, <1>3 DEF InventoryInv, PagesHonest
<1>5. low \in Keys /\ low \in Nat
  BY <1>3, DiscoveryAssumption DEF Cursors, Tokens
<1>6. ~inventory.busy /\ inventory.busy = FALSE
  BY <1>2 DEF InventoryInv, LoadingEmpty, PageInv, Fields
<1>7. \A g \in Live(Landed(f)) : g.kind \notin Inventory
  <2>1. Live(Landed(f)) \subseteq Live(flights) /\ ~\E g \in Live(Landed(f)) : g.kind = "more"
    BY LandedLive
  <2>2. ~\E g \in Live(flights) : g.kind \in Loading
    BY <1>6, BusyByLive DEF PageInv
  <2> QED
    BY <2>1, <2>2 DEF Loading
<1>8. flights' = Landed(f) /\ UNCHANGED <<flags, field, history>> /\ DOMAIN inventory = DOMAIN Empty
  BY DEF NextPage, PageInv, Fields
<1>9. Now' = Now /\ Now \in Nat
  BY <1>8, NowPositive DEF InventoryInv, Now
<1>10. CASE response = None \/ response.status # 200
  <2> DEFINE c == IF response # None /\ response.status = 410 THEN None ELSE cursor
  <2>1. inventory' = [inventory EXCEPT !.failure = TRUE, !.moreBusy = FALSE, !.continuation = c]
    BY <1>10 DEF NextPage
  <2>2. c = None \/ c = cursor
    OBVIOUS
  <2> HIDE DEF c
  <2>3. /\ inventory'.namespace = inventory.namespace /\ inventory'.loaded = inventory.loaded
        /\ inventory'.continuation = c /\ inventory'.busy = inventory.busy
        /\ inventory'.products = inventory.products /\ inventory'.rejected = inventory.rejected
        /\ inventory'.complete = inventory.complete /\ inventory'.snapshot = inventory.snapshot
    BY <1>8, <2>1 DEF Empty
  <2>4. {"list", "listAll", "more"} \subseteq Inventory
    BY DEF Inventory
  <2>5. ReadsFit'
    BY <1>7, <1>8, <1>9, <2>4, LandedDated DEF ReadsFit, ReadFits, Dated
  <2>6. Scoped' /\ LoadingEmpty' /\ CursorFits'
    BY <1>6, <1>8, <2>2, <2>3 DEF InventoryInv, Scoped, LoadingEmpty, CursorFits
  <2>7. PagesHonest'
    BY <1>8, <1>9, <2>2, <2>3 DEF InventoryInv, PagesHonest
  <2> QED
    BY <2>5, <2>6, <2>7 DEF InventoryInv
<1>11. CASE ~(response = None \/ response.status # 200)
  <2> DEFINE body == response.body
  <2>1. /\ inventory'.products = inventory.products \cup body.products
        /\ inventory'.rejected = inventory.rejected + body.rejected
        /\ inventory'.continuation = body.continue /\ inventory'.complete = (body.continue = None)
        /\ inventory'.snapshot = id /\ inventory'.loaded = inventory.loaded
        /\ inventory'.busy = inventory.busy /\ inventory'.namespace = inventory.namespace
    <3> DEFINE a == inventory.products \cup body.products
               b == inventory.rejected + body.rejected
               c == body.continue
               d == body.continue = None
    <3>1. inventory' = [inventory EXCEPT !.products = a, !.rejected = b, !.continuation = c,
                                         !.complete = d, !.failure = FALSE, !.moreBusy = FALSE]
      BY <1>11 DEF NextPage
    <3> HIDE DEF a, b, c, d
    <3>2. /\ inventory'.products = a /\ inventory'.rejected = b /\ inventory'.continuation = c
          /\ inventory'.complete = d /\ inventory'.snapshot = inventory.snapshot
          /\ inventory'.loaded = inventory.loaded
          /\ inventory'.busy = inventory.busy /\ inventory'.namespace = inventory.namespace
      BY <1>8, <3>1 DEF Empty
    <3> QED
      BY <3>2 DEF a, b, c, d
  <2>2. PICK moment \in f.since..Now, failure \in {None, "unavailable"} : response = Answer(f, moment, failure)
    BY <1>11
  <2>3. response = discoveryProducts(history, moment, f.query, failure)
    BY <2>2 DEF Answer
  <2>4. Starts(f.query, moment, id, low)
    BY <1>2, <1>4, <1>5 DEF Starts, Query
  <2>5. PICK high : PageOf(body, id, low, high)
    BY <1>11, <2>3, <2>4, DiscoveryAnswer DEF InventoryInv
  <2> HIDE DEF body
  <2>6. /\ high \in Keys \cup {None} /\ (high # None => high > low)
        /\ body.products = Between(state, inventory.namespace, "valid", low, high)
        /\ body.rejected = Cardinality(Between(state, inventory.namespace, "invalid", low, high))
        /\ body.continue = IF high = None THEN None
                           ELSE [namespace |-> inventory.namespace, limit |-> PageLimit,
                                 token |-> [snapshot |-> id, after |-> high]]
    BY <2>5 DEF PageOf
  <2> HIDE DEF low, state
  <2>0. Follows(low, high)
    BY <1>5, <2>6 DEF Follows
  <2>7. \A word : Join(state, inventory.namespace, word, low, high)
    BY <2>0, PagesJoin
  <2>8. /\ inventory'.products = Between(state, inventory.namespace, "valid", 0, high)
        /\ inventory'.rejected = Cardinality(Between(state, inventory.namespace, "invalid", 0, high))
    <3>1. /\ Join(state, inventory.namespace, "valid", low, high)
          /\ Join(state, inventory.namespace, "invalid", low, high)
      BY <2>7
    <3> QED
      BY <1>4, <2>1, <2>6, <3>1 DEF Join
  <2>9. inventory'.loaded
    BY <1>3, <2>1
  <2>10. Grown(id, high)
    BY <1>4, <1>6, <2>1, <2>6, <2>8, <2>9 DEF Grown, state
  <2> QED
    BY <1>3, <1>7, <1>8, <2>10, GrownKeeps
<1> QED
  BY <1>10, <1>11

(* An answer nobody waits for leaves the inventory alone. *)
LEMMA IgnoredStep ==
  ASSUME InventoryInv, NEW f, Ignored(f), history' = history
  PROVE  InventoryInv'
<1>1. flights' = Landed(f) /\ UNCHANGED <<flags, inventory, field>>
  BY DEF Ignored
<1>2. field' \in Namespaces \cup {None}
  BY <1>1 DEF InventoryInv, Scoped
<1>3. Dated(flights') /\ Live(flights') \subseteq Live(flights)
  BY <1>1, LandedDated
<1> QED
  BY <1>1, <1>2, <1>3, QuietStep

(* A product that arrives is no matter of the inventory. *)
LEMMA ProductStep ==
  ASSUME PageInv, InventoryInv, NEW f \in flights, NEW response, Product(f, response), history' = history
  PROVE  InventoryInv'
<1>1. CASE Ignored(f)
  BY <1>1, IgnoredStep
<1>2. CASE ~Ignored(f)
  <2>1. flights' = clearedReads(Landed(f)) /\ UNCHANGED <<flags, inventory, field>>
    BY <1>2 DEF Product, selectProduct
  <2>2. Dated(Landed(f)) /\ Live(Landed(f)) \subseteq Live(flights) /\ \A g \in Landed(f) : IsRead(g)
    BY LandedDated DEF Landed, PageInv, Reads
  <2>3. Dated(flights') /\ Live(flights') \subseteq Live(Landed(f))
    BY <2>1, <2>2, ClearedDated, ClearedLive
  <2>4. field' \in Namespaces \cup {None}
    BY <2>1 DEF InventoryInv, Scoped
  <2> QED
    BY <2>1, <2>2, <2>3, <2>4, QuietStep
<1> QED
  BY <1>1, <1>2

(* Neither is a trace. *)
LEMMA TracedStep ==
  ASSUME InventoryInv, NEW f, NEW response, Traced(f, response), history' = history
  PROVE  InventoryInv'
<1>1. flights' = Landed(f) /\ UNCHANGED <<flags, inventory, field>>
  BY DEF Traced, Ignored
<1>2. field' \in Namespaces \cup {None}
  BY <1>1 DEF InventoryInv, Scoped
<1>3. Dated(flights') /\ Live(flights') \subseteq Live(flights)
  BY <1>1, LandedDated
<1> QED
  BY <1>1, <1>2, <1>3, QuietStep

(* navigateProduct and selectProduct leave the inventory's reads alone. *)
LEMMA ShowDated ==
  ASSUME PageInv, InventoryInv, NEW key,
         navigateProduct(key, flights) \/ selectProduct(key, flights)
  PROVE  Dated(flights') /\ \A g \in Live(flights') : g.kind \in Inventory => g \in Live(flights)
<1> DEFINE product == Flight("product", key, None)
<1>1. product.kind = "product" /\ product.since = Now
  BY DEF Flight
<1> HIDE DEF product
<1>2. clearedReads(flights) \subseteq flights' /\ flights' \subseteq clearedReads(flights) \cup {product}
  BY DEF navigateProduct, selectProduct, product
<1>3. Dated(clearedReads(flights)) /\ Live(clearedReads(flights)) \subseteq Live(flights)
  BY ClearedDated, ClearedLive DEF PageInv, Reads, InventoryInv, ReadsFit
<1>4. Now \in 1..Now
  BY NowPositive DEF InventoryInv
<1>5. Dated(flights')
  BY <1>1, <1>2, <1>3, <1>4 DEF Dated
<1>6. \A g \in Live(flights') : g.kind \in Inventory => g \in Live(flights)
  BY <1>1, <1>2, <1>3 DEF Live, Inventory
<1> QED
  BY <1>5, <1>6

(* What the user does. *)
LEMMA UserStep ==
  ASSUME PageInv, InventoryInv, User
  PROVE  InventoryInv'
<1>0. Dated(flights) /\ field \in Namespaces \cup {None}
  BY DEF InventoryInv, ReadsFit, Scoped
<1>1. CASE Refresh \/ Submit \/ PageShow
  <2>1. loadProducts /\ UNCHANGED <<flags, field, history>>
    BY <1>1 DEF Refresh, Submit, PageShow, Event
  <2> QED
    BY <2>1, LoadStep
<1>2. CASE loadMore
  BY <1>2, MoreStep
<1>3. CASE PageHide
  BY <1>3, HideStep
<1>4. CASE Trace
  <2> DEFINE read == Flight("trace", trace.key, None)
             old == Raised(flights, Tracing)
  <2>1. flights' = old \cup {read} /\ UNCHANGED <<flags, inventory, field, history>>
    BY <1>4 DEF Trace, Event
  <2>2. read.kind = "trace" /\ read.since = Now
    BY DEF Flight
  <2>3. Dated(old) /\ Live(old) \subseteq Live(flights)
    BY <1>0, RaisedDated, RaisedLive DEF PageInv, Reads
  <2> HIDE DEF read, old
  <2>4. Now \in 1..Now /\ "trace" \notin Inventory
    BY NowPositive DEF InventoryInv, Inventory
  <2>5. Dated(flights')
    BY <2>1, <2>2, <2>3, <2>4 DEF Dated
  <2>6. \A g \in Live(flights') : g.kind \in Inventory => g \in Live(flights)
    BY <2>1, <2>2, <2>3, <2>4 DEF Live
  <2> QED
    BY <1>0, <2>1, <2>5, <2>6, QuietStep
<1>5. ASSUME NEW namespace \in Namespaces \cup {None}, Type(namespace)
      PROVE  InventoryInv'
  <2>1. UNCHANGED <<flags, inventory, history, flights>> /\ field' \in Namespaces \cup {None}
    BY <1>5 DEF Type, Event
  <2> QED
    BY <1>0, <2>1, QuietStep
<1>6. ASSUME NEW key \in Keys, Click(key)
      PROVE  InventoryInv'
  <2>1. /\ UNCHANGED <<flags, inventory, field, history>>
        /\ navigateProduct(key, flights) \/ selectProduct(key, flights)
    BY <1>6 DEF Click, Event
  <2>2. Dated(flights') /\ \A g \in Live(flights') : g.kind \in Inventory => g \in Live(flights)
    BY <2>1, ShowDated
  <2> QED
    BY <1>0, <2>1, <2>2, QuietStep
<1>7. ASSUME NEW key, Popstate(key)
      PROVE  InventoryInv'
  <2>1. /\ UNCHANGED <<flags, inventory, field, history>>
        /\ navigateProduct(key, flights) \/ flights' = flights
    BY <1>7 DEF Popstate, Event
  <2>2. Dated(flights') /\ \A g \in Live(flights') : g.kind \in Inventory => g \in Live(flights)
    BY <1>0, <2>1, ShowDated
  <2> QED
    BY <1>0, <2>1, <2>2, QuietStep
<1>8. ASSUME NEW key \in Keys, Follow(key)
      PROVE  InventoryInv'
  <2>1. UNCHANGED <<flags, inventory, field, history>> /\ navigateProduct(key, flights)
    BY <1>8 DEF Follow, Event
  <2>2. Dated(flights') /\ \A g \in Live(flights') : g.kind \in Inventory => g \in Live(flights)
    BY <2>1, ShowDated
  <2> QED
    BY <1>0, <2>1, <2>2, QuietStep
<1> QED
  BY <1>1, <1>2, <1>3, <1>4, <1>5, <1>6, <1>7, <1>8 DEF User

(* The registry moves on; its earlier moments stay what they were. *)
LEMMA RegistryStep ==
  ASSUME InventoryInv, Registry
  PROVE  InventoryInv'
<1>1. history \in Seq(Moments) /\ history # <<>> /\ Now \in Nat /\ Now \in 1..Now
  BY NowPositive DEF InventoryInv, Scoped
<1>2. history[Now] \in Moments
  BY <1>1 DEF Now
<1>3. PICK moment \in Moments : Moves(moment)
  <2>1. ASSUME NEW key \in Keys, NEW state \in Published, Change(key, state)
        PROVE  \E moment \in Moments : Moves(moment)
    <3>1. [history[Now] EXCEPT !.products[key] = state] \in Moments
      BY <1>2 DEF Moments
    <3> QED
      BY <2>1, <3>1 DEF Change
  <2>2. ASSUME Compact
        PROVE  \E moment \in Moments : Moves(moment)
    <3>1. 1..Now \in SUBSET Nat
      BY <1>1
    <3>2. [history[Now] EXCEPT !.expired = 1..Now] \in Moments
      BY <1>2, <3>1 DEF Moments
    <3> QED
      BY <2>2, <3>2 DEF Compact
  <2>3. ASSUME Flip
        PROVE  \E moment \in Moments : Moves(moment)
    <3>1. [history[Now] EXCEPT !.server.discovery = ~@] \in Moments
      BY <1>2 DEF Moments
    <3> QED
      BY <2>3, <3>1 DEF Flip
  <2> QED
    BY <2>1, <2>2, <2>3 DEF Registry
<1>4. history' = Append(history, moment) /\ UNCHANGED <<flags, inventory, field, flights>>
  BY <1>3 DEF Moves, page_vars
<1>5. /\ history' \in Seq(Moments) /\ Now' = Now + 1
      /\ \A i \in 1..Now : history'[i] = history[i]
  BY <1>1, <1>3, <1>4 DEF Now
<1>6. history' # <<>> /\ 1..Now \subseteq 1..Now'
  BY <1>1, <1>4, <1>5
<1>7. Scoped' /\ LoadingEmpty' /\ CursorFits'
  BY <1>4, <1>5, <1>6 DEF InventoryInv, Scoped, LoadingEmpty, CursorFits
<1>8. \A f : ReadFits(f) => ReadFits(f)'
  BY <1>4 DEF ReadFits, Query
<1>9. ReadsFit'
  BY <1>4, <1>6, <1>8 DEF InventoryInv, ReadsFit, Dated
<1>10. PagesHonest'
  BY <1>4, <1>5, <1>6 DEF InventoryInv, PagesHonest
<1> QED
  BY <1>7, <1>9, <1>10 DEF InventoryInv

(* In the initial state nothing is loaded. *)
LEMMA InitInventory == Init => InventoryInv
<1> SUFFICES ASSUME Init PROVE InventoryInv
  OBVIOUS
<1> DEFINE first == Flight("config", None, None)
<1>1. /\ inventory = [Empty EXCEPT !.busy = TRUE] /\ field = None /\ flights = {first}
  BY DEF Init
<1>2. PICK moment \in Moments : history = <<moment>>
  BY DEF Init, Moments, Published
<1>3. history \in Seq(Moments) /\ history # <<>> /\ Now = 1
  BY <1>2 DEF Now
<1>4. first.kind = "config" /\ first.since = Now
  BY DEF Flight
<1> HIDE DEF first
<1>5. inventory.loaded = FALSE /\ inventory.continuation = None /\ inventory.namespace = None
  BY <1>1 DEF Empty
<1>6. ReadsFit
  BY <1>1, <1>3, <1>4 DEF ReadsFit, ReadFits, Dated, Live
<1> QED
  BY <1>1, <1>3, <1>5, <1>6 DEF InventoryInv, Scoped, LoadingEmpty, CursorFits, PagesHonest

(* What arrives. *)
LEMMA LandStep ==
  ASSUME PageInv, InventoryInv, NEW f \in flights, NEW response, Land(f, response),
         response # None => \E moment \in f.since..Now, failure \in {None, "unavailable"} :
                              response = Answer(f, moment, failure)
  PROVE  InventoryInv'
<1>1. f.kind \in {"config", "list", "listAll", "more", "product", "trace"}
  BY DEF PageInv, Reads, IsRead, Inventory, Selection, Tracing
<1>2. history' = history
  BY DEF Land
<1>3. CASE f.kind = "product"
  BY <1>2, <1>3, ProductStep DEF Land
<1>4. CASE f.kind = "trace"
  BY <1>2, <1>4, TracedStep DEF Land
<1>5. CASE f.kind \in {"config", "list", "listAll", "more"} /\ ~f.current
  BY <1>2, <1>5, IgnoredStep DEF Land, Configured, FirstPage, NextPage
<1>6. CASE f.kind = "config" /\ f.current
  BY <1>2, <1>6, ConfiguredStep DEF Land
<1>7. CASE f.kind \in {"list", "listAll"} /\ f.current
  <2>1. FirstPage(f, response)
    BY <1>7 DEF Land
  <2> QED
    BY <1>2, <1>7, <2>1, FirstStep
<1>8. CASE f.kind = "more" /\ f.current
  <2>1. NextPage(f, response)
    BY <1>8 DEF Land
  <2> QED
    BY <1>2, <1>8, <2>1, NextStep
<1> QED
  BY <1>1, <1>3, <1>4, <1>5, <1>6, <1>7, <1>8

(* Every step keeps the invariant. *)
LEMMA NextInventoryInv == PageInv /\ InventoryInv /\ [Next]_vars => InventoryInv'
<1> SUFFICES ASSUME PageInv, InventoryInv, [Next]_vars PROVE InventoryInv'
  OBVIOUS
<1>1. CASE User
  BY <1>1, UserStep
<1>2. CASE Network
  <2>1. ASSUME NEW f \in flights, Respond(f)
        PROVE  InventoryInv'
    <3>1. PICK moment \in f.since..Now, failure \in {None, "unavailable"} : Land(f, Answer(f, moment, failure))
      BY <2>1 DEF Respond
    <3> DEFINE response == Answer(f, moment, failure)
    <3>2. \E m \in f.since..Now, r \in {None, "unavailable"} : response = Answer(f, m, r)
      OBVIOUS
    <3> HIDE DEF response
    <3>3. Land(f, response)
      BY <3>1 DEF response
    <3> QED
      BY <3>2, <3>3, LandStep
  <2>2. ASSUME NEW f \in flights, Reject(f)
        PROVE  InventoryInv'
    BY <2>2, LandStep DEF Reject
  <2> QED
    BY <1>2, <2>1, <2>2 DEF Network
<1>3. CASE Registry
  BY <1>3, RegistryStep
<1>4. CASE UNCHANGED vars
  <2>1. UNCHANGED <<flags, inventory, history, field, flights>>
    BY <1>4 DEF vars
  <2>2. Dated(flights) /\ field \in Namespaces \cup {None}
    BY DEF InventoryInv, ReadsFit, Scoped
  <2> QED
    BY <2>1, <2>2, QuietStep
<1> QED
  BY <1>1, <1>2, <1>3, <1>4 DEF Next

(* However the registry changes between pages and in whatever order        *)
(* answers come, the pages shown are of one listing, complete means        *)
(* complete with every product that has no descriptor counted, and the     *)
(* registry never finds the page's own cursor to be of another query.      *)
THEOREM InventoryIsHonest == Spec => []InventoryHonest
<1> QED
  BY InitPage, NextPageInv, InitInventory, NextInventoryInv, InventoryImplies, PTL DEF Spec

=============================================================================
