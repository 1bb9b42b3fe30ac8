------------------------------ MODULE Preflight ------------------------------
(***************************************************************************)
(* The publisher's offline check (internal/preflight): the documents of    *)
(* the selected sources are read, admitted one by one, checked as a graph  *)
(* and, if nothing was found, put into a review order.                     *)
(*                                                                         *)
(* A selection is a sequence of sources, a source the documents in it and  *)
(* how reading it fails, if it does; a document is None where it is empty, *)
(* or a product with the first fault a rule of the API would find in it.   *)
(* ctx is asked at fixed places; here it counts how often, and is done     *)
(* from the question number expires on.                                    *)
(***************************************************************************)
EXTENDS DependencyGraphs, SequencesExt, TLC

CONSTANTS
  Alphabet,      \* the products in alphabetical order
  MaxSources,    \* files of one selection
  MaxDocuments,  \* physical documents of one selection
  MaxDetails     \* findings a report shows

ASSUME PreflightAssumption ==
  /\ Alphabet \in Seq(Products) /\ ToSet(Alphabet) = Products
  /\ MaxSources \in Nat \ {0} /\ MaxDocuments \in Nat \ {0} /\ MaxDetails \in Nat \ {0}

(* Of a document, in the order the rules come. *)
Faults == {"", "InvalidDocument", "UnknownField", "AdmissionInvalid", "InvalidPublicMetadata", "ContractOutputNotFound"}

Position(source, document) == [source |-> source, document |-> document]
Nowhere == Position(0, 0)

-----------------------------------------------------------------------------
(* Reports.                                                                *)

NewReport ==
  [valid |-> TRUE, complete |-> TRUE, sources |-> <<>>, productFeatures |-> <<>>, details |-> <<>>,
   counts |-> [total |-> 0, errors |-> 0, warnings |-> 0, omitted |-> 0],
   documents |-> <<>>, failure |-> Nowhere, descriptors |-> <<>>, plan |-> None]

One(condition) == IF condition THEN 1 ELSE 0

counted(counts, severity, shown) ==
  [total |-> counts.total + 1, omitted |-> counts.omitted + One(~shown),
   errors |-> counts.errors + One(severity = "error"), warnings |-> counts.warnings + One(severity # "error")]

(* Every finding counts; the report shows the first ones, at the document  *)
(* they are about or where the read stopped, with a bounded witness.       *)
addDetail(r, document, severity, code, witness) ==
  LET shown == Len(r.details) < MaxDetails
      finding == [at |-> IF document \in DOMAIN r.documents THEN r.documents[document].origin ELSE r.failure,
                  severity |-> severity, code |-> code,
                  witness |-> SubSeq(witness, 1, IF Len(witness) < MaxDepth THEN Len(witness) ELSE MaxDepth)]
  IN  [r EXCEPT !.valid = @ /\ severity # "error", !.complete = FALSE, !.counts = counted(@, severity, shown),
                !.details = IF shown THEN Append(@, finding) ELSE @]

add(r, document, code) == addDetail(r, document, "error", code, <<>>)

-----------------------------------------------------------------------------
(* Reading.                                                                *)

(* Mutant: the limit is of each source. *)
tooMany_PerSource(read, source) == read.sources[source].documents > MaxDocuments

(* The limit is of all documents of the selection, empty ones too. *)
tooMany(read, source) == read.physical > MaxDocuments

(* A turn of parseSource's loop; the one after the last document meets the *)
(* end of the file.                                                        *)
parseDocument(read, source, documents, index, apiOnly, expires) ==
  LET ordinal == Len(read.documents) + 1
      document == documents[index]
      before == Position(source, read.sources[source].documents)
      here == Position(source, index)
      asked == [read EXCEPT !.asked = @ + 1]
      entered == [asked EXCEPT !.sources[source].documents = @ + 1, !.physical = @ + 1]
      noted == IF apiOnly /\ document.ui
               THEN [entered EXCEPT !.report = add([@ EXCEPT !.failure = here], ordinal, "InvalidUI")] ELSE entered
      fail(r, code, at) == [r EXCEPT !.code = code, !.number = ordinal, !.failure = at]
  IN  IF read.code # "" THEN read
      ELSE IF read.asked >= expires THEN fail(asked, "ValidationLimit", before)
      ELSE IF index > Len(documents) THEN asked
      ELSE IF tooMany(entered, source) THEN fail(entered, "DocumentLimit", here)
      ELSE IF document = None THEN entered
      ELSE IF document.fault = "InvalidDocument" THEN fail(entered, "InvalidDocument", here)
      ELSE IF Len(read.documents) >= MaxProducts THEN fail(entered, "ProductLimit", here)
      ELSE IF document.fault = "UnknownField" THEN fail(noted, "UnknownField", here)
      ELSE [noted EXCEPT !.documents = Append(@, [product |-> document, origin |-> here]),
                         !.sources[source].products = @ + 1]

(* One source: asked, read within what is left of the input limit, parsed. *)
parseSource(read, source, selection, apiOnly, expires) ==
  LET file == selection[source]
      asked == [read EXCEPT !.asked = @ + 1]
      fail(code, number) == [asked EXCEPT !.code = code, !.number = number, !.failure = Position(source, 0)]
  IN  IF read.code # "" THEN read
      ELSE IF read.asked >= expires THEN fail("ValidationLimit", Len(read.documents) + 1)
      ELSE IF file.fault # "" THEN fail(file.fault, 0)
      ELSE FoldLeft(LAMBDA r, i : parseDocument(r, source, file.documents, i, apiOnly, expires),
                    asked, [i \in 1 .. Len(file.documents) + 1 |-> i])

nonEmpty(read) == IF read.code = "" /\ read.documents = <<>> THEN [read EXCEPT !.code = "NoProducts"] ELSE read

(* A source that cannot be read to its end leaves no documents. *)
readSelected(selection, apiOnly, expires) ==
  LET start == [documents |-> <<>>, sources |-> [i \in DOMAIN selection |-> [documents |-> 0, products |-> 0]],
                code |-> "", number |-> 0, failure |-> Nowhere, physical |-> 0, asked |-> 1, report |-> NewReport]
  IN  IF Len(selection) > MaxSources THEN [start EXCEPT !.code = "SourceLimit", !.sources = <<>>]
      ELSE nonEmpty(FoldLeft(LAMBDA r, i : parseSource(r, i, selection, apiOnly, expires),
                             start, [i \in DOMAIN selection |-> i]))

-----------------------------------------------------------------------------
(* The products, one by one.                                               *)

declaredFeatures(product) ==
  (IF product.spec.source # "none" THEN {"provisioned-sources"} ELSE {})
  \cup (IF product.spec.source = "engine" THEN {"engine-providers"} ELSE {})
  \cup (IF product.spec.connector THEN {"connector-readiness"} ELSE {})
  \cup (IF product.spec.inputs # <<>> THEN {"composition"} ELSE {})
  \cup (IF product.spec.contractChecks THEN {"contract-readiness"} ELSE {})
  \cup (IF product.ui THEN {"ui-contract"} ELSE {})

(* state: the report, the products admitted so far, how often ctx was      *)
(* asked, and whether the loop was left.                                   *)
admit(state, documents, index, apiOnly, expires) ==
  LET product == documents[index].product
      asked == [state EXCEPT !.asked = @ + 1]
      found(code) == [asked EXCEPT !.report = add(@, index, code)]
      known == [asked EXCEPT !.admitted = @ \cup {product}]
      features == [at |-> documents[index].origin, required |-> declaredFeatures(product)]
      checked == IF product.fault = "ContractOutputNotFound" THEN add(state.report, index, product.fault) ELSE state.report
  IN  IF state.left THEN state
      ELSE IF state.asked >= expires THEN [asked EXCEPT !.report = add(@, index, "ValidationLimit"), !.left = TRUE]
      ELSE IF product.fault = "AdmissionInvalid" THEN found("AdmissionInvalid")
      ELSE IF apiOnly /\ product.ui THEN asked
      ELSE IF \E other \in state.admitted : other.name = product.name \/ other.id = product.id THEN found("IdentityConflict")
      ELSE IF product.fault = "InvalidPublicMetadata" THEN [known EXCEPT !.report = add(@, index, "InvalidPublicMetadata")]
      ELSE [known EXCEPT !.report = [checked EXCEPT !.productFeatures = Append(@, features)]]

-----------------------------------------------------------------------------
(* The graph of the bundle.                                                *)

Named(documents, name) == CHOOSE i \in DOMAIN documents : documents[i].product.name = name
Names(documents) == {documents[i].product.name : i \in DOMAIN documents}

inputFinding(documents, port) ==
  IF port.foreign THEN "CrossNamespaceInput"
  ELSE IF port.ref \notin Names(documents) THEN "ProducerUnresolved"
  ELSE inputCompatibility(port, documents[Named(documents, port.ref)].product)

(* Mutant: a known suffix is accepted at any depth. *)
visitAgain_AnyDepth(stack, cached, seen) == [state |-> seen, suffix |-> cached, code |-> "", witness |-> <<>>]

(* A product whose longest suffix is known. *)
visitAgain(stack, cached, seen) ==
  IF Len(stack) + Len(cached) >= MaxDepth
  THEN [state |-> seen, suffix |-> <<>>, code |-> "CompositionLimit", witness |-> stack \o cached]
  ELSE [state |-> seen, suffix |-> cached, code |-> "", witness |-> <<>>]

(* The longer of the suffix so far and the one through this step. *)
longer(walk, step, below) ==
  [below EXCEPT !.suffix = IF below.code = "" /\ Len(@) + 1 > Len(walk.suffix) THEN <<step>> \o @ ELSE walk.suffix]

finished(key, result) ==
  IF result.code # "" THEN result ELSE [result EXCEPT !.state.suffixes = @ @@ (key :> result.suffix)]

(* visit of graphWitness: stack is the path to key, active where it passed *)
(* each product; state.suffixes the longest path below the finished ones.  *)
RECURSIVE visitProduct(_, _, _, _, _, _)
visitProduct(documents, key, stack, active, state, expires) ==
  LET seen == [state EXCEPT !.asked = @ + 1]
      index == Named(documents, key)
      ports == documents[index].product.spec.inputs
      stop(code, witness) == [state |-> seen, suffix |-> <<>>, code |-> code, witness |-> witness]
      follow(walk, i) ==
        LET step == [at |-> documents[index].origin, input |-> i]
        IN  IF walk.code # "" \/ ports[i].ref \notin Names(documents) THEN walk
            ELSE longer(walk, step, visitProduct(documents, ports[i].ref, Append(stack, step),
                                                 active @@ (key :> Len(stack)), walk.state, expires))
  IN  IF state.asked >= expires THEN stop("ValidationLimit", <<>>)
      ELSE IF key \in DOMAIN active THEN stop("CompositionCycle", SubSeq(stack, active[key] + 1, Len(stack)))
      ELSE IF key \in DOMAIN state.suffixes THEN visitAgain(stack, state.suffixes[key], seen)
      ELSE IF Len(stack) >= MaxDepth THEN stop("CompositionLimit", stack)
      ELSE finished(key, FoldLeft(follow, [state |-> seen, suffix |-> <<>>, code |-> "", witness |-> <<>>],
                                  [i \in DOMAIN ports |-> i]))

(* The document a fault of the graph is reported at. *)
witnessed(documents, found) ==
  [code |-> found.code, witness |-> found.witness,
   number |-> IF found.code = "" THEN 0
              ELSE IF found.witness = <<>> THEN Named(documents, found.root)
              ELSE CHOOSE i \in DOMAIN documents : documents[i].origin = found.witness[1].at]

graphWitness(documents, asked, expires) ==
  witnessed(documents,
            FoldLeft(LAMBDA walk, name :
                       IF walk.code # "" THEN walk
                       ELSE visitProduct(documents, name, <<>>, <<>>, walk.state, expires) @@ [root |-> name],
                     [state |-> [asked |-> asked, suffixes |-> <<>>], code |-> "", witness |-> <<>>],
                     SelectSeq(Alphabet, LAMBDA name : name \in Names(documents))))

(* The graph is walked only if every input is in order. *)
graphFinding(ports, graph) ==
  IF ~ports.valid \/ graph.code = "" THEN ports
  ELSE addDetail(ports, graph.number, "error", graph.code, graph.witness)

checkGraph(report, documents, asked, expires) ==
  LET edges == FoldLeft(LAMBDA n, d : n + Len(d.product.spec.inputs), 0, documents)
      port(r, i, j) ==
        LET finding == inputFinding(documents, documents[i].product.spec.inputs[j])
        IN  IF finding = "" THEN r
            ELSE addDetail(r, i, IF finding = "ProducerUnresolved" THEN "warning" ELSE "error", finding, <<>>)
      ports == FoldLeft(LAMBDA r, i : FoldLeft(LAMBDA q, j : port(q, i, j), r, [j \in DOMAIN documents[i].product.spec.inputs |-> j]),
                        report, [i \in DOMAIN documents |-> i])
  IN  IF edges > MaxEdges THEN add(report, 0, "CompositionLimit")
      ELSE graphFinding(ports, graphWitness(documents, asked, expires))

-----------------------------------------------------------------------------
(* The review order: of the products whose producers are done, the first. *)

reviewPlan(documents) ==
  LET needs(i) == {documents[i].product.spec.inputs[j].ref : j \in DOMAIN documents[i].product.spec.inputs}
      entry(i) == [key |-> documents[i].product.name, at |-> documents[i].origin]
      next(order) ==
        LET done == {order[i].key : i \in DOMAIN order}
            ready == {i \in DOMAIN documents : documents[i].product.name \notin done /\ needs(i) \subseteq done}
            names == SelectSeq(Alphabet, LAMBDA name : \E i \in ready : documents[i].product.name = name)
        IN  IF ready = {} THEN order ELSE Append(order, entry(Named(documents, Head(names))))
      order == FoldLeft(LAMBDA o, i : next(o), <<>>, documents)
  IN  IF Len(order) < Len(documents) THEN None
      ELSE [order |-> order,
            edges |-> UNION {{[consumer |-> documents[i].product.name, inputIndex |-> j, at |-> documents[i].origin,
                               producer |-> documents[i].product.spec.inputs[j].ref,
                               input |-> documents[i].product.spec.inputs[j].name,
                               output |-> documents[i].product.spec.inputs[j].output] :
                                j \in DOMAIN documents[i].product.spec.inputs} : i \in DOMAIN documents}]

-----------------------------------------------------------------------------
(* The end of checkSelected; large: whether the encoded v1 report exceeds  *)
(* its size.                                                               *)
conclude(checked, left, documents, large) ==
  LET planned == [checked EXCEPT !.plan = reviewPlan(documents)]
  IN  IF left \/ ~(checked.valid /\ checked.complete) THEN checked
      ELSE IF large THEN add(planned, 0, "PreviewLimit")
      ELSE [planned EXCEPT !.descriptors = [i \in DOMAIN documents |-> documents[i].product]]

checkAdmitted(admitted, documents, expires, large) ==
  conclude(IF admitted.report.valid THEN checkGraph(admitted.report, documents, admitted.asked, expires)
           ELSE admitted.report, admitted.left, documents, large)

(* What readSelected returned becomes the report's. *)
begin(read) == [read.report EXCEPT !.sources = read.sources, !.failure = read.failure]

checkRead(read, apiOnly, expires, large) ==
  IF read.code # "" THEN add(begin(read), read.number, read.code)
  ELSE checkAdmitted(FoldLeft(LAMBDA s, i : admit(s, read.documents, i, apiOnly, expires),
                              [report |-> [begin(read) EXCEPT !.documents = read.documents], admitted |-> {},
                               asked |-> read.asked, left |-> FALSE],
                              [i \in DOMAIN read.documents |-> i]),
                     read.documents, expires, large)

checkSelected(selection, apiOnly, expires, large) ==
  IF expires = 0 THEN add(NewReport, 0, "ValidationLimit")
  ELSE checkRead(readSelected(selection, apiOnly, expires), apiOnly, expires, large)

(* What the v2 report says of r: a preview only of a bundle without findings. *)
published(r) ==
  LET whole == r.valid /\ r.complete
  IN  [valid |-> r.valid, complete |-> r.complete, sources |-> r.sources, productFeatures |-> r.productFeatures,
       requiredFeatures |-> UNION {r.productFeatures[i].required : i \in DOMAIN r.productFeatures},
       products |-> FoldLeft(LAMBDA n, source : n + source.products, 0, r.sources),
       diagnostics |-> r.details, diagnosticCounts |-> r.counts,
       descriptors |-> IF whole THEN r.descriptors ELSE <<>>, plan |-> IF whole THEN r.plan ELSE None]

(* large: whether the encoded v2 report exceeds its size. *)
bundleReport(report, large) == published(IF large THEN add(report, 0, "PreviewLimit") ELSE report)

=============================================================================
