---------------------------- MODULE ReportReader ----------------------------
(***************************************************************************)
(* The independent reader of a saved v2 report that the documentation      *)
(* ships (docs/examples/preflight-client): it trusts no claim of the       *)
(* report that the rest of the report does not bear out.                   *)
(***************************************************************************)
EXTENDS Preflight

sumOf(sources, field(_)) == FoldLeft(LAMBDA n, source : n + field(source), 0, sources)

(* One document of a source; or, where that is allowed, a whole source or  *)
(* the whole selection.                                                    *)
position(report, at, allowGlobal) ==
  IF at.source = 0 THEN allowGlobal /\ at.document = 0
  ELSE /\ at.source \in DOMAIN report.sources /\ at.document <= report.sources[at.source].documents
       /\ allowGlobal \/ at.document # 0

sourcesAccepted(report) ==
  LET documents == sumOf(report.sources, LAMBDA source : source.documents)
  IN  /\ Len(report.sources) <= MaxSources /\ report.products <= MaxProducts
      /\ \A i \in DOMAIN report.sources : /\ report.sources[i].documents <= MaxDocuments + 1
                                          /\ report.sources[i].products <= report.sources[i].documents
      /\ sumOf(report.sources, LAMBDA source : source.products) = report.products
      /\ documents <= MaxDocuments + 1
      /\ report.valid => documents <= MaxDocuments

featuresAccepted(report) ==
  LET features == report.productFeatures
      count(source) == Cardinality({i \in DOMAIN features : features[i].at.source = source})
  IN  /\ \A i \in DOMAIN features : position(report, features[i].at, FALSE)
      /\ \A i, j \in DOMAIN features : features[i].at = features[j].at => i = j
      /\ \A i \in DOMAIN report.sources : /\ count(i) <= report.sources[i].products
                                          /\ report.complete => count(i) = report.sources[i].products
      /\ UNION {features[i].required : i \in DOMAIN features} = report.requiredFeatures

diagnosticsAccepted(report) ==
  LET shown == report.diagnostics
      counts == report.diagnosticCounts
      retained(severity) == Cardinality({i \in DOMAIN shown : shown[i].severity = severity})
  IN  /\ Len(shown) <= MaxDetails
      /\ \A i \in DOMAIN shown : /\ position(report, shown[i].at, TRUE) /\ Len(shown[i].witness) <= MaxDepth
                                 /\ \A j \in DOMAIN shown[i].witness : position(report, shown[i].witness[j].at, FALSE)
      /\ counts.total = counts.errors + counts.warnings /\ counts.total - Len(shown) = counts.omitted
      /\ retained("error") <= counts.errors /\ retained("warning") <= counts.warnings
      /\ counts.omitted = 0 => retained("error") = counts.errors /\ retained("warning") = counts.warnings
      /\ report.valid = (counts.errors = 0) /\ report.complete = (counts.total = 0)

(* The features a descriptor by itself calls for. *)
descriptorFeatures(product) ==
  (IF product.spec.inputs # <<>> THEN {"composition"} ELSE {}) \cup (IF product.ui THEN {"ui-contract"} ELSE {})

orderAccepted(report) ==
  LET order == report.plan.order
      product(key) == CHOOSE p \in ToSet(report.descriptors) : p.name = key
      features(at) == UNION {f.required : f \in {f \in ToSet(report.productFeatures) : f.at = at}}
  IN  /\ Len(order) = report.products
      /\ \A i \in DOMAIN order :
           /\ \E p \in ToSet(report.descriptors) : p.name = order[i].key
           /\ \E f \in ToSet(report.productFeatures) : f.at = order[i].at
           /\ descriptorFeatures(product(order[i].key)) \subseteq features(order[i].at)
      /\ \A i, j \in DOMAIN order : order[i].key = order[j].key \/ order[i].at = order[j].at => i = j

(* Every input of every product, after its producer. *)
edgesAccepted(report) ==
  LET order == report.plan.order
      rank(key) == CHOOSE i \in DOMAIN order : order[i].key = key
      product(key) == CHOOSE p \in ToSet(report.descriptors) : p.name = key
      known == {p.name : p \in ToSet(report.descriptors)}
  IN  /\ Cardinality(report.plan.edges) = FoldLeft(LAMBDA n, p : n + Len(p.spec.inputs), 0, report.descriptors)
      /\ \A e \in report.plan.edges :
           /\ {e.consumer, e.producer} \subseteq known /\ rank(e.producer) < rank(e.consumer)
           /\ e.inputIndex \in DOMAIN product(e.consumer).spec.inputs
           /\ LET port == product(e.consumer).spec.inputs[e.inputIndex]
              IN  /\ ~port.foreign /\ port.ref = e.producer /\ port.name = e.input /\ port.output = e.output
                  /\ hasOutput(product(e.producer), port.output)
           /\ e.at = order[rank(e.consumer)].at
      /\ \A e, f \in report.plan.edges : e.consumer = f.consumer /\ e.inputIndex = f.inputIndex => e = f

validateReport(report) ==
  /\ report.complete => report.valid
  /\ sourcesAccepted(report) /\ featuresAccepted(report) /\ diagnosticsAccepted(report)
  /\ IF ~report.complete THEN report.plan = None /\ report.descriptors = <<>>
     ELSE /\ report.products # 0 /\ Len(report.descriptors) = report.products
          /\ Len(report.productFeatures) = report.products
          /\ \A i, j \in DOMAIN report.descriptors :
               \/ report.descriptors[i].name = report.descriptors[j].name
               \/ report.descriptors[i].id = report.descriptors[j].id
               => i = j
          /\ report.plan # None /\ orderAccepted(report) /\ edgesAccepted(report)

=============================================================================
