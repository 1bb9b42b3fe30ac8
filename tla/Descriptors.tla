---------------------------- MODULE Descriptors ----------------------------
(***************************************************************************)
(* What the registry publishes of a DataProduct (internal/registry,        *)
(* descriptor.go and handler.go), what its own profile admits              *)
(* (descriptor_validation.go), and what the browser admits in turn         *)
(* (web/descriptor.js).  Names, URLs and texts are outside the model, and  *)
(* with them the checks on their spelling.                                 *)
(***************************************************************************)
EXTENDS DataProducts

DisabledReasons ==
  [source |-> {"SourceFeatureDisabled", "EngineProviderFeatureDisabled"},
   connector |-> {"ConnectorFeatureDisabled"},
   contracts |-> {"ContractFeatureDisabled"},
   composition |-> {"CompositionFeatureDisabled"}]

Dimensions == DOMAIN DisabledReasons

disabledCondition(type, reason) ==
  reason \in IF type = "ready" THEN UNION {DisabledReasons[d] : d \in Dimensions}
             ELSE DisabledReasons[type]

(* Mutant: success is believed whatever generation it was observed for. *)
publicHealth_IgnoresGeneration(o, type, applicable) ==
  LET condition == o.status[type]
  IN  [state |-> IF ~applicable THEN "not-applicable"
                 ELSE IF condition = None THEN "unobserved"
                 ELSE IF condition.ok THEN "ready"
                 ELSE IF disabledCondition(type, condition.reason) THEN "disabled" ELSE "not-ready",
       generation |-> o.generation,
       observedGeneration |-> IF applicable /\ condition # None
                              THEN condition.observedGeneration ELSE 0]

(* Missing and obsolete evidence comes before success. *)
publicHealth(o, type, applicable) ==
  LET condition == o.status[type]
  IN  [state |-> IF ~applicable THEN "not-applicable"
                 ELSE IF condition = None THEN "unobserved"
                 ELSE IF condition.observedGeneration # o.generation THEN "stale"
                 ELSE IF condition.ok THEN "ready"
                 ELSE IF disabledCondition(type, condition.reason) THEN "disabled" ELSE "not-ready",
       generation |-> o.generation,
       observedGeneration |-> IF applicable /\ condition # None
                              THEN condition.observedGeneration ELSE 0]

(* Mutant: the recorded inputs are published whatever they were read for. *)
publicLineage_AnyGeneration(o) ==
  {[entry EXCEPT !.reason = IF entry.ready THEN "InputReady" ELSE "InputNotReady"] :
     entry \in o.status.inputs}

(* descriptorFor withholds lineage of another generation, and the portable *)
(* projection replaces its reasons by two public ones.                     *)
publicLineage(o) ==
  LET observed == o.status.composition
  IN  IF observed = None THEN {}
      ELSE IF observed.observedGeneration # o.generation THEN {}
      ELSE {[entry EXCEPT !.reason = IF entry.ready THEN "InputReady" ELSE "InputNotReady"] :
              entry \in o.status.inputs}

(* The v1 inventory entry: only the verdict of the current generation of a *)
(* product that stays is passed on.                                        *)
descriptorFor(o) ==
  LET condition == o.status.ready
  IN  IF o.deleting THEN [ready |-> FALSE, reason |-> "ProductDeleting"]
      ELSE IF condition = None THEN [ready |-> FALSE, reason |-> "Unknown"]
      ELSE IF condition.observedGeneration # o.generation
           THEN [ready |-> FALSE, reason |-> "StatusStale"]
      ELSE [ready |-> condition.ok, reason |-> condition.reason]

portableDescriptorFor(o) ==
  LET aggregate == publicHealth(o, "ready", TRUE)
      readiness == IF o.deleting THEN "not-ready" ELSE aggregate.state
  IN  [inputs |-> o.spec.inputs, outputs |-> o.spec.outputs, generation |-> o.generation,
       observedGeneration |-> aggregate.observedGeneration,
       ready |-> readiness = "ready", readiness |-> readiness,
       health |-> [source |-> publicHealth(o, "source", o.spec.source # "none"),
                   connector |-> publicHealth(o, "connector", o.spec.connector),
                   contracts |-> publicHealth(o, "contracts", o.spec.contractChecks),
                   composition |-> publicHealth(o, "composition", o.spec.inputs # <<>>)],
       lineage |-> publicLineage(o)]

distinctTracePorts(ports) ==
  \A i, j \in DOMAIN ports : ports[i].name = ports[j].name => i = j

Names(port, entry) ==
  /\ port.name = entry.name /\ port.ref = entry.ref
  /\ port.foreign = entry.foreign /\ port.output = entry.output

(* The registry's profile: ports are told apart by name, and each lineage  *)
(* entry is about a declared input, one about each.                        *)
validPortableMetadata(d) ==
  /\ distinctTracePorts(d.inputs) /\ distinctTracePorts(d.outputs)
  /\ \A entry \in d.lineage : \E i \in DOMAIN d.inputs : Names(d.inputs[i], entry)
  /\ \A e, f \in d.lineage : e.name = f.name => e = f
  /\ d.outputs # <<>>

(* The browser: which generations a health state may be observed for. *)
validObservation(state, generation, observedGeneration) ==
  \/ state \in {"ready", "not-ready", "disabled"} /\ observedGeneration = generation
  \/ state = "stale" /\ observedGeneration # generation
  \/ state = "not-applicable" /\ observedGeneration = 0
  \/ state = "unobserved" /\ observedGeneration \in {0, generation}

(* The browser admits the descriptor for inspection. *)
validate(d) ==
  /\ d.outputs # <<>>
  /\ \A entry \in d.lineage :
       /\ entry.reason = IF entry.ready THEN "InputReady" ELSE "InputNotReady"
       /\ \E i \in DOMAIN d.inputs : Names(d.inputs[i], entry)
       /\ Cardinality({i \in DOMAIN d.inputs : d.inputs[i].name = entry.name}) = 1
  /\ Cardinality({entry.name : entry \in d.lineage}) = Cardinality(d.lineage)
  /\ \A k \in Dimensions :
       /\ d.health[k].generation = d.generation
       /\ validObservation(d.health[k].state, d.generation, d.health[k].observedGeneration)
  /\ d.ready <=> d.readiness = "ready"
  /\ d.ready => d.observedGeneration = d.generation

=============================================================================
