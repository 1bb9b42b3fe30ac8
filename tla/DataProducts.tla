---------------------------- MODULE DataProducts ----------------------------
(***************************************************************************)
(* The DataProduct resource (api/v1alpha1) as the reconciler sees it, and  *)
(* the predicates the controller evaluates on one or two such objects.     *)
(*                                                                         *)
(* Text is abstracted: names are model values, messages, owners, URLs and  *)
(* transition times are left out.  A semantic version vX.Y.Z is            *)
(* [major, rest], rest standing for the ordered pair Y.Z; every version    *)
(* that is not of that form, or too large to parse, is Unstable.           *)
(***************************************************************************)
EXTENDS Integers, Sequences, FiniteSets

CONSTANTS
  Products,      \* names of the data products of one namespace
  OutputNames,   \* names an output port may have
  Protocols,     \* OpenAPI, GraphQL, ...
  None,          \* absent object, condition or pointer
  Unstable,      \* a version that is not vMAJOR.MINOR.PATCH
  Manifests      \* Manifests[p]: the specs a publisher may apply to p

Versions == [major : Nat, rest : Nat] \cup {Unstable}

Contracts == [protocol : Protocols, minimumVersion : Versions]

(* An input names a producer and one of its outputs; foreign is TRUE when  *)
(* the reference, resolved against the consumer, leaves the namespace, and *)
(* name is the place of the input's own name in alphabetical order.        *)
InputPorts == [name : Nat, ref : Products, foreign : BOOLEAN, output : OutputNames,
               contract : Contracts \cup {None}]

OutputPorts == [name : OutputNames, protocol : Protocols]

(* size is the encoded size of what a consumer copies into its lineage.    *)
Specs == [inputs : Seq(InputPorts), outputs : Seq(OutputPorts), version : Versions,
          source : {"none", "crossplane", "engine"}, connector : BOOLEAN,
          contractChecks : BOOLEAN, size : Nat]

ASSUME ManifestsAssumption == Manifests \in [Products -> SUBSET Specs]

(* The schema makes inputs and outputs maps keyed by name, and asks for at *)
(* least one output.                                                       *)
ASSUME InputNamesAssumption ==
  \A p \in Products : \A s \in Manifests[p] : \A i, j \in DOMAIN s.inputs :
    s.inputs[i].name = s.inputs[j].name => i = j

ASSUME OutputsAssumption ==
  \A p \in Products : \A s \in Manifests[p] :
    /\ s.outputs # <<>>
    /\ \A i, j \in DOMAIN s.outputs : s.outputs[i].name = s.outputs[j].name => i = j

(* What a condition or a recorded input may give as its reason. *)
Reasons ==
  {"", "SourceReady", "SourceNotReady", "SourceFeatureDisabled", "EngineProviderFeatureDisabled",
   "ConnectorReady", "ConnectorNotReady", "ConnectorFeatureDisabled",
   "ContractsReady", "ContractProbeNotReady", "ContractFeatureDisabled",
   "CompositionVerified", "CompositionFeatureDisabled", "CompositionLimitExceeded",
   "CrossNamespaceDependencyDenied", "DependencyNotFound", "DependencyUnavailable",
   "DependencyCycle", "DependencyUnobserved", "DependencyNotReady", "InputReady",
   "OutputNotFound", "ContractIncompatible", "DependenciesReady"}

(* A condition is bound to the generation it was computed for.             *)
Conditions == [ok : BOOLEAN, reason : Reasons, observedGeneration : Nat]

InputStatuses == [name : Nat, ref : Products, foreign : BOOLEAN, output : OutputNames,
                  ready : BOOLEAN, reason : Reasons, observedGeneration : Nat]

(* The recorded inputs are sorted by name, a key, so the list is a set.    *)
Statuses == [observedGeneration : Nat,
             ready : Conditions \cup {None}, composition : Conditions \cup {None},
             connector : Conditions \cup {None}, contracts : Conditions \cup {None},
             source : Conditions \cup {None}, inputs : SUBSET InputStatuses]

NewStatus == [observedGeneration |-> 0, ready |-> None, composition |-> None,
              connector |-> None, contracts |-> None, source |-> None, inputs |-> {}]

Objects == [spec : Specs, generation : Nat, deleting : BOOLEAN, status : Statuses]

ASSUME NoneAssumption == None \notin Products /\ None \notin Conditions /\ None \notin Objects

Condition(ok, reason, generation) ==
  [ok |-> ok, reason |-> reason, observedGeneration |-> generation]

-----------------------------------------------------------------------------
(* Predicates of the controller.                                           *)

hasOutput(product, output) ==
  \E i \in DOMAIN product.spec.outputs : product.spec.outputs[i].name = output

(* The first output port with that name. *)
findOutput(product, output) ==
  LET ports == product.spec.outputs
      i == CHOOSE i \in DOMAIN ports :
             ports[i].name = output /\ \A j \in 1 .. i - 1 : ports[j].name # output
  IN  ports[i]

compatibleVersion(actual, minimum) ==
  /\ actual # Unstable /\ minimum # Unstable
  /\ actual.major = minimum.major
  /\ \/ actual.major = 0 /\ actual = minimum
     \/ actual.major # 0 /\ actual.rest >= minimum.rest

(* The reason an input does not fit its producer; "" when it does. *)
inputCompatibility(input, producer) ==
  IF ~hasOutput(producer, input.output) THEN "OutputNotFound"
  ELSE IF \/ input.contract = None
          \/ /\ findOutput(producer, input.output).protocol = input.contract.protocol
             /\ compatibleVersion(producer.spec.version, input.contract.minimumVersion)
       THEN "" ELSE "ContractIncompatible"

(* Success that is stale, or that belongs to a product being deleted, is   *)
(* not success.                                                            *)
producerReady(product) ==
  /\ ~product.deleting
  /\ product.status.ready # None
  /\ product.status.ready.ok
  /\ product.status.ready.observedGeneration = product.generation

=============================================================================
