------------------------------- MODULE Sources -------------------------------
(***************************************************************************)
(* What the source adapters have in common (internal/provisioner/v1 and    *)
(* internal/provider/v1): one resource and one connection Secret are read  *)
(* by name, and the first reason found against them is the answer.         *)
(*                                                                         *)
(* A resource is what one read of it returns: uid, generation, deleting,   *)
(* spec and status.  A Secret is its metadata: deleting, the owner         *)
(* references and the annotations.  A reason is a string, None where       *)
(* nothing speaks against the source so far; reasons are looked for in the *)
(* order of the adapter's early returns.                                   *)
(***************************************************************************)
EXTENDS Naturals, Sequences, FiniteSets

CONSTANT None

(* The reasons of the adapters and of the observation. *)
Reasons ==
  {"SourceReady", "SourceAccessDenied", "SourceAPIUnavailable", "SourceDeleting", "SourceFailed", "SourceInvalid",
   "SourceNotFound", "SourceNotReady", "SourcePaused", "SourceProfileUnsupported", "SourceScopeUnsupported",
   "SourceUnavailable", "SourceVersionUnsupported", "EngineProviderUnsupported",
   "ConnectionNotPublished", "ConnectionOwnerMismatch", "ConnectionPublicationUnsupported", "ConnectionReferenceMismatch",
   "ConnectorReady", "ConnectorAccessDenied", "ConnectorDeleting", "ConnectorInvalid", "ConnectorNotFound",
   "ConnectorNotReady", "ConnectorScaledToZero", "ConnectorStatusStale", "ConnectorUnavailable",
   "ContractProbeConfigurationMismatch"}

(* What is absent is no number, no reason, and no word of a spec or status. *)
ASSUME AbsentAssumption == None \notin Nat \cup Reasons \cup {"dedicated", "other", "this", "ready", "Running"}

(* Names of Secrets: "generated" is <name>-app, "derived" any other name   *)
(* an operator makes of the resource's, "system" Percona's fixed one,      *)
(* "dedicated" the application's own and "dedicated-conn-str" the name     *)
(* Percona derives from that.                                              *)

-----------------------------------------------------------------------------
(* Reads.                                                                  *)

Answers == {"ok", "denied", "failed"}

(* What a read that returned no object says. *)
readFailure(answer, object, missing) ==
  CASE answer = "denied" -> "SourceAccessDenied"
    [] answer = "failed" -> "SourceUnavailable"
    [] answer = "ok" -> IF object = None THEN missing ELSE None

-----------------------------------------------------------------------------
(* Statuses and owners.                                                    *)

(* Mutant: any generation will do. *)
current_Any(generation, resource) == TRUE

(* A generation is optional; one that is reported must be the resource's.  *)
current(generation, resource) == generation \in {None, resource.generation}

(* Exactly one condition of the type, True and not of another generation.  *)
holds(resource, type) ==
  LET conditions == resource.status.conditions
  IN  \E i \in DOMAIN conditions :
        /\ {j \in DOMAIN conditions : conditions[j].type = type} = {i}
        /\ conditions[i].status = "True" /\ current(conditions[i].generation, resource)

(* Mutant: the owner is known by its name. *)
ownedBy_Name(secret, resource, versions) ==
  \E owner \in secret.owners : owner.version \in versions /\ owner.name = resource.name

(* The Secret names this incarnation of the resource as an owner, through  *)
(* one of the API versions the adapter takes for it.                       *)
ownedBy(secret, resource, versions) ==
  \E owner \in secret.owners :
    /\ owner.version \in versions /\ owner.name = resource.name
    /\ resource.uid # None /\ owner.uid = resource.uid

=============================================================================
