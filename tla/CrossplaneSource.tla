--------------------------- MODULE CrossplaneSource ---------------------------
(***************************************************************************)
(* The crossplane/v1 adapter (internal/provisioner/v1/observer.go).        *)
(***************************************************************************)
EXTENDS Sources

(* Scope of the referenced API as discovery reports it. *)
Mappings == {"namespaced", "cluster", "missing"}

crossplaneMalformed(source) == ~source.wellFormed

crossplaneMapping(mapping) ==
  CASE mapping = "missing" -> "SourceAPIUnavailable"
    [] mapping = "cluster" -> "SourceScopeUnsupported"
    [] mapping = "namespaced" -> None

crossplaneReady(resource) ==
  /\ current(resource.status.observed, resource)
  /\ holds(resource, "Ready") /\ holds(resource, "Synced")

(* What is found against the resource after it was read. *)
crossplaneResource(source, resource) ==
  IF resource.deleting THEN "SourceDeleting"
  ELSE IF ~crossplaneReady(resource) THEN "SourceNotReady"
  ELSE IF resource.spec.connection # source.secret \/ resource.spec.namespace \notin {None, "product"}
    THEN "ConnectionReferenceMismatch"
  ELSE None

(* What is found against the Secret after it was read. *)
crossplaneSecret(source, resource, secret) ==
  IF secret.deleting THEN "ConnectionNotPublished"
  ELSE IF ~ownedBy(secret, resource, {"v1", "other"}) THEN "ConnectionOwnerMismatch"
  ELSE None

=============================================================================
