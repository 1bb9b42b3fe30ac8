----------------------------- MODULE CnpgSource -----------------------------
(***************************************************************************)
(* The cnpg/v1 and cnpg-hybrid/v1 adapters over CloudNativePG Clusters     *)
(* (internal/provider/v1/cnpg.go and cnpg_hybrid.go).                      *)
(***************************************************************************)
EXTENDS Sources

cnpgMalformed(source) == ~(source.wellFormed /\ source.secret = "generated")

(* Every requested instance is ready and the primary is settled. *)
cnpgReady(cluster) ==
  /\ current(cluster.status.observed, cluster) /\ holds(cluster, "Ready")
  /\ cluster.spec.instances > 0
  /\ cluster.status.instances = cluster.spec.instances
  /\ cluster.status.readyInstances = cluster.spec.instances
  /\ cluster.status.currentPrimary # None
  /\ cluster.status.currentPrimary = cluster.status.targetPrimary

cnpgResource(source, cluster) ==
  IF cluster.deleting THEN "SourceDeleting"
  ELSE IF cluster.spec.bootstrapSecret THEN "ConnectionPublicationUnsupported"
  ELSE IF ~cnpgReady(cluster) THEN "SourceNotReady"
  ELSE None

cnpgSecret(source, cluster, secret) ==
  IF secret.deleting THEN "ConnectionNotPublished"
  ELSE IF ~ownedBy(secret, cluster, {"v1", "other"}) THEN "ConnectionOwnerMismatch"
  ELSE None

-----------------------------------------------------------------------------
(* cnpg-hybrid/v1.                                                         *)

hybridReaderSecret(secret) == secret \notin {None, "generated", "derived"}

hybridMalformed(source) == ~(source.wellFormed /\ hybridReaderSecret(source.secret))

(* spec.references: the Secrets the Cluster's spec names for bootstrap,    *)
(* superuser and certificates.                                             *)
hybridConfiguredReader(cluster, secret) == secret \notin cluster.spec.references

hybridAGEPreload(cluster) == "age" \in cluster.spec.preload

(* The image is the declared one, in use, and carries the capability. *)
hybridSourceProfile(cluster, engine) ==
  /\ ~cluster.spec.imageCatalog
  /\ engine \in {"document", "graph"}
  /\ cluster.status.image = cluster.spec.image
  /\ \/ cluster.spec.image = "plain" /\ engine = "document"
     \/ cluster.spec.image = "age" /\ (engine = "document" \/ hybridAGEPreload(cluster))

hybridResource(source, cluster) ==
  IF cluster.deleting THEN "SourceDeleting"
  ELSE IF ~hybridConfiguredReader(cluster, source.secret) THEN "SourceInvalid"
  ELSE IF ~hybridSourceProfile(cluster, source.engine) THEN "SourceProfileUnsupported"
  ELSE IF ~cnpgReady(cluster) THEN "SourceNotReady"
  ELSE None

hybridCurrentOwner(cluster, secret) == ownedBy(secret, cluster, {"v1"})

(* What the publisher says of the credential: its contract, access, the    *)
(* generation it was verified on, its user and its capability.             *)
hybridPublication(annotations, generation, engine) ==
  /\ generation > 0 /\ annotations.publication = "v1" /\ annotations.access = "read-only"
  /\ annotations.generation = generation
  /\ annotations.names /\ annotations.user = "application"
  /\ annotations.capability = (IF engine = "graph" THEN "age" ELSE "jsonb")

hybridSecret(source, cluster, secret) ==
  IF secret.deleting THEN "ConnectionNotPublished"
  ELSE IF ~hybridCurrentOwner(cluster, secret) THEN "ConnectionOwnerMismatch"
  ELSE IF ~hybridPublication(secret.annotations, cluster.generation, source.engine)
    THEN "ConnectionPublicationUnsupported"
  ELSE None

=============================================================================
