---------------------------- MODULE ArangoSource ----------------------------
(***************************************************************************)
(* The arangodb/v1 adapter (internal/provider/v1/arango.go and             *)
(* arango_checksum.go).                                                    *)
(***************************************************************************)
EXTENDS Sources

arangoMalformed(source) == ~source.wellFormed

arangoSupportedImage(image) == image \in {"tag", "digest"}

-----------------------------------------------------------------------------
(* The checksum of a spec.                                                 *)

(* How a library writes the metadata of a volume claim template that sets  *)
(* no creation time ("unset"); one that is set is written as it is.        *)
Encoded(spec, unset) ==
  [spec |-> spec,
   metadata |-> [g \in DOMAIN spec.claims |-> IF spec.claims[g] = "unset" THEN unset ELSE spec.claims[g]]]

(* Mutant: the spec is hashed as this program's libraries write it. *)
arangoSpecChecksum_Native(spec) == Encoded(spec, "omitted")

(* The fragments of this program's libraries are replaced, group by group  *)
(* and everywhere, by those of the operator's.                             *)
arangoSpecChecksum(spec) ==
  LET native == Encoded(spec, "omitted")
      legacy == Encoded(spec, "null")
  IN  [native EXCEPT !.metadata =
         [h \in DOMAIN @ |->
            IF \E g \in DOMAIN @ : spec.claims[g] # None /\ native.metadata[g] = native.metadata[h]
            THEN legacy.metadata[h] ELSE @[h]]]

-----------------------------------------------------------------------------
(* Readiness.                                                              *)

arangoCurrentImage(image, expected) ==
  image # None /\ image.image = expected /\ image.enterprise = (expected = "digest")

(* No type twice, and each required one True. *)
arangoConditions(conditions, required) ==
  /\ \A i, j \in DOMAIN conditions :
       /\ conditions[i].status \in {"True", "False"}
       /\ conditions[i].type = conditions[j].type => i = j
  /\ \A type \in required :
       \E i \in DOMAIN conditions : conditions[i].type = type /\ conditions[i].status = "True"

ArangoRequired == {"Ready", "SpecAccepted", "UpToDate", "BootstrapCompleted", "BootstrapSucceeded"}

(* The profile both the spec and the accepted spec must show. *)
arangoSingle(spec) == spec.single = 1 /\ spec.authenticated

(* The operator has accepted and applied the very spec that was read, and  *)
(* its one member runs it.  busy: an update, upgrade or restart is going   *)
(* on or pending.                                                          *)
arangoApplied(d) ==
  LET accepted == d.status.acceptedSpec
      checksum == arangoSpecChecksum(d.spec)
      members == d.status.members
  IN  /\ d.status.acceptedVersion = checksum /\ d.status.appliedVersion = checksum
      /\ d.status.phase = "Running"
      /\ accepted # None /\ arangoSingle(accepted) /\ accepted.image = d.spec.image
      /\ ~d.status.busy /\ arangoConditions(d.status.conditions, ArangoRequired)
      /\ arangoCurrentImage(d.status.currentImage, d.spec.image)
      /\ Len(members) = 1
      /\ members[1].created /\ members[1].image = d.status.currentImage /\ ~members[1].busy
      /\ arangoConditions(members[1].conditions, {"Ready"})

arangoReadiness(d) ==
  IF ~arangoSupportedImage(d.spec.image) THEN "SourceVersionUnsupported"
  ELSE IF \/ ~arangoSingle(d.spec)
          \/ \E spec \in {d.spec, d.status.acceptedSpec} \ {None} : spec.users \ {"root"} # {}
    THEN "SourceInvalid"
  ELSE IF d.status.phase = "Failed" \/ d.status.failed THEN "SourceFailed"
  ELSE IF ~arangoApplied(d) THEN "SourceNotReady"
  ELSE None

-----------------------------------------------------------------------------
(* The credential.                                                         *)

(* Derived names, and those the spec or the accepted spec gives to JWT, TLS,*)
(* license, encryption, registry and bootstrap Secrets.                    *)
arangoOperatorSecret(d, name) ==
  \/ name = "derived"
  \/ \E spec \in {d.spec, d.status.acceptedSpec} \ {None} : name \in spec.references

arangoPublication(annotations) ==
  /\ annotations.publication = "v1" /\ annotations.access = "read-only"
  /\ annotations.names /\ annotations.user = "application"

arangoResource(source, d) ==
  IF d.deleting THEN "SourceDeleting"
  ELSE IF d.uid = None THEN "SourceInvalid"
  ELSE IF arangoReadiness(d) # None THEN arangoReadiness(d)
  ELSE IF arangoOperatorSecret(d, source.secret) THEN "ConnectionPublicationUnsupported"
  ELSE None

arangoSecret(source, d, secret) ==
  IF secret.deleting THEN "ConnectionNotPublished"
  ELSE IF ~arangoPublication(secret.annotations) THEN "ConnectionPublicationUnsupported"
  ELSE IF ~ownedBy(secret, d, {"v1"}) THEN "ConnectionOwnerMismatch"
  ELSE None

=============================================================================
