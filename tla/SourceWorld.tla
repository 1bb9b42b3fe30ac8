----------------------------- MODULE SourceWorld -----------------------------
(***************************************************************************)
(* The independently operated objects the adapters look at, as far as they *)
(* look: what users declare, what operators report of it, and what         *)
(* publishers say of a credential.  None of this is the repository's code. *)
(*                                                                         *)
(* A report is the fact behind a status: the spec and generation an        *)
(* operator has worked on, and how they fare.  An operator puts it into    *)
(* the status in its own way, with the generation in the status, in each   *)
(* condition, or nowhere (style).                                          *)
(***************************************************************************)
EXTENDS Sources

Healths == {"ready", "unsettled", "failed", "ambiguous"}
Styles == {"nowhere", "status", "condition"}

ReportStyles(source) ==
  CASE source.adapter \in {"crossplane/v1", "cnpg/v1"} -> Styles
    [] source.adapter \in {"cnpg-hybrid/v1", "percona-mongodb/v1"} -> {"nowhere", "status"}
    [] OTHER -> {"nowhere"}

-----------------------------------------------------------------------------
(* Declarations: the ones the adapters support, and others.                *)

Cluster == [bootstrapSecret |-> FALSE, instances |-> 1, references |-> {}, imageCatalog |-> FALSE,
            image |-> "age", preload |-> {"age"}]
Plain == [Cluster EXCEPT !.image = "plain", !.preload = {}]

Reader == [name |-> "reader", db |-> "app", roles |-> {[name |-> "read", db |-> "app"]}, password |-> "dedicated"]
Writer == [Reader EXCEPT !.name = "writer", !.roles = {[name |-> "readWrite", db |-> "app"]}]
Mongo == [crVersion |-> "1.23.0", pause |-> FALSE, options |-> {}, replsets |-> <<1>>, references |-> {},
          users |-> <<Reader>>]

Arango == [image |-> "tag", single |-> 1, authenticated |-> TRUE, users |-> {"root"}, references |-> {},
           claims |-> [single |-> None, agents |-> None]]

Probe == [command |-> TRUE, get |-> TRUE, urls |-> <<"this">>, flags |-> <<"true">>]
Workload == [replicas |-> None, probe |-> Probe]

(* The declarations on which a source of this kind can be ready. *)
Supported(source) ==
  CASE source.adapter = "crossplane/v1" ->
         {[connection |-> "dedicated", namespace |-> ns] : ns \in {None, "product"}}
    [] source.adapter = "cnpg/v1" -> {Cluster, [Cluster EXCEPT !.instances = 2]}
    [] source.adapter = "cnpg-hybrid/v1" /\ source.engine = "document" -> {Cluster, Plain}
    [] source.adapter = "cnpg-hybrid/v1" /\ source.engine = "graph" -> {Cluster}
    [] source.adapter = "percona-mongodb/v1" -> {Mongo, [Mongo EXCEPT !.replsets = <<2>>]}
    [] source.adapter = "arangodb/v1" ->
         {Arango, [Arango EXCEPT !.image = "digest", !.claims = [single |-> "unset", agents |-> "set"]]}
    [] source.adapter = "deployment/v1" -> {Workload, [Workload EXCEPT !.replicas = 2]}

Unsupported(source) ==
  CASE source.adapter = "crossplane/v1" ->
         {[connection |-> None, namespace |-> None], [connection |-> "dedicated", namespace |-> "other"]}
    [] source.adapter = "cnpg/v1" -> {[Cluster EXCEPT !.bootstrapSecret = TRUE], [Cluster EXCEPT !.instances = 0]}
    [] source.adapter = "cnpg-hybrid/v1" ->
         {[Cluster EXCEPT !.references = {source.secret}], [Cluster EXCEPT !.imageCatalog = TRUE],
          [Plain EXCEPT !.image = "other"]}
         \cup (IF source.engine = "graph" THEN {Plain, [Cluster EXCEPT !.preload = {}]} ELSE {})
    [] source.adapter = "percona-mongodb/v1" ->
         {[Mongo EXCEPT !.pause = TRUE], [Mongo EXCEPT !.crVersion = "1.22.0"], [Mongo EXCEPT !.options = {"sharding"}],
          [Mongo EXCEPT !.replsets = <<1, 1>>], [Mongo EXCEPT !.references = {source.secret}],
          [Mongo EXCEPT !.users = <<Writer>>], [Mongo EXCEPT !.users = <<Reader, Writer>>]}
    [] source.adapter = "arangodb/v1" ->
         {[Arango EXCEPT !.image = "other"], [Arango EXCEPT !.authenticated = FALSE],
          [Arango EXCEPT !.users = {"root", "app"}], [Arango EXCEPT !.references = {source.secret}]}
    [] source.adapter = "deployment/v1" ->
         {[Workload EXCEPT !.replicas = 0]}
         \cup (IF source.target = None THEN {} ELSE
               {[Workload EXCEPT !.probe.urls = <<"another">>], [Workload EXCEPT !.probe.urls = <<"this", "this">>],
                [Workload EXCEPT !.probe.flags = <<>>]})

Declared(source) == Supported(source) \cup Unsupported(source)

(* The Secrets a declaration leaves to the operator. *)
OperatorSecrets(source, spec) ==
  {"derived"}
  \cup (IF source.adapter = "percona-mongodb/v1" THEN {"system"} ELSE {})
  \cup (IF source.adapter \in {"cnpg-hybrid/v1", "percona-mongodb/v1", "arangodb/v1"} THEN spec.references ELSE {})

-----------------------------------------------------------------------------
(* Statuses.                                                               *)

Conditions(types, style, report) ==
  LET Condition(type, status) ==
        [type |-> type, status |-> status, generation |-> IF style = "condition" THEN report.generation ELSE None]
      good == report.health \in {"ready", "unsettled", "ambiguous"}
  IN  [i \in DOMAIN types |-> Condition(types[i], IF good THEN "True" ELSE "False")]
      \o (IF report.health = "ambiguous" THEN <<Condition("Ready", "False")>> ELSE <<>>)

(* The checksum by which the operator knows a spec it has accepted. *)
OperatorChecksum(spec) ==
  [spec |-> spec,
   metadata |-> [g \in DOMAIN spec.claims |-> IF spec.claims[g] = "unset" THEN "null" ELSE spec.claims[g]]]

(* A style's place for the generation, beside the conditions. *)
Generation(style, report) == IF style = "status" THEN report.generation ELSE None

Healthy(report) == report.health = "ready"

Counted(report, n) == IF Healthy(report) THEN n ELSE 0

ResourceStatus(style, report) ==
  [observed |-> Generation(style, report),
   conditions |-> Conditions(IF report.health = "unsettled" THEN <<"Ready">> ELSE <<"Synced", "Ready">>, style, report)]

ClusterStatus(style, report) ==
  [observed |-> Generation(style, report), conditions |-> Conditions(<<"Ready">>, style, report),
   instances |-> report.spec.instances, readyInstances |-> report.spec.instances,
   currentPrimary |-> "first", targetPrimary |-> IF Healthy(report) THEN "first" ELSE "second",
   image |-> report.spec.image]

MongoStatus(style, report) ==
  [observed |-> Generation(style, report), size |-> report.spec.replsets[1],
   ready |-> Counted(report, report.spec.replsets[1]),
   state |-> CASE report.health = "failed" -> "error" [] report.health = "ambiguous" -> "initializing"
               [] OTHER -> "ready"]

ArangoStatus(style, report) ==
  LET image == [image |-> report.spec.image, enterprise |-> report.spec.image = "digest"]
  IN  [phase |-> IF report.health = "failed" THEN "Failed" ELSE "Running", failed |-> FALSE,
       acceptedSpec |-> report.spec, acceptedVersion |-> OperatorChecksum(report.spec),
       appliedVersion |-> OperatorChecksum(report.spec), busy |-> FALSE, currentImage |-> image,
       conditions |-> Conditions(<<"Ready", "SpecAccepted", "UpToDate", "BootstrapCompleted",
                                   "BootstrapSucceeded">>, style, report),
       members |-> <<[created |-> TRUE, image |-> image, busy |-> ~Healthy(report),
                      conditions |-> Conditions(<<"Ready">>, style, report)]>>]

WorkloadStatus(report) ==
  LET n == IF report.spec.replicas = None THEN 1 ELSE report.spec.replicas
  IN  [observed |-> report.generation, replicas |-> n, updated |-> n, ready |-> Counted(report, n),
       available |-> Counted(report, n), unavailable |-> n - Counted(report, n)]

Status(source, style, report) ==
  CASE source.adapter = "crossplane/v1" -> ResourceStatus(style, report)
    [] source.adapter \in {"cnpg/v1", "cnpg-hybrid/v1"} -> ClusterStatus(style, report)
    [] source.adapter = "percona-mongodb/v1" -> MongoStatus(style, report)
    [] source.adapter = "arangodb/v1" -> ArangoStatus(style, report)
    [] source.adapter = "deployment/v1" -> WorkloadStatus(report)

(* The status of a resource no operator has reported on. *)
Unreported(source) ==
  CASE source.adapter \in {"crossplane/v1"} -> [observed |-> None, conditions |-> <<>>]
    [] source.adapter \in {"cnpg/v1", "cnpg-hybrid/v1"} ->
         [observed |-> None, conditions |-> <<>>, instances |-> 0, readyInstances |-> 0,
          currentPrimary |-> None, targetPrimary |-> None, image |-> None]
    [] source.adapter = "percona-mongodb/v1" -> [observed |-> None, size |-> 0, ready |-> 0, state |-> None]
    [] source.adapter = "arangodb/v1" ->
         [phase |-> None, failed |-> FALSE, acceptedSpec |-> None, acceptedVersion |-> None, appliedVersion |-> None,
          busy |-> FALSE, currentImage |-> None, conditions |-> <<>>, members |-> <<>>]
    [] source.adapter = "deployment/v1" ->
         [observed |-> 0, replicas |-> 0, updated |-> 0, ready |-> 0, available |-> 0, unavailable |-> 0]

-----------------------------------------------------------------------------
(* Publications: as the contract asks (through the API version the adapter *)
(* names, or converted from another), with an operator's user, with write  *)
(* access, or without an owner.                                            *)
Publications == {"valid", "converted", "elevated", "writable", "unowned"}

Annotations(source, secret) ==
  [publication |-> "v1", generation |-> secret.generation, names |-> TRUE,
   access |-> IF secret.publication = "writable" THEN "read-write" ELSE "read-only",
   user |-> IF secret.publication = "elevated" THEN "operator" ELSE "application",
   capability |-> IF source.engine = "graph" THEN "age" ELSE "jsonb"]

Owners(secret) ==
  IF secret.publication = "unowned" THEN {}
  ELSE {[version |-> IF secret.publication = "converted" THEN "other" ELSE "v1",
         name |-> "source", uid |-> secret.publisher]}

=============================================================================
