---------------------------- MODULE PerconaSource ----------------------------
(***************************************************************************)
(* The percona-mongodb/v1 adapter (internal/provider/v1/percona.go).       *)
(***************************************************************************)
EXTENDS Sources

perconaSystemPublication == "system"

perconaMalformed(source) == ~(source.wellFormed /\ source.secret \notin {None, perconaSystemPublication})

(* The size of the one replica set; 0 where there is not exactly one that  *)
(* is named and has a positive size.                                       *)
Size(cluster) == IF Len(cluster.spec.replsets) = 1 THEN cluster.spec.replsets[1] ELSE 0

(* The operator's status agrees with the spec. *)
perconaSettled(cluster) ==
  /\ cluster.status.state = "ready" /\ current(cluster.status.observed, cluster)
  /\ cluster.status.size = Size(cluster) /\ cluster.status.ready = Size(cluster)

(* The declared profile first, then the operator's status.  spec.options:  *)
(* the unsupported options that are set, from unmanaged to externalNodes;  *)
(* spec.replsets: the sizes of the replica sets.                           *)
perconaReadiness(cluster) ==
  IF cluster.spec.crVersion # "1.23.0" THEN "SourceVersionUnsupported"
  ELSE IF cluster.spec.pause THEN "SourcePaused"
  ELSE IF cluster.uid = None \/ cluster.spec.options # {} \/ Size(cluster) = 0 THEN "SourceInvalid"
  ELSE IF cluster.status.state = "error" THEN "SourceFailed"
  ELSE IF ~perconaSettled(cluster) THEN "SourceNotReady"
  ELSE None

(* Only read roles, on databases of applications. *)
perconaReadOnlyUser(user) ==
  /\ user.name # "databaseAdmin"              \* for every name reserved for the operator
  /\ user.db \notin {None, "$external"}
  /\ user.roles # {}
  /\ \A role \in user.roles :
       role.name = "read" /\ role.db \notin {None, "admin", "local", "config", "$external"}

(* The name the operator derives for a user's connection string. *)
ConnStr(password) == IF password = "dedicated" THEN "dedicated-conn-str" ELSE None

(* The Secret is no operator's, and exactly one user, who may only read,   *)
(* has it as the password.                                                 *)
perconaApplicationPassword(cluster, secret) ==
  LET users == cluster.spec.users
      matching == {i \in DOMAIN users : users[i].password = secret}
  IN  /\ secret \notin cluster.spec.references \cup {perconaSystemPublication, "derived"}
      /\ \A i \in DOMAIN users :
           /\ users[i].name # None /\ ConnStr(users[i].password) # secret
           /\ \A j \in DOMAIN users : users[i].name = users[j].name => i = j
      /\ Cardinality(matching) = 1
      /\ \A i \in matching : perconaReadOnlyUser(users[i])

perconaResource(source, cluster) ==
  IF cluster.deleting THEN "SourceDeleting"
  ELSE IF perconaReadiness(cluster) # None THEN perconaReadiness(cluster)
  ELSE IF ~perconaApplicationPassword(cluster, source.secret) THEN "ConnectionPublicationUnsupported"
  ELSE None

perconaSecret(source, cluster, secret) ==
  IF secret.deleting THEN "ConnectionNotPublished"
  ELSE IF ~ownedBy(secret, cluster, {"v1"}) THEN "ConnectionOwnerMismatch"
  ELSE None

=============================================================================
