-------------------------- MODULE SourceObservation --------------------------
(***************************************************************************)
(* The observation of a product's source or connector: Registry.Observe in *)
(* internal/provider/v1/provider.go with the adapter it selects, and       *)
(* Deployment.observe in internal/connector/v1/observer.go.                *)
(*                                                                         *)
(* An observation reads the resource, judges it, reads the Secret, judges  *)
(* that and returns.  Users, operators and publishers act between the two  *)
(* reads, the reads may fail, and the deadline may pass at any point.      *)
(* Reconciliation repeats observations; each starts afresh.                *)
(***************************************************************************)
EXTENDS CrossplaneSource, CnpgSource, PerconaSource, ArangoSource, ConnectorWorkload, SourceWorld

CONSTANTS
  Selections,    \* what a product's spec may select
  MaxUid,        \* bound on the incarnations of the resource
  MaxGeneration, \* bound on the generations of one incarnation
  MaxEvents      \* bound on what happens around the observations

(* A reference that is well formed names a Secret; the one contract that a *)
(* workload may be the probe of is "this".                                 *)
ASSUME SelectionsAssumption ==
  /\ Selections \subseteq
       [adapter : {"crossplane/v1", "cnpg/v1", "cnpg-hybrid/v1", "percona-mongodb/v1", "arangodb/v1", "deployment/v1"},
        engine : {None, "sql", "document", "graph"}, provider : {None, "native", "cnpg-hybrid"},
        wellFormed : BOOLEAN, target : {None, "this"},
        secret : {None, "generated", "derived", "system", "dedicated", "dedicated-conn-str"}]
  /\ \A selection \in Selections : selection.wellFormed => selection.secret # None

VARIABLES
  source,    \* the selection
  style,     \* where the operator reports generations
  resource,  \* the resource: None or [uid, generation, deleting, spec, report]
  secret,    \* the Secret: None or [publisher, generation, publication, deleting]
  uids,      \* incarnations made so far
  events,    \* what may still happen around the observations
  pc,        \* where the observation stands
  seen,      \* what it has read: [resource, secret]
  found,     \* the reason it is about to return
  late,      \* its context is done
  verdict    \* the reason the last observation returned, None while one is under way

world == <<source, style, resource, secret, uids, events>>
vars == <<source, style, resource, secret, uids, events, pc, seen, found, late, verdict>>

Ready == {"SourceReady", "ConnectorReady"}
Nothing == [resource |-> None, secret |-> None]
IsConnector == source.adapter = "deployment/v1"

-----------------------------------------------------------------------------
(* What the adapter is given.                                              *)

(* A read of the resource. *)
ResourceRead(r) ==
  [name |-> "source", uid |-> r.uid, generation |-> r.generation, deleting |-> r.deleting, spec |-> r.spec,
   status |-> IF r.report = None THEN Unreported(source) ELSE Status(source, style, r.report)]

(* A read of the Secret's metadata. *)
SecretRead(s) == [deleting |-> s.deleting, owners |-> Owners(s), annotations |-> Annotations(source, s)]

(* The selections that some adapter serves. *)
selected ==
  LET selection == <<source.adapter, source.engine, source.provider>>
  IN  \/ selection \in {<<"crossplane/v1", None, None>>, <<"cnpg/v1", "sql", "native">>,
                        <<"percona-mongodb/v1", "document", "native">>, <<"arangodb/v1", "graph", "native">>}
      \/ selection \in {"cnpg-hybrid/v1"} \X {"document", "graph"} \X {"cnpg-hybrid"}

malformed ==
  CASE source.adapter = "crossplane/v1" -> crossplaneMalformed(source)
    [] source.adapter = "cnpg/v1" -> cnpgMalformed(source)
    [] source.adapter = "cnpg-hybrid/v1" -> hybridMalformed(source)
    [] source.adapter = "percona-mongodb/v1" -> perconaMalformed(source)
    [] source.adapter = "arangodb/v1" -> arangoMalformed(source)

againstResource(r) ==
  CASE source.adapter = "crossplane/v1" -> crossplaneResource(source, r)
    [] source.adapter = "cnpg/v1" -> cnpgResource(source, r)
    [] source.adapter = "cnpg-hybrid/v1" -> hybridResource(source, r)
    [] source.adapter = "percona-mongodb/v1" -> perconaResource(source, r)
    [] source.adapter = "arangodb/v1" -> arangoResource(source, r)

againstSecret(r, s) ==
  CASE source.adapter = "crossplane/v1" -> crossplaneSecret(source, r, s)
    [] source.adapter = "cnpg/v1" -> cnpgSecret(source, r, s)
    [] source.adapter = "cnpg-hybrid/v1" -> hybridSecret(source, r, s)
    [] source.adapter = "percona-mongodb/v1" -> perconaSecret(source, r, s)
    [] source.adapter = "arangodb/v1" -> arangoSecret(source, r, s)

-----------------------------------------------------------------------------
(* The observation.                                                        *)

(* An answer other than ok is one of the events. *)
Answered(answer) ==
  IF answer \in {"ok", "namespaced"} THEN UNCHANGED events ELSE events > 0 /\ events' = events - 1

(* Dispatch, validation of the references and, for crossplane/v1, the      *)
(* lookup of the API, before anything is read.                             *)
Begin(mapping) ==
  /\ pc = "idle"
  /\ mapping # "namespaced" => source.adapter = "crossplane/v1" /\ selected /\ ~malformed
  /\ Answered(mapping)
  /\ seen' = Nothing /\ late' = FALSE
  /\ LET refused == IF IsConnector /\ workloadMalformed(source) THEN "ConnectorInvalid"
                    ELSE IF ~IsConnector /\ ~selected THEN "EngineProviderUnsupported"
                    ELSE None
         against == IF IsConnector THEN None
                    ELSE IF malformed THEN "SourceInvalid"
                    ELSE crossplaneMapping(mapping)
     IN  \/ /\ refused # None
            /\ pc' = "idle" /\ found' = None /\ verdict' = refused
         \/ /\ refused = None
            /\ pc' = IF against = None THEN "resource" ELSE "return"
            /\ found' = against /\ verdict' = None
  /\ UNCHANGED <<source, style, resource, secret, uids>>

(* The adapter reads the resource and judges it. *)
ReadResource(answer) ==
  /\ pc = "resource" /\ ~IsConnector /\ Answered(answer)
  /\ LET failure == readFailure(answer, resource, "SourceNotFound")
         reason == IF failure # None THEN failure ELSE againstResource(ResourceRead(resource))
     IN  /\ found' = reason
         /\ pc' = IF reason = None THEN "secret" ELSE "return"
         /\ seen' = IF failure # None THEN seen ELSE [seen EXCEPT !.resource = resource]
  /\ UNCHANGED <<source, style, resource, secret, uids, late, verdict>>

(* The adapter reads the Secret's metadata and judges it against the       *)
(* resource it read before.                                                *)
ReadSecret(answer) ==
  /\ pc = "secret" /\ Answered(answer)
  /\ LET failure == readFailure(answer, secret, "ConnectionNotPublished")
         reason == IF failure # None THEN failure
                   ELSE againstSecret(ResourceRead(seen.resource), SecretRead(secret))
     IN  /\ found' = IF reason = None THEN "SourceReady" ELSE reason
         /\ seen' = IF failure # None THEN seen ELSE [seen EXCEPT !.secret = secret]
  /\ pc' = "return"
  /\ UNCHANGED <<source, style, resource, secret, uids, late, verdict>>

(* Mutant: what the adapter found is returned, however late. *)
Return_Late ==
  /\ pc = "return" /\ pc' = "idle" /\ found' = None /\ verdict' = found
  /\ UNCHANGED <<source, style, resource, secret, uids, events, seen, late>>

(* Registry.Observe looks at its context once the adapter has returned. *)
Return ==
  /\ pc = "return" /\ pc' = "idle" /\ found' = None
  /\ verdict' = IF late THEN "SourceUnavailable" ELSE found
  /\ UNCHANGED <<source, style, resource, secret, uids, events, seen, late>>

(* A connector: one read, the deadline, and the judgement. *)
ReadWorkload(answer) ==
  /\ pc = "resource" /\ IsConnector /\ Answered(answer)
  /\ LET failure == CASE answer = "denied" -> "ConnectorAccessDenied"
                      [] answer = "failed" -> "ConnectorUnavailable"
                      [] answer = "ok" -> IF resource = None THEN "ConnectorNotFound"
                                          ELSE IF late THEN "ConnectorUnavailable"
                                          ELSE None
         reason == IF failure # None THEN failure ELSE workloadReason(source, ResourceRead(resource))
     IN  /\ verdict' = IF reason = None THEN "ConnectorReady" ELSE reason
         /\ seen' = IF failure # None THEN seen ELSE [seen EXCEPT !.resource = resource]
  /\ pc' = "idle"
  /\ UNCHANGED <<source, style, resource, secret, uids, found, late>>

-----------------------------------------------------------------------------
(* What happens around it.                                                 *)

Event == events > 0 /\ events' = events - 1 /\ UNCHANGED <<source, style, found, verdict, pc, seen>>

(* The deadline passes, or the caller gives up. *)
Expire == pc # "idle" /\ ~late /\ late' = TRUE /\ Event /\ UNCHANGED <<resource, secret, uids>>

Create(spec) ==
  /\ resource = None /\ uids < MaxUid /\ uids' = uids + 1
  /\ resource' = [uid |-> uids', generation |-> 1, deleting |-> FALSE, spec |-> spec, report |-> None]
  /\ Event /\ UNCHANGED <<secret, late>>

Edit(spec) ==
  /\ resource # None /\ spec # resource.spec /\ resource.generation < MaxGeneration
  /\ {spec, resource.spec} \cap Supported(source) # {}
  /\ resource' = [resource EXCEPT !.generation = @ + 1, !.spec = spec]
  /\ Event /\ UNCHANGED <<secret, uids, late>>

(* The resource is deleted: marked first where it has finalizers. *)
Delete ==
  /\ resource # None
  /\ resource' \in ({None} \cup (IF resource.deleting THEN {} ELSE {[resource EXCEPT !.deleting = TRUE]}))
  /\ Event /\ UNCHANGED <<secret, uids, late>>

Report(health) ==
  /\ resource # None
  /\ LET report == [spec |-> resource.spec, generation |-> resource.generation, health |-> health]
     IN  report # resource.report /\ resource' = [resource EXCEPT !.report = report]
  /\ Event /\ UNCHANGED <<secret, uids, late>>

Publish(publication) ==
  /\ resource # None /\ ~IsConnector
  /\ secret' = [publisher |-> resource.uid, generation |-> resource.generation, publication |-> publication,
                deleting |-> FALSE]
  /\ secret' # secret
  /\ Event /\ UNCHANGED <<resource, uids, late>>

Withdraw ==
  /\ secret # None
  /\ secret' \in ({None} \cup (IF secret.deleting THEN {} ELSE {[secret EXCEPT !.deleting = TRUE]}))
  /\ Event /\ UNCHANGED <<resource, uids, late>>

-----------------------------------------------------------------------------
Resources ==
  {[uid |-> 1, generation |-> 1, deleting |-> FALSE, spec |-> spec,
    report |-> IF health = None THEN None ELSE [spec |-> spec, generation |-> 1, health |-> health]] :
     spec \in Declared(source), health \in {None, "ready"}}

Secrets == {[publisher |-> 1, generation |-> 1, publication |-> "valid", deleting |-> FALSE]}

Init ==
  /\ source \in Selections
  /\ style \in ReportStyles(source)
  /\ resource \in {None} \cup Resources
  /\ secret \in {None} \cup (IF IsConnector THEN {} ELSE Secrets)
  /\ uids = 1 /\ events = MaxEvents
  /\ pc = "idle" /\ seen = Nothing /\ found = None /\ late = FALSE /\ verdict = None

Observer ==
  \/ \E mapping \in Mappings : Begin(mapping)
  \/ \E answer \in Answers : ReadResource(answer) \/ ReadSecret(answer) \/ ReadWorkload(answer)
  \/ Return

World ==
  \/ Expire \/ Delete \/ Withdraw
  \/ \E spec \in Supported(source) : Create(spec)
  \/ \E spec \in Declared(source) : Edit(spec)
  \/ \E health \in Healths : Report(health)
  \/ \E publication \in Publications : Publish(publication)

Next == Observer \/ World

(* The controller requeues a product, and each read has a deadline. *)
Spec == Init /\ [][Next]_vars /\ WF_vars(Observer)

-----------------------------------------------------------------------------
(* Properties.                                                             *)

(* Although the resource and the Secret are read at different moments, and *)
(* the resource may be deleted and made again in between, the credential   *)
(* of a source that is called ready was published for the incarnation      *)
(* whose readiness was judged, and is not one of the operator's own.  The  *)
(* hybrid adapter's is also one verified on the very generation.           *)
ReadyMeansOneSource ==
  verdict = "SourceReady" =>
    /\ ~seen.secret.deleting /\ seen.secret.publisher = seen.resource.uid
    /\ source.secret \notin OperatorSecrets(source, seen.resource.spec)
    /\ source.adapter \in {"cnpg-hybrid/v1", "arangodb/v1"} => seen.secret.publication = "valid"
    /\ source.adapter = "cnpg-hybrid/v1" => seen.secret.generation = seen.resource.generation

(* A source or connector is called ready only on the operator's word that  *)
(* a supported declaration is healthy, and, where the operator says which  *)
(* one it means, the declaration that was read beside that word.           *)
ReadyIsCurrent ==
  verdict \in Ready =>
    LET r == seen.resource
    IN  /\ ~r.deleting /\ r.spec \in Supported(source)
        /\ r.report # None /\ r.report.health = "ready"
        /\ style # "nowhere" \/ IsConnector => r.report.generation = r.generation
        /\ source.adapter = "arangodb/v1" => r.report.spec = r.spec

(* Nothing read by an observation that has run out of time is believed. *)
LateNeverReady == late => verdict \notin Ready

(* The source as its operator and its publisher should leave it. *)
Settled ==
  /\ source.wellFormed /\ resource # None /\ ~resource.deleting /\ resource.spec \in Supported(source)
  /\ resource.report = [spec |-> resource.spec, generation |-> resource.generation, health |-> "ready"]
  /\ \/ IsConnector
     \/ /\ selected /\ secret # None /\ ~secret.deleting
        /\ source.secret = (IF source.adapter = "cnpg/v1" THEN "generated" ELSE "dedicated")
        /\ secret.publisher = resource.uid /\ secret.publication = "valid"
        /\ source.adapter = "cnpg-hybrid/v1" => secret.generation = resource.generation

(* A source that settles is reported ready, and stays so: no adapter asks  *)
(* for something a healthy operator never reports.                         *)
SettledSourceReady ==
  <>[]Settled => <>[](verdict \in Ready \cup {None}) /\ []<>(verdict \in Ready)

=============================================================================
