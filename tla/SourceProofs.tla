---------------------------- MODULE SourceProofs ----------------------------
(***************************************************************************)
(* Machine-checked theorems about SourceObservation: what it means that an *)
(* observation calls a source or a connector ready, for every selection a  *)
(* product can make and any number of incarnations, generations, reports,  *)
(* publications, failed reads and expired deadlines around the two reads.  *)
(***************************************************************************)
EXTENDS SourceObservation, FiniteSetTheorems, TLAPS

(* The objects as the cluster may hold them. *)
Reported == [spec : Declared(source), generation : Nat, health : Healths]
Objects == [uid : Nat, generation : Nat, deleting : BOOLEAN, spec : Declared(source), report : {None} \cup Reported]
Credentials == [publisher : Nat, generation : Nat, publication : Publications, deleting : BOOLEAN]

Typed ==
  /\ source \in Selections /\ style \in ReportStyles(source)
  /\ resource \in {None} \cup Objects /\ secret \in {None} \cup Credentials
  /\ uids \in Nat
  /\ pc \in {"idle", "resource", "secret", "return"}
  /\ DOMAIN seen = {"resource", "secret"}

(* The adapter found nothing against the resource it read. *)
Passed ==
  /\ ~IsConnector /\ selected /\ ~malformed
  /\ seen.resource \in Objects /\ againstResource(ResourceRead(seen.resource)) = None

(* Nor against the Secret it read after that. *)
Trusted ==
  /\ Passed
  /\ seen.secret \in Credentials
  /\ againstSecret(ResourceRead(seen.resource), SecretRead(seen.secret)) = None

(* The connector's workload passed. *)
Accepted ==
  /\ IsConnector
  /\ seen.resource \in Objects /\ workloadReason(source, ResourceRead(seen.resource)) = None

(* What an observation knows at each point; a verdict of an earlier one    *)
(* is gone once the next begins.                                           *)
Judged ==
  /\ pc = "resource" /\ ~IsConnector => selected /\ ~malformed
  /\ pc = "secret" => Passed
  /\ pc = "return" /\ found = "SourceReady" => Trusted
  /\ found # "ConnectorReady"
  /\ pc # "idle" => verdict = None
  /\ verdict = "SourceReady" => Trusted
  /\ verdict = "ConnectorReady" => Accepted

ObservationInv == Typed /\ Judged /\ LateNeverReady

-----------------------------------------------------------------------------
(* What the judgements say.                                                *)

(* A judgement is None or a reason, never the word for readiness. *)
LEMMA ReasonsRefuse ==
  ASSUME NEW r, NEW s
  PROVE  /\ source.adapter \in {"crossplane/v1", "cnpg/v1", "cnpg-hybrid/v1", "percona-mongodb/v1", "arangodb/v1"}
              => againstResource(r) \notin Ready /\ againstSecret(r, s) \notin Ready
         /\ workloadReason(source, r) \notin Ready
<1>1. None \notin Ready
  BY AbsentAssumption DEF Ready, Reasons
<1>2. /\ crossplaneResource(source, r) \notin Ready /\ crossplaneSecret(source, r, s) \notin Ready
      /\ cnpgResource(source, r) \notin Ready /\ cnpgSecret(source, r, s) \notin Ready
      /\ hybridResource(source, r) \notin Ready /\ hybridSecret(source, r, s) \notin Ready
  <2>1. crossplaneResource(source, r) \notin Ready /\ crossplaneSecret(source, r, s) \notin Ready
    BY <1>1 DEF crossplaneResource, crossplaneSecret, Ready
  <2>2. cnpgResource(source, r) \notin Ready /\ cnpgSecret(source, r, s) \notin Ready
    BY <1>1 DEF cnpgResource, cnpgSecret, Ready
  <2>3. hybridResource(source, r) \notin Ready /\ hybridSecret(source, r, s) \notin Ready
    BY <1>1 DEF hybridResource, hybridSecret, Ready
  <2> QED
    BY <2>1, <2>2, <2>3
<1>3. perconaReadiness(r) \notin Ready /\ arangoReadiness(r) \notin Ready
  BY <1>1 DEF perconaReadiness, arangoReadiness, Ready
<1>4. /\ perconaResource(source, r) \notin Ready /\ perconaSecret(source, r, s) \notin Ready
      /\ arangoResource(source, r) \notin Ready /\ arangoSecret(source, r, s) \notin Ready
  BY <1>1, <1>3 DEF perconaResource, perconaSecret, arangoResource, arangoSecret, Ready
<1>5. workloadReason(source, r) \notin Ready
  BY <1>1 DEF workloadReason, Ready
<1> QED
  BY <1>2, <1>4, <1>5 DEF againstResource, againstSecret

(* A connector is no source. *)
LEMMA SelectedAdapter ==
  ASSUME selected
  PROVE  /\ source.adapter \in {"crossplane/v1", "cnpg/v1", "cnpg-hybrid/v1", "percona-mongodb/v1", "arangodb/v1"}
         /\ source.adapter = "cnpg-hybrid/v1" => source.engine \in {"document", "graph"}
  BY DEF selected

-----------------------------------------------------------------------------
(* The invariant.                                                          *)

LEMMA InitObservation == Init => ObservationInv
<1> SUFFICES ASSUME Init PROVE ObservationInv
  OBVIOUS
<1>1. Resources \subseteq Objects
  <2> SUFFICES ASSUME NEW r \in Resources PROVE r \in Objects
    OBVIOUS
  <2>1. PICK spec \in Declared(source), health \in {None, "ready"} :
          r = [uid |-> 1, generation |-> 1, deleting |-> FALSE, spec |-> spec,
               report |-> IF health = None THEN None ELSE [spec |-> spec, generation |-> 1, health |-> health]]
    BY SMT DEF Resources
  <2>2. (IF health = None THEN None ELSE [spec |-> spec, generation |-> 1, health |-> health])
          \in {None} \cup Reported
    <3>1. health # None => [spec |-> spec, generation |-> 1, health |-> health] \in Reported
      BY DEF Reported, Healths
    <3> QED
      BY <3>1
  <2> QED
    BY <2>1, <2>2 DEF Objects
<1>2. Secrets \subseteq Credentials
  BY DEF Secrets, Credentials, Publications
<1>3. Typed
  BY <1>1, <1>2 DEF Init, Typed, Nothing
<1>4. Judged /\ LateNeverReady
  <2>1. None \notin {"SourceReady", "ConnectorReady"}
    BY AbsentAssumption DEF Reasons
  <2>2. pc = "idle" /\ found = None /\ verdict = None /\ ~late
    BY DEF Init
  <2> QED
    BY <2>1, <2>2 DEF Judged, LateNeverReady
<1> QED
  BY <1>3, <1>4 DEF ObservationInv

(* What was judged stands while the selection and what was read stand. *)
LEMMA Frame ==
  ASSUME UNCHANGED <<source, style, seen>>
  PROVE  /\ (Passed' <=> Passed) /\ (Trusted' <=> Trusted) /\ (Accepted' <=> Accepted)
         /\ Objects' = Objects /\ Reported' = Reported
         /\ IsConnector' = IsConnector /\ selected' = selected /\ malformed' = malformed
<1>1. Reported' = Reported
  BY DEF Reported
<1>2. Objects' = Objects
  BY <1>1 DEF Objects
<1>3. IsConnector' = IsConnector /\ selected' = selected /\ malformed' = malformed
  BY DEF IsConnector, selected, malformed
<1>4. ResourceRead(seen.resource)' = ResourceRead(seen.resource) /\ SecretRead(seen.secret)' = SecretRead(seen.secret)
  BY DEF ResourceRead, SecretRead
<1>5. Passed' <=> Passed
  <2>1. againstResource(ResourceRead(seen.resource))' = againstResource(ResourceRead(seen.resource))
    BY <1>4 DEF againstResource
  <2> QED
    BY <1>2, <1>3, <2>1 DEF Passed
<1>6. Trusted' <=> Trusted
  <2>1. againstSecret(ResourceRead(seen.resource), SecretRead(seen.secret))'
          = againstSecret(ResourceRead(seen.resource), SecretRead(seen.secret))
    BY <1>4 DEF againstSecret
  <2>2. (seen.secret \in Credentials)' <=> seen.secret \in Credentials
    BY DEF Credentials
  <2> QED
    BY <1>5, <2>1, <2>2 DEF Trusted
<1>7. Accepted' <=> Accepted
  BY <1>2, <1>3, <1>4 DEF Accepted
<1> QED
  BY <1>1, <1>2, <1>3, <1>5, <1>6, <1>7

(* What happens around an observation leaves what it knows alone, and the  *)
(* objects in the shape the cluster gives them.                            *)
LEMMA WorldKeepsTypes ==
  ASSUME Typed, World
  PROVE  resource' \in {None} \cup Objects /\ secret' \in {None} \cup Credentials /\ uids' \in Nat
<1>1. CASE Expire
  BY <1>1 DEF Expire, Typed
<1>2. CASE Delete
  <2>1. resource \in Objects
    BY <1>2 DEF Delete, Typed
  <2>2. [resource EXCEPT !.deleting = TRUE] \in Objects
    BY <2>1 DEF Objects
  <2>3. resource' \in {None, [resource EXCEPT !.deleting = TRUE]}
    BY <1>2 DEF Delete
  <2> QED
    BY <1>2, <2>2, <2>3 DEF Delete, Typed
<1>3. CASE Withdraw
  <2>1. secret \in Credentials
    BY <1>3 DEF Withdraw, Typed
  <2>2. [secret EXCEPT !.deleting = TRUE] \in Credentials
    BY <2>1 DEF Credentials
  <2>3. secret' \in {None, [secret EXCEPT !.deleting = TRUE]}
    BY <1>3 DEF Withdraw
  <2> QED
    BY <1>3, <2>2, <2>3 DEF Withdraw, Typed
<1>4. ASSUME NEW spec \in Supported(source), Create(spec) PROVE resource' \in Objects /\ uids' \in Nat /\ UNCHANGED secret
  <2>1. spec \in Declared(source)
    BY DEF Declared
  <2>2. uids' \in Nat
    BY <1>4 DEF Create, Typed
  <2>3. resource' = [uid |-> uids', generation |-> 1, deleting |-> FALSE, spec |-> spec, report |-> None]
    BY <1>4 DEF Create
  <2> QED
    BY <1>4, <2>1, <2>2, <2>3 DEF Create, Objects
<1>5. ASSUME NEW spec \in Declared(source), Edit(spec) PROVE resource' \in Objects /\ UNCHANGED <<uids, secret>>
  <2>1. resource \in Objects
    BY <1>5 DEF Edit, Typed
  <2>2. resource' = [resource EXCEPT !.generation = @ + 1, !.spec = spec]
    BY <1>5 DEF Edit
  <2>3. resource.generation + 1 \in Nat
    BY <2>1 DEF Objects
  <2>4. resource' \in Objects
    BY <2>1, <2>2, <2>3, Zenon DEF Objects
  <2> QED
    BY <1>5, <2>4 DEF Edit
<1>6. ASSUME NEW health \in Healths, Report(health) PROVE resource' \in Objects /\ UNCHANGED <<uids, secret>>
  <2> DEFINE report == [spec |-> resource.spec, generation |-> resource.generation, health |-> health]
  <2>1. resource \in Objects
    BY <1>6 DEF Report, Typed
  <2>2. report \in Reported
    BY <2>1 DEF Objects, Reported
  <2>3. resource' = [resource EXCEPT !.report = report]
    BY <1>6 DEF Report
  <2> HIDE DEF report
  <2> QED
    BY <1>6, <2>1, <2>2, <2>3 DEF Report, Objects
<1>7. ASSUME NEW publication \in Publications, Publish(publication)
      PROVE  secret' \in Credentials /\ UNCHANGED <<uids, resource>>
  <2>1. resource \in Objects
    BY <1>7 DEF Publish, Typed
  <2>2. secret' = [publisher |-> resource.uid, generation |-> resource.generation, publication |-> publication,
                   deleting |-> FALSE]
    BY <1>7 DEF Publish
  <2> QED
    BY <1>7, <2>1, <2>2 DEF Publish, Objects, Credentials
<1> QED
  BY <1>1, <1>2, <1>3, <1>4, <1>5, <1>6, <1>7 DEF World, Typed

LEMMA WorldStep ==
  ASSUME ObservationInv, World
  PROVE  ObservationInv'
<1>1. UNCHANGED <<source, style, found, verdict, pc, seen>>
  BY DEF World, Expire, Delete, Withdraw, Create, Edit, Report, Publish, Event
<1>2. UNCHANGED late \/ pc # "idle"
  BY DEF World, Expire, Delete, Withdraw, Create, Edit, Report, Publish
<1>3. Typed'
  BY <1>1, WorldKeepsTypes, Frame DEF ObservationInv, Typed, Credentials
<1>4. Judged'
  BY <1>1, Frame DEF ObservationInv, Judged
<1>5. LateNeverReady'
  <2>1. None \notin Ready
    BY AbsentAssumption DEF Ready, Reasons
  <2> QED
    BY <1>1, <1>2, <2>1 DEF ObservationInv, LateNeverReady, Judged, Ready
<1> QED
  BY <1>3, <1>4, <1>5 DEF ObservationInv

-----------------------------------------------------------------------------
(* The observation's own steps.                                            *)

LEMMA NoneIsNoReason == None \notin Reasons /\ None \notin Ready
  BY AbsentAssumption DEF Ready, Reasons

LEMMA BeginStep ==
  ASSUME ObservationInv, NEW mapping \in Mappings, Begin(mapping)
  PROVE  ObservationInv'
<1>1. UNCHANGED <<source, style, resource, secret, uids>> /\ seen' = Nothing /\ ~late' /\ found' # "ConnectorReady"
  BY NoneIsNoReason DEF Begin, crossplaneMapping, Mappings, Reasons
<1>2. /\ found' # "SourceReady" /\ verdict' \notin Ready
      /\ pc' \in {"idle", "resource", "return"} /\ (pc' # "idle" => verdict' = None)
  BY NoneIsNoReason DEF Begin, crossplaneMapping, Mappings, Reasons, Ready
<1>3. pc' = "resource" /\ ~IsConnector => selected /\ ~malformed
  BY NoneIsNoReason DEF Begin, Reasons
<1>4. IsConnector' = IsConnector /\ selected' = selected /\ malformed' = malformed
  BY <1>1 DEF IsConnector, selected, malformed
<1>5. Typed'
  <2>1. Objects' = Objects /\ Credentials' = Credentials
    BY <1>1 DEF Objects, Reported, Credentials
  <2> QED
    BY <1>1, <1>2, <2>1 DEF ObservationInv, Typed, Nothing
<1>6. Judged'
  BY <1>1, <1>2, <1>3, <1>4 DEF Judged, Ready
<1>7. LateNeverReady'
  BY <1>1 DEF LateNeverReady
<1> QED
  BY <1>5, <1>6, <1>7 DEF ObservationInv

LEMMA ReturnStep ==
  ASSUME ObservationInv, Return
  PROVE  ObservationInv'
<1>1. UNCHANGED <<source, style, resource, secret, uids, seen, late>> /\ pc = "return" /\ pc' = "idle" /\ found' = None
  BY DEF Return
<1>2. verdict' = IF late THEN "SourceUnavailable" ELSE found
  BY DEF Return
<1>3. Typed'
  BY <1>1, Frame DEF ObservationInv, Typed, Credentials
<1>4. Judged'
  BY <1>1, <1>2, NoneIsNoReason, Frame DEF ObservationInv, Judged, Ready
<1>5. LateNeverReady'
  BY <1>1, <1>2 DEF LateNeverReady, Ready
<1> QED
  BY <1>3, <1>4, <1>5 DEF ObservationInv

LEMMA ReadResourceStep ==
  ASSUME ObservationInv, NEW answer \in Answers, ReadResource(answer)
  PROVE  ObservationInv'
<1> DEFINE failure == readFailure(answer, resource, "SourceNotFound")
           reason == IF failure # None THEN failure ELSE againstResource(ResourceRead(resource))
<1>1. /\ UNCHANGED <<source, style, resource, secret, uids, late, verdict>>
      /\ pc = "resource" /\ ~IsConnector /\ found' = reason
      /\ pc' = (IF reason = None THEN "secret" ELSE "return")
      /\ seen' = (IF failure # None THEN seen ELSE [seen EXCEPT !.resource = resource])
  BY DEF ReadResource
<1>2. selected /\ ~malformed /\ verdict = None /\ DOMAIN seen = {"resource", "secret"}
  BY <1>1 DEF ObservationInv, Judged, Typed
<1>3. failure \notin Ready /\ (failure = None => resource \in Objects)
  BY NoneIsNoReason DEF readFailure, Answers, Ready, Reasons, ObservationInv, Typed
<1>4. reason \notin Ready
  BY <1>2, <1>3, SelectedAdapter, ReasonsRefuse
<1>5. IsConnector' = IsConnector /\ selected' = selected /\ malformed' = malformed
  BY <1>1 DEF IsConnector, selected, malformed
<1>6. Objects' = Objects /\ Credentials' = Credentials
  BY <1>1 DEF Objects, Reported, Credentials
<1>7. pc' = "secret" => Passed'
  <2> SUFFICES ASSUME pc' = "secret" PROVE Passed'
    OBVIOUS
  <2>1. failure = None /\ againstResource(ResourceRead(resource)) = None
    BY <1>1
  <2>2. seen'.resource = resource
    BY <1>1, <1>2, <2>1
  <2>3. ResourceRead(seen.resource)' = ResourceRead(resource)
    BY <1>1, <2>2 DEF ResourceRead
  <2>4. againstResource(ResourceRead(seen.resource))' = againstResource(ResourceRead(resource))
    BY <1>1, <2>3 DEF againstResource
  <2> QED
    BY <1>1, <1>2, <1>3, <1>5, <1>6, <2>1, <2>2, <2>4 DEF Passed
<1> HIDE DEF failure, reason
<1>8. Typed'
  BY <1>1, <1>2, <1>6 DEF ObservationInv, Typed
<1>9. Judged'
  BY <1>1, <1>2, <1>4, <1>7, NoneIsNoReason DEF ObservationInv, Judged, Ready
<1>10. LateNeverReady'
  BY <1>1, <1>2, NoneIsNoReason DEF LateNeverReady, Ready
<1> QED
  BY <1>8, <1>9, <1>10 DEF ObservationInv

LEMMA ReadSecretStep ==
  ASSUME ObservationInv, NEW answer \in Answers, ReadSecret(answer)
  PROVE  ObservationInv'
<1> DEFINE failure == readFailure(answer, secret, "ConnectionNotPublished")
           reason == IF failure # None THEN failure
                     ELSE againstSecret(ResourceRead(seen.resource), SecretRead(secret))
<1>1. /\ UNCHANGED <<source, style, resource, secret, uids, late, verdict>>
      /\ pc = "secret" /\ pc' = "return" /\ found' = (IF reason = None THEN "SourceReady" ELSE reason)
      /\ seen' = (IF failure # None THEN seen ELSE [seen EXCEPT !.secret = secret])
  BY DEF ReadSecret
<1>2. Passed /\ verdict = None /\ DOMAIN seen = {"resource", "secret"}
  BY <1>1 DEF ObservationInv, Judged, Typed
<1>3. failure \notin Ready /\ (failure = None => secret \in Credentials)
  BY NoneIsNoReason DEF readFailure, Answers, Ready, Reasons, ObservationInv, Typed
<1>4. reason \notin Ready
  <2>1. selected
    BY <1>2 DEF Passed
  <2> QED
    BY <1>3, <2>1, SelectedAdapter, ReasonsRefuse
<1>5. IsConnector' = IsConnector /\ selected' = selected /\ malformed' = malformed
  BY <1>1 DEF IsConnector, selected, malformed
<1>6. Objects' = Objects /\ Credentials' = Credentials
  BY <1>1 DEF Objects, Reported, Credentials
<1>7. found' = "SourceReady" => Trusted'
  <2> SUFFICES ASSUME found' = "SourceReady" PROVE Trusted'
    OBVIOUS
  <2>1. failure = None /\ againstSecret(ResourceRead(seen.resource), SecretRead(secret)) = None
    BY <1>1, <1>4 DEF Ready
  <2>2. seen'.secret = secret /\ seen'.resource = seen.resource
    BY <1>1, <1>2, <2>1
  <2>3. ResourceRead(seen.resource)' = ResourceRead(seen.resource) /\ SecretRead(seen.secret)' = SecretRead(secret)
    BY <1>1, <2>2 DEF ResourceRead, SecretRead
  <2>4. againstResource(ResourceRead(seen.resource))' = againstResource(ResourceRead(seen.resource))
    BY <1>1, <2>3 DEF againstResource
  <2>5. againstSecret(ResourceRead(seen.resource), SecretRead(seen.secret))'
          = againstSecret(ResourceRead(seen.resource), SecretRead(secret))
    BY <1>1, <2>3 DEF againstSecret
  <2>6. Passed'
    BY <1>2, <1>5, <1>6, <2>2, <2>4 DEF Passed
  <2> QED
    BY <1>3, <1>6, <2>1, <2>2, <2>5, <2>6 DEF Trusted
<1>8. found' # "ConnectorReady"
  BY <1>1, <1>4 DEF Ready
<1> HIDE DEF failure, reason
<1>9. Typed'
  BY <1>1, <1>2, <1>6 DEF ObservationInv, Typed
<1>10. Judged'
  BY <1>1, <1>2, <1>7, <1>8, NoneIsNoReason DEF Judged, Ready
<1>11. LateNeverReady'
  BY <1>1, <1>2, NoneIsNoReason DEF LateNeverReady, Ready
<1> QED
  BY <1>9, <1>10, <1>11 DEF ObservationInv

LEMMA ReadWorkloadStep ==
  ASSUME ObservationInv, NEW answer \in Answers, ReadWorkload(answer)
  PROVE  ObservationInv'
<1> DEFINE failure == CASE answer = "denied" -> "ConnectorAccessDenied"
                        [] answer = "failed" -> "ConnectorUnavailable"
                        [] answer = "ok" -> IF resource = None THEN "ConnectorNotFound"
                                            ELSE IF late THEN "ConnectorUnavailable"
                                            ELSE None
           reason == IF failure # None THEN failure ELSE workloadReason(source, ResourceRead(resource))
<1>1. /\ UNCHANGED <<source, style, resource, secret, uids, found, late>>
      /\ pc = "resource" /\ pc' = "idle" /\ IsConnector
      /\ verdict' = (IF reason = None THEN "ConnectorReady" ELSE reason)
      /\ seen' = (IF failure # None THEN seen ELSE [seen EXCEPT !.resource = resource])
  BY DEF ReadWorkload
<1>2. DOMAIN seen = {"resource", "secret"} /\ found # "ConnectorReady"
  BY DEF ObservationInv, Judged, Typed
<1>3. failure \notin Ready /\ (failure = None => resource \in Objects /\ ~late)
  BY NoneIsNoReason DEF Answers, Ready, Reasons, ObservationInv, Typed
<1>4. reason \notin Ready
  BY <1>3, ReasonsRefuse
<1>5. verdict' \in Ready => failure = None /\ workloadReason(source, ResourceRead(resource)) = None
  BY <1>1, <1>4
<1>6. verdict' # "SourceReady"
  BY <1>1, <1>4 DEF Ready
<1>7. Objects' = Objects /\ Credentials' = Credentials
  BY <1>1 DEF Objects, Reported, Credentials
<1>8. verdict' = "ConnectorReady" => Accepted'
  <2> SUFFICES ASSUME verdict' = "ConnectorReady" PROVE Accepted'
    OBVIOUS
  <2>1. failure = None /\ workloadReason(source, ResourceRead(resource)) = None
    BY <1>5 DEF Ready
  <2>2. seen'.resource = resource
    BY <1>1, <1>2, <2>1
  <2>3. UNCHANGED <<source, style, resource>> /\ IsConnector /\ resource \in Objects
    BY <1>1, <1>3, <2>1
  <2>4. ResourceRead(seen.resource)' = ResourceRead(resource)
    BY <2>2, <2>3 DEF ResourceRead
  <2>5. workloadReason(source, ResourceRead(seen.resource))' = None
    BY <2>1, <2>3, <2>4
  <2> HIDE DEF failure, reason
  <2> QED
    BY <1>7, <2>2, <2>3, <2>5 DEF Accepted, IsConnector
<1>9. late' => verdict' \notin Ready
  BY <1>1, <1>3, <1>5
<1> HIDE DEF failure, reason
<1>10. Typed'
  BY <1>1, <1>2, <1>7 DEF ObservationInv, Typed
<1>11. Judged'
  BY <1>1, <1>2, <1>6, <1>8 DEF Judged
<1> QED
  BY <1>9, <1>10, <1>11 DEF ObservationInv, LateNeverReady

(* The invariant, for the whole specification. *)
LEMMA Observed == Spec => []ObservationInv
<1>1. ASSUME ObservationInv, [Next]_vars PROVE ObservationInv'
  <2>1. CASE UNCHANGED vars
    <3>1. UNCHANGED <<source, style, resource, secret, uids, pc, seen, found, late, verdict>>
      BY <2>1 DEF vars
    <3> QED
      BY <1>1, <3>1, Frame DEF ObservationInv, Typed, Judged, LateNeverReady, Credentials
  <2>2. CASE World
    BY <1>1, <2>2, WorldStep
  <2>3. CASE Observer
    BY <1>1, <2>3, BeginStep, ReadResourceStep, ReadSecretStep, ReadWorkloadStep, ReturnStep DEF Observer
  <2> QED
    BY <1>1, <2>1, <2>2, <2>3 DEF Next
<1> QED
  BY <1>1, InitObservation, PTL DEF Spec

(* Nothing read by an observation whose deadline has passed, or whose      *)
(* caller has given up, makes a source or a connector ready.               *)
THEOREM LateIsNotReady == Spec => []LateNeverReady
<1>1. ObservationInv => LateNeverReady
  BY DEF ObservationInv
<1> QED
  BY <1>1, Observed, PTL

-----------------------------------------------------------------------------
(* What a status says of the report behind it.                             *)

(* The conditions an operator writes: one for each type, and a second,     *)
(* contradicting one where it is ambiguous.                                *)
LEMMA ConditionsWritten ==
  ASSUME NEW Types, NEW types \in Seq(Types), NEW way, NEW report
  PROVE  LET written == Conditions(types, way, report)
         IN  /\ DOMAIN written = 1..(Len(types) + (IF report.health = "ambiguous" THEN 1 ELSE 0))
             /\ \A i \in 1..Len(types) :
                  /\ written[i].type = types[i]
                  /\ written[i].status = "True" => report.health \in {"ready", "unsettled", "ambiguous"}
                  /\ way = "condition" => written[i].generation = report.generation
             /\ report.health = "ambiguous" => written[Len(types) + 1].type = "Ready"
<1> DEFINE generation == IF way = "condition" THEN report.generation ELSE None
           status == IF report.health \in {"ready", "unsettled", "ambiguous"} THEN "True" ELSE "False"
           body == [i \in DOMAIN types |-> [type |-> types[i], status |-> status, generation |-> generation]]
           last == [type |-> "Ready", status |-> "False", generation |-> generation]
           more == IF report.health = "ambiguous" THEN <<last>> ELSE <<>>
           written == Conditions(types, way, report)
<1>1. written = body \o more
  BY DEF Conditions
<1>2. status = "True" => report.health \in {"ready", "unsettled", "ambiguous"}
  OBVIOUS
<1>3. way = "condition" => generation = report.generation
  OBVIOUS
<1> DEFINE Entries == {body[i] : i \in DOMAIN types} \cup {last}
<1>4. body \in Seq(Entries) /\ Len(body) = Len(types)
  <2>1. DOMAIN types = 1..Len(types) /\ Len(types) \in Nat
    OBVIOUS
  <2>2. body \in [1..Len(types) -> Entries]
    BY <2>1
  <2> HIDE DEF body, Entries
  <2> QED
    BY <2>1, <2>2
<1>5. \A i \in 1..Len(types) : body[i].type = types[i] /\ body[i].status = status /\ body[i].generation = generation
  OBVIOUS
<1>6. last.type = "Ready" /\ last \in Entries
  OBVIOUS
<1> HIDE DEF body, last, Entries, generation, status, written
<1>7. CASE report.health = "ambiguous"
  <2>1. written = body \o <<last>> /\ <<last>> \in Seq(Entries) /\ Len(<<last>>) = 1
    BY <1>1, <1>6, <1>7
  <2>2. DOMAIN written = 1..(Len(types) + 1)
    BY <1>4, <2>1
  <2>3. written[Len(types) + 1] = last
    BY <1>4, <2>1
  <2>4. \A i \in 1..Len(types) : written[i] = body[i]
    BY <1>4, <2>1
  <2> QED
    BY <1>2, <1>3, <1>5, <1>6, <1>7, <2>2, <2>3, <2>4 DEF written
<1>8. CASE report.health # "ambiguous"
  <2>1. written = body
    BY <1>1, <1>4, <1>8
  <2>2. DOMAIN written = 1..Len(types)
    BY <1>4, <2>1
  <2> QED
    BY <1>2, <1>3, <1>5, <1>8, <2>1, <2>2 DEF written
<1> QED
  BY <1>7, <1>8

(* An unambiguous Ready condition: the operator reports no failure, and,   *)
(* where it says so in the condition, means this generation.               *)
LEMMA ReadyHeld ==
  ASSUME NEW Types, NEW types \in Seq(Types), NEW way, NEW report, report.generation \in Nat,
         NEW n \in 1..Len(types), types[n] = "Ready",
         NEW r, r.status.conditions = Conditions(types, way, report), holds(r, "Ready"), report.health \in Healths
  PROVE  /\ report.health \in {"ready", "unsettled"}
         /\ way = "condition" => report.generation = r.generation
<1> DEFINE written == Conditions(types, way, report)
<1>1. PICK i \in DOMAIN written :
        /\ {j \in DOMAIN written : written[j].type = "Ready"} = {i}
        /\ written[i].status = "True" /\ current(written[i].generation, r)
  BY DEF holds
<1>2. /\ DOMAIN written = 1..(Len(types) + (IF report.health = "ambiguous" THEN 1 ELSE 0))
      /\ \A j \in 1..Len(types) :
           /\ written[j].type = types[j]
           /\ written[j].status = "True" => report.health \in {"ready", "unsettled", "ambiguous"}
           /\ way = "condition" => written[j].generation = report.generation
      /\ report.health = "ambiguous" => written[Len(types) + 1].type = "Ready"
  BY ConditionsWritten
<1> HIDE DEF written
<1>3. Len(types) \in Nat
  OBVIOUS
<1>4. i = n
  BY <1>1, <1>2, <1>3
<1>5. report.health # "ambiguous"
  BY <1>1, <1>2, <1>3, <1>4
<1>6. report.health \in {"ready", "unsettled"}
  BY <1>1, <1>2, <1>4, <1>5
<1>7. way = "condition" => report.generation = r.generation
  BY <1>1, <1>2, <1>4, AbsentAssumption DEF current
<1> QED
  BY <1>6, <1>7

(* A condition the operator does not write does not hold. *)
LEMMA HeldIsWritten ==
  ASSUME NEW Types, NEW types \in Seq(Types), NEW way, NEW report,
         NEW r, r.status.conditions = Conditions(types, way, report), report.health # "ambiguous",
         NEW type, \A i \in 1..Len(types) : types[i] # type
  PROVE  ~holds(r, type)
<1> SUFFICES ASSUME holds(r, type) PROVE FALSE
  OBVIOUS
<1> DEFINE written == Conditions(types, way, report)
<1>1. PICK i \in DOMAIN written : {j \in DOMAIN written : written[j].type = type} = {i}
  BY DEF holds
<1>2. Len(types) \in Nat
  OBVIOUS
<1>3. DOMAIN written = 1..Len(types) /\ \A j \in 1..Len(types) : written[j].type = types[j]
  BY ConditionsWritten, <1>2
<1> HIDE DEF written
<1> QED
  BY <1>1, <1>3

-----------------------------------------------------------------------------
(* What each adapter's consent means.                                      *)

(* ReadyIsCurrent, of a resource. *)
Current(r) ==
  /\ ~r.deleting /\ r.spec \in Supported(source)
  /\ r.report # None /\ r.report.health = "ready"
  /\ style # "nowhere" \/ IsConnector => r.report.generation = r.generation
  /\ source.adapter = "arangodb/v1" => r.report.spec = r.spec

LEMMA ReadFields ==
  ASSUME NEW r \in Objects
  PROVE  /\ ResourceRead(r).uid = r.uid /\ ResourceRead(r).generation = r.generation
         /\ ResourceRead(r).deleting = r.deleting /\ ResourceRead(r).spec = r.spec
         /\ ResourceRead(r).name = "source"
         /\ r.report = None => ResourceRead(r).status = Unreported(source)
         /\ r.report # None => ResourceRead(r).status = Status(source, style, r.report)
         /\ r.uid \in Nat /\ r.generation \in Nat /\ r.deleting \in BOOLEAN /\ r.spec \in Declared(source)
         /\ r.report # None => r.report \in Reported
<1>1. r.report # None => r.report \in Reported
  BY DEF Objects
<1> QED
  BY <1>1 DEF ResourceRead, Objects

(* Nothing holds of a resource no operator has reported on. *)
LEMMA NothingHolds ==
  ASSUME NEW r, r.status.conditions = <<>>, NEW type
  PROVE  ~holds(r, type)
  BY DEF holds

LEMMA CrossplaneCurrent ==
  ASSUME source \in Selections, style \in ReportStyles(source), source.adapter = "crossplane/v1", ~malformed,
         NEW r \in Objects, againstResource(ResourceRead(r)) = None
  PROVE  Current(r)
<1> DEFINE read == ResourceRead(r)
<1>1. /\ ~read.deleting /\ crossplaneReady(read) /\ read.spec.connection = source.secret
      /\ read.spec.namespace \in {None, "product"}
  BY AbsentAssumption DEF againstResource, crossplaneResource, Reasons
<1>2. source.secret # None
  BY SelectionsAssumption DEF malformed, crossplaneMalformed
<1>3. r.spec \in Supported(source)
  BY <1>1, <1>2, ReadFields, AbsentAssumption DEF Declared, Unsupported
<1>4. current(read.status.observed, read) /\ holds(read, "Ready") /\ holds(read, "Synced")
  BY <1>1 DEF crossplaneReady
<1>5. r.report # None
  <2>1. r.report = None => read.status.conditions = <<>>
    BY ReadFields DEF Unreported
  <2> QED
    BY <1>4, <2>1, NothingHolds
<1>6. r.report.generation \in Nat /\ r.report.health \in Healths
  BY <1>5, ReadFields DEF Reported
<1> DEFINE types == IF r.report.health = "unsettled" THEN <<"Ready">> ELSE <<"Synced", "Ready">>
<1>7. /\ read.status.conditions = Conditions(types, style, r.report)
      /\ read.status.observed = (IF style = "status" THEN r.report.generation ELSE None)
  <2>1. read.status = ResourceStatus(style, r.report)
    BY <1>5, ReadFields DEF Status
  <2> QED
    BY <2>1 DEF ResourceStatus, Generation
<1>8. types \in Seq({"Synced", "Ready"}) /\ Len(types) \in 1..Len(types) /\ types[Len(types)] = "Ready"
  <2>1. CASE r.report.health = "unsettled"
    BY <2>1
  <2>2. CASE r.report.health # "unsettled"
    BY <2>2
  <2> QED
    BY <2>1, <2>2
<1>9. /\ r.report.health \in {"ready", "unsettled"}
      /\ style = "condition" => r.report.generation = r.generation
  <2> HIDE DEF types, read
  <2> QED
    BY <1>4, <1>6, <1>7, <1>8, ReadyHeld, ReadFields DEF read
<1>10. r.report.health # "unsettled"
  <2> SUFFICES ASSUME r.report.health = "unsettled" PROVE FALSE
    OBVIOUS
  <2>1. read.status.conditions = Conditions(<<"Ready">>, style, r.report) /\ r.report.health # "ambiguous"
    BY <1>7
  <2>2. <<"Ready">> \in Seq({"Ready"})
    OBVIOUS
  <2> HIDE DEF types, read
  <2>3. \A i \in 1..Len(<<"Ready">>) : <<"Ready">>[i] # "Synced"
    OBVIOUS
  <2> QED
    BY <1>4, <2>1, <2>2, <2>3, HeldIsWritten
<1>11. style = "status" => r.report.generation = r.generation
  BY <1>4, <1>6, <1>7, ReadFields, AbsentAssumption DEF current
<1>12. style \in {"nowhere", "status", "condition"} /\ ~IsConnector
  BY DEF ReportStyles, Styles, IsConnector
<1> QED
  BY <1>1, <1>3, <1>5, <1>9, <1>10, <1>11, <1>12, ReadFields DEF Current

(* What cnpgReady says of a Cluster, for both adapters over it. *)
LEMMA ClusterReady ==
  ASSUME source.adapter \in {"cnpg/v1", "cnpg-hybrid/v1"}, style \in ReportStyles(source),
         NEW r \in Objects, cnpgReady(ResourceRead(r))
  PROVE  /\ r.report # None /\ r.report.health = "ready" /\ r.spec.instances > 0
         /\ style # "nowhere" => r.report.generation = r.generation
<1> DEFINE read == ResourceRead(r)
<1>1. /\ current(read.status.observed, read) /\ holds(read, "Ready") /\ r.spec.instances > 0
      /\ read.status.currentPrimary = read.status.targetPrimary
  BY ReadFields DEF cnpgReady
<1>2. r.report # None
  <2>1. r.report = None => read.status.conditions = <<>>
    BY ReadFields DEF Unreported
  <2> QED
    BY <1>1, <2>1, NothingHolds
<1>3. r.report.generation \in Nat /\ r.report.health \in Healths
  BY <1>2, ReadFields DEF Reported
<1>4. read.status = ClusterStatus(style, r.report)
  BY <1>2, ReadFields DEF Status
<1>5. /\ read.status.conditions = Conditions(<<"Ready">>, style, r.report)
      /\ read.status.observed = (IF style = "status" THEN r.report.generation ELSE None)
      /\ read.status.currentPrimary = "first"
      /\ read.status.targetPrimary = (IF r.report.health = "ready" THEN "first" ELSE "second")
  BY <1>4 DEF ClusterStatus, Generation, Healthy
<1> DEFINE types == <<"Ready">>
<1>6. types \in Seq({"Ready"}) /\ 1 \in 1..Len(types) /\ types[1] = "Ready"
  OBVIOUS
<1>7. style = "condition" => r.report.generation = r.generation
  <2>1. read.status.conditions = Conditions(types, style, r.report) /\ read.generation = r.generation
    BY <1>5, ReadFields
  <2> HIDE DEF read, types
  <2> QED
    BY <1>1, <1>3, <1>6, <2>1, ReadyHeld
<1>8. style = "status" => r.report.generation = r.generation
  BY <1>1, <1>3, <1>5, ReadFields, AbsentAssumption DEF current
<1>9. r.report.health = "ready"
  BY <1>1, <1>5
<1>10. style \in {"nowhere", "status", "condition"}
  BY DEF ReportStyles, Styles
<1> QED
  BY <1>1, <1>2, <1>7, <1>8, <1>9, <1>10

LEMMA CnpgCurrent ==
  ASSUME style \in ReportStyles(source), source.adapter = "cnpg/v1",
         NEW r \in Objects, againstResource(ResourceRead(r)) = None
  PROVE  Current(r)
<1>1. ~r.deleting /\ ~r.spec.bootstrapSecret /\ cnpgReady(ResourceRead(r))
  BY ReadFields, AbsentAssumption DEF againstResource, cnpgResource, Reasons
<1>2. /\ r.report # None /\ r.report.health = "ready" /\ r.spec.instances > 0
      /\ style # "nowhere" => r.report.generation = r.generation
  BY <1>1, ClusterReady
<1>3. r.spec \in Supported(source)
  <2>1. r.spec \in Supported(source) \/ r.spec \in {[Cluster EXCEPT !.bootstrapSecret = TRUE], [Cluster EXCEPT !.instances = 0]}
    BY ReadFields DEF Declared, Unsupported
  <2>2. r.spec # [Cluster EXCEPT !.bootstrapSecret = TRUE]
    BY <1>1 DEF Cluster
  <2>3. r.spec # [Cluster EXCEPT !.instances = 0]
    BY <1>2 DEF Cluster
  <2> QED
    BY <2>1, <2>2, <2>3
<1> QED
  BY <1>1, <1>2, <1>3 DEF Current, IsConnector

LEMMA HybridCurrent ==
  ASSUME style \in ReportStyles(source), source.adapter = "cnpg-hybrid/v1", source.engine \in {"document", "graph"},
         NEW r \in Objects, againstResource(ResourceRead(r)) = None
  PROVE  Current(r) /\ source.secret \notin r.spec.references
<1> DEFINE read == ResourceRead(r)
<1>1. /\ ~r.deleting /\ hybridConfiguredReader(read, source.secret)
      /\ hybridSourceProfile(read, source.engine) /\ cnpgReady(read)
  BY ReadFields, AbsentAssumption DEF againstResource, hybridResource, Reasons
<1>2. /\ r.report # None /\ r.report.health = "ready"
      /\ style # "nowhere" => r.report.generation = r.generation
  BY <1>1, ClusterReady
<1>3. source.secret \notin r.spec.references
  BY <1>1, ReadFields DEF hybridConfiguredReader
<1>4. /\ ~r.spec.imageCatalog
      /\ \/ r.spec.image = "plain" /\ source.engine = "document"
         \/ r.spec.image = "age" /\ (source.engine = "document" \/ "age" \in r.spec.preload)
  BY <1>1, ReadFields DEF hybridSourceProfile, hybridAGEPreload
<1>5. r.spec \in Supported(source)
  <2>1. \/ r.spec \in Supported(source)
        \/ r.spec \in {[Cluster EXCEPT !.references = {source.secret}], [Cluster EXCEPT !.imageCatalog = TRUE],
                      [Plain EXCEPT !.image = "other"]}
        \/ source.engine = "graph" /\ r.spec \in {Plain, [Cluster EXCEPT !.preload = {}]}
    BY ReadFields DEF Declared, Unsupported
  <2>2. /\ [Cluster EXCEPT !.references = {source.secret}].references = {source.secret}
        /\ [Cluster EXCEPT !.imageCatalog = TRUE].imageCatalog
        /\ [Plain EXCEPT !.image = "other"].image = "other"
        /\ Plain.image = "plain" /\ [Cluster EXCEPT !.preload = {}].preload = {}
    BY DEF Cluster, Plain
  <2>3. [Cluster EXCEPT !.preload = {}].image = "age"
    BY DEF Cluster
  <2> QED
    BY <1>3, <1>4, <2>1, <2>2, <2>3
<1> QED
  BY <1>1, <1>2, <1>3, <1>5 DEF Current, IsConnector

(* A user with write access never has the Secret that perconaApplicationPassword takes. *)
LEMMA PasswordReadOnly ==
  ASSUME NEW cluster, NEW name, perconaApplicationPassword(cluster, name)
  PROVE  /\ name \notin cluster.spec.references \cup {"system", "derived"}
         /\ cluster.spec.users # <<Writer>> /\ cluster.spec.users # <<Reader, Writer>>
<1> DEFINE users == cluster.spec.users
           matching == {i \in DOMAIN users : users[i].password = name}
<1>1. /\ name \notin cluster.spec.references \cup {"system", "derived"}
      /\ Cardinality(matching) = 1
      /\ \A i \in matching : perconaReadOnlyUser(users[i])
  BY DEF perconaApplicationPassword, perconaSystemPublication
<1>2. matching # {}
  <2> HIDE DEF matching
  <2> QED
    BY <1>1, FS_EmptySet
<1>3. PICK i \in DOMAIN users : users[i].password = name
  BY <1>2
<1>4. Writer.roles = {[name |-> "readWrite", db |-> "app"]} /\ Writer.password = Reader.password
  BY DEF Writer, Reader
<1>5. ~perconaReadOnlyUser(Writer)
  BY <1>4 DEF perconaReadOnlyUser
<1>6. ASSUME users = <<Writer>> PROVE FALSE
  <2>1. 1 \in matching /\ users[1] = Writer
    BY <1>3, <1>6
  <2> HIDE DEF users, matching
  <2> QED
    BY <1>1, <1>5, <2>1
<1>7. ASSUME users = <<Reader, Writer>> PROVE FALSE
  <2>1. 2 \in matching /\ users[2] = Writer
    BY <1>3, <1>4, <1>7
  <2> HIDE DEF users, matching
  <2> QED
    BY <1>1, <1>5, <2>1
<1> QED
  BY <1>1, <1>6, <1>7

LEMMA PerconaCurrent ==
  ASSUME style \in ReportStyles(source), source.adapter = "percona-mongodb/v1",
         NEW r \in Objects, againstResource(ResourceRead(r)) = None
  PROVE  Current(r) /\ source.secret \notin r.spec.references \cup {"system", "derived"}
<1> DEFINE read == ResourceRead(r)
<1>1. ~r.deleting /\ perconaReadiness(read) = None /\ perconaApplicationPassword(read, source.secret)
  BY ReadFields, AbsentAssumption DEF againstResource, perconaResource, Reasons
<1>2. /\ r.spec.crVersion = "1.23.0" /\ ~r.spec.pause /\ r.spec.options = {}
      /\ Size(read) # 0 /\ perconaSettled(read)
  BY <1>1, ReadFields, AbsentAssumption DEF perconaReadiness, Reasons
<1>3. /\ source.secret \notin r.spec.references \cup {"system", "derived"}
      /\ r.spec.users # <<Writer>> /\ r.spec.users # <<Reader, Writer>>
  BY <1>1, ReadFields, PasswordReadOnly
<1>4. /\ read.status.state = "ready" /\ current(read.status.observed, read)
      /\ read.status.ready = Size(read)
  BY <1>2 DEF perconaSettled
<1>5. r.report # None
  <2>1. r.report = None => read.status.state = None
    BY ReadFields DEF Unreported
  <2> QED
    BY <1>4, <2>1, AbsentAssumption
<1>6. r.report.generation \in Nat
  BY <1>5, ReadFields DEF Reported
<1>7. read.status = MongoStatus(style, r.report)
  BY <1>5, ReadFields DEF Status
<1>8. r.report.health = "ready"
  BY <1>2, <1>4, <1>7 DEF MongoStatus, Counted, Healthy
<1>9. style # "nowhere" => r.report.generation = r.generation
  <2>1. style \in {"nowhere", "status"}
    BY DEF ReportStyles
  <2>2. style = "status" => read.status.observed = r.report.generation
    BY <1>7 DEF MongoStatus, Generation
  <2> QED
    BY <1>4, <1>6, <2>1, <2>2, ReadFields, AbsentAssumption DEF current
<1>10. r.spec \in Supported(source)
  <2>1. \/ r.spec \in Supported(source)
        \/ r.spec \in {[Mongo EXCEPT !.pause = TRUE], [Mongo EXCEPT !.crVersion = "1.22.0"],
                      [Mongo EXCEPT !.options = {"sharding"}]}
        \/ r.spec \in {[Mongo EXCEPT !.replsets = <<1, 1>>], [Mongo EXCEPT !.references = {source.secret}]}
        \/ r.spec \in {[Mongo EXCEPT !.users = <<Writer>>], [Mongo EXCEPT !.users = <<Reader, Writer>>]}
    BY ReadFields DEF Declared, Unsupported
  <2>2. /\ r.spec # [Mongo EXCEPT !.pause = TRUE] /\ r.spec # [Mongo EXCEPT !.crVersion = "1.22.0"]
        /\ r.spec # [Mongo EXCEPT !.options = {"sharding"}]
    BY <1>2 DEF Mongo
  <2>3. r.spec # [Mongo EXCEPT !.replsets = <<1, 1>>]
    <3>1. ASSUME r.spec.replsets = <<1, 1>> PROVE FALSE
      BY <1>2, <3>1, ReadFields DEF Size
    <3> QED
      BY <3>1 DEF Mongo
  <2>4. r.spec # [Mongo EXCEPT !.references = {source.secret}]
    BY <1>3 DEF Mongo
  <2>5. r.spec # [Mongo EXCEPT !.users = <<Writer>>] /\ r.spec # [Mongo EXCEPT !.users = <<Reader, Writer>>]
    BY <1>3 DEF Mongo
  <2> QED
    BY <2>1, <2>2, <2>3, <2>4, <2>5
<1> QED
  BY <1>1, <1>3, <1>5, <1>8, <1>9, <1>10 DEF Current, IsConnector

LEMMA ArangoCurrent ==
  ASSUME style \in ReportStyles(source), source.adapter = "arangodb/v1",
         NEW r \in Objects, againstResource(ResourceRead(r)) = None
  PROVE  Current(r) /\ source.secret \notin r.spec.references \cup {"derived"}
<1> DEFINE read == ResourceRead(r)
<1>1. ~r.deleting /\ arangoReadiness(read) = None /\ ~arangoOperatorSecret(read, source.secret)
  BY ReadFields, AbsentAssumption DEF againstResource, arangoResource, Reasons
<1>2. /\ arangoSupportedImage(r.spec.image) /\ arangoSingle(r.spec)
      /\ \A spec \in {r.spec, read.status.acceptedSpec} \ {None} : spec.users \ {"root"} = {}
      /\ read.status.phase # "Failed" /\ arangoApplied(read)
  BY <1>1, ReadFields, AbsentAssumption DEF arangoReadiness, Reasons
<1>3. /\ read.status.acceptedVersion = arangoSpecChecksum(r.spec) /\ read.status.phase = "Running"
      /\ read.status.acceptedSpec # None /\ arangoConditions(read.status.conditions, ArangoRequired)
      /\ ~read.status.members[1].busy
  BY <1>2, ReadFields DEF arangoApplied
<1>4. r.report # None
  <2>1. r.report = None => read.status.phase = None
    BY ReadFields DEF Unreported
  <2> QED
    BY <1>3, <2>1, AbsentAssumption
<1>5. r.report.health \in Healths
  BY <1>4, ReadFields DEF Reported
<1> DEFINE types == <<"Ready", "SpecAccepted", "UpToDate", "BootstrapCompleted", "BootstrapSucceeded">>
<1>6. /\ read.status.acceptedSpec = r.report.spec /\ read.status.acceptedVersion = OperatorChecksum(r.report.spec)
      /\ read.status.phase = (IF r.report.health = "failed" THEN "Failed" ELSE "Running")
      /\ read.status.conditions = Conditions(types, style, r.report)
      /\ read.status.members[1].busy = (r.report.health # "ready")
  <2>1. read.status = ArangoStatus(style, r.report)
    BY <1>4, ReadFields DEF Status
  <2> QED
    BY <2>1 DEF ArangoStatus, Healthy
<1>7. r.report.spec = r.spec
  <2>1. OperatorChecksum(r.report.spec).spec = r.report.spec
    BY DEF OperatorChecksum
  <2>2. arangoSpecChecksum(r.spec).spec = r.spec
    BY DEF arangoSpecChecksum, Encoded
  <2> QED
    BY <1>3, <1>6, <2>1, <2>2
<1>8. r.report.health = "ready"
  BY <1>3, <1>6
<1>9. r.spec # None
  BY <1>3, <1>6, <1>7
<1>10. r.spec.users \ {"root"} = {}
  BY <1>2, <1>9
<1>11. source.secret # "derived" /\ source.secret \notin r.spec.references
  BY <1>1, <1>9, ReadFields DEF arangoOperatorSecret
<1>12. r.spec \in Supported(source)
  <2>1. \/ r.spec \in Supported(source)
        \/ r.spec \in {[Arango EXCEPT !.image = "other"], [Arango EXCEPT !.authenticated = FALSE]}
        \/ r.spec \in {[Arango EXCEPT !.users = {"root", "app"}], [Arango EXCEPT !.references = {source.secret}]}
    BY ReadFields DEF Declared, Unsupported
  <2>2. r.spec # [Arango EXCEPT !.image = "other"]
    BY <1>2 DEF Arango, arangoSupportedImage
  <2>3. r.spec # [Arango EXCEPT !.authenticated = FALSE]
    BY <1>2 DEF Arango, arangoSingle
  <2>4. r.spec # [Arango EXCEPT !.users = {"root", "app"}]
    BY <1>10 DEF Arango
  <2>5. r.spec # [Arango EXCEPT !.references = {source.secret}]
    BY <1>11 DEF Arango
  <2> QED
    BY <2>1, <2>2, <2>3, <2>4, <2>5
<1>13. style = "nowhere"
  BY DEF ReportStyles
<1> QED
  BY <1>1, <1>4, <1>7, <1>8, <1>11, <1>12, <1>13 DEF Current, IsConnector

LEMMA WorkloadCurrent ==
  ASSUME source \in Selections, source.adapter = "deployment/v1",
         NEW r \in Objects, workloadReason(source, ResourceRead(r)) = None
  PROVE  Current(r)
<1> DEFINE read == ResourceRead(r)
<1>1. /\ ~r.deleting /\ (source.target # None => matchesContractProbe(read, source.target))
      /\ desired(read) # 0 /\ r.generation # 0 /\ read.status.observed = r.generation /\ rolledOut(read)
  BY ReadFields, AbsentAssumption DEF workloadReason, Reasons
<1>2. r.report # None
  <2>1. r.report = None => read.status.observed = 0
    BY ReadFields DEF Unreported
  <2> QED
    BY <1>1, <2>1
<1> DEFINE n == IF r.report.spec.replicas = None THEN 1 ELSE r.report.spec.replicas
<1>3. read.status.observed = r.report.generation /\ read.status.ready = (IF r.report.health = "ready" THEN n ELSE 0)
  <2>1. read.status = WorkloadStatus(r.report)
    BY <1>2, ReadFields DEF Status
  <2> QED
    BY <2>1 DEF WorkloadStatus, Counted, Healthy
<1>4. r.report.health = "ready"
  BY <1>1, <1>3 DEF rolledOut
<1>5. r.spec.replicas # 0
  BY <1>1, ReadFields, AbsentAssumption DEF desired
<1>6. source.target # None =>
        r.spec.probe.urls = <<source.target>> /\ r.spec.probe.flags = <<"true">> /\ source.target = "this"
  BY <1>1, ReadFields, SelectionsAssumption DEF matchesContractProbe
<1>7. r.spec \in Supported(source)
  <2>1. \/ r.spec \in Supported(source)
        \/ r.spec = [Workload EXCEPT !.replicas = 0]
        \/ source.target # None /\ r.spec \in {[Workload EXCEPT !.probe.urls = <<"another">>],
                                             [Workload EXCEPT !.probe.urls = <<"this", "this">>],
                                             [Workload EXCEPT !.probe.flags = <<>>]}
    BY ReadFields DEF Declared, Unsupported
  <2>2. r.spec # [Workload EXCEPT !.replicas = 0]
    BY <1>5 DEF Workload
  <2>3. /\ [Workload EXCEPT !.probe.urls = <<"another">>].probe.urls = <<"another">>
        /\ [Workload EXCEPT !.probe.urls = <<"this", "this">>].probe.urls = <<"this", "this">>
        /\ [Workload EXCEPT !.probe.flags = <<>>].probe.flags = <<>>
    BY DEF Workload, Probe
  <2>4. <<"another">> # <<"this">> /\ <<"this", "this">> # <<"this">> /\ <<>> # <<"true">>
    OBVIOUS
  <2> QED
    BY <1>6, <2>1, <2>2, <2>3, <2>4
<1> QED
  BY <1>1, <1>2, <1>3, <1>4, <1>7 DEF Current

(* Every adapter that passes a resource has found it current. *)
LEMMA PassedIsCurrent ==
  ASSUME Typed, Passed
  PROVE  Current(seen.resource)
<1>1. /\ source \in Selections /\ style \in ReportStyles(source) /\ selected /\ ~malformed
      /\ seen.resource \in Objects /\ againstResource(ResourceRead(seen.resource)) = None
  BY DEF Typed, Passed
<1> QED
  BY <1>1, SelectedAdapter, CrossplaneCurrent, CnpgCurrent, HybridCurrent, PerconaCurrent, ArangoCurrent

(* The owner that an adapter accepts is the incarnation it read. *)
LEMMA OwnerIsRead ==
  ASSUME NEW r \in Objects, NEW s \in Credentials, NEW versions, ownedBy(SecretRead(s), ResourceRead(r), versions)
  PROVE  /\ s.publisher = r.uid /\ s.publication # "unowned"
         /\ s.publication = "converted" => "other" \in versions
<1>1. SecretRead(s).owners = Owners(s) /\ ResourceRead(r).uid = r.uid
  BY ReadFields DEF SecretRead
<1>2. PICK owner \in Owners(s) : owner.version \in versions /\ owner.uid = r.uid
  BY <1>1 DEF ownedBy
<1>3. s.publication # "unowned"
  BY <1>2 DEF Owners
<1>4. owner = [version |-> IF s.publication = "converted" THEN "other" ELSE "v1", name |-> "source", uid |-> s.publisher]
  BY <1>2, <1>3 DEF Owners
<1>5. owner.uid = s.publisher /\ (s.publication = "converted" => owner.version = "other")
  BY <1>4
<1> QED
  BY <1>2, <1>3, <1>5

(* Every adapter that trusts a Secret has found it published for the       *)
(* incarnation it read, and as its contract asks.                          *)
LEMMA TrustedIsPublished ==
  ASSUME Typed, Trusted
  PROVE  /\ ~seen.secret.deleting /\ seen.secret.publisher = seen.resource.uid
         /\ source.adapter \in {"cnpg-hybrid/v1", "arangodb/v1"} => seen.secret.publication = "valid"
         /\ source.adapter = "cnpg-hybrid/v1" => seen.secret.generation = seen.resource.generation
<1> DEFINE r == seen.resource
           s == seen.secret
           read == SecretRead(s)
<1>1. r \in Objects /\ s \in Credentials /\ againstSecret(ResourceRead(r), read) = None /\ selected
  BY DEF Trusted, Passed
<1>2. /\ read.deleting = s.deleting /\ read.annotations = Annotations(source, s)
      /\ s.publication \in {"valid", "converted", "elevated", "writable", "unowned"}
  BY <1>1 DEF SecretRead, Credentials, Publications
<1>3. /\ read.annotations.access = "read-only" => s.publication # "writable"
      /\ read.annotations.user = "application" => s.publication # "elevated"
      /\ read.annotations.generation = s.generation
  BY <1>2 DEF Annotations
<1>4. ResourceRead(r).generation = r.generation
  BY <1>1, ReadFields
<1> HIDE DEF r, s, read
<1>5. CASE source.adapter = "crossplane/v1"
  <2>1. ~read.deleting /\ ownedBy(read, ResourceRead(r), {"v1", "other"})
    BY <1>1, <1>5, AbsentAssumption DEF againstSecret, crossplaneSecret, Reasons
  <2> QED
    BY <1>1, <1>2, <1>5, <2>1, OwnerIsRead DEF r, s, read
<1>6. CASE source.adapter = "cnpg/v1"
  <2>1. ~read.deleting /\ ownedBy(read, ResourceRead(r), {"v1", "other"})
    BY <1>1, <1>6, AbsentAssumption DEF againstSecret, cnpgSecret, Reasons
  <2> QED
    BY <1>1, <1>2, <1>6, <2>1, OwnerIsRead DEF r, s, read
<1>7. CASE source.adapter = "percona-mongodb/v1"
  <2>1. ~read.deleting /\ ownedBy(read, ResourceRead(r), {"v1"})
    BY <1>1, <1>7, AbsentAssumption DEF againstSecret, perconaSecret, Reasons
  <2> QED
    BY <1>1, <1>2, <1>7, <2>1, OwnerIsRead DEF r, s, read
<1>8. CASE source.adapter = "cnpg-hybrid/v1"
  <2>1. /\ ~read.deleting /\ hybridCurrentOwner(ResourceRead(r), read)
        /\ hybridPublication(read.annotations, ResourceRead(r).generation, source.engine)
    BY <1>1, <1>8, AbsentAssumption DEF againstSecret, hybridSecret, Reasons
  <2>2. ownedBy(read, ResourceRead(r), {"v1"})
    BY <2>1 DEF hybridCurrentOwner
  <2>3. /\ read.annotations.access = "read-only" /\ read.annotations.user = "application"
        /\ read.annotations.generation = r.generation
    BY <1>4, <2>1 DEF hybridPublication
  <2>4. s.publisher = r.uid /\ s.publication \notin {"unowned", "converted"}
    BY <1>1, <2>2, OwnerIsRead DEF read
  <2> QED
    BY <1>2, <1>3, <1>8, <2>1, <2>3, <2>4 DEF r, s
<1>9. CASE source.adapter = "arangodb/v1"
  <2>1. ~read.deleting /\ arangoPublication(read.annotations) /\ ownedBy(read, ResourceRead(r), {"v1"})
    BY <1>1, <1>9, AbsentAssumption DEF againstSecret, arangoSecret, Reasons
  <2>2. read.annotations.access = "read-only" /\ read.annotations.user = "application"
    BY <2>1 DEF arangoPublication
  <2>3. s.publisher = r.uid /\ s.publication \notin {"unowned", "converted"}
    BY <1>1, <2>1, OwnerIsRead DEF read
  <2> QED
    BY <1>2, <1>3, <1>9, <2>1, <2>2, <2>3 DEF r, s
<1> QED
  BY <1>1, <1>5, <1>6, <1>7, <1>8, <1>9, SelectedAdapter

(* No adapter passes a Secret the operator keeps for itself. *)
LEMMA PassedIsApplications ==
  ASSUME Typed, Passed
  PROVE  source.secret \notin OperatorSecrets(source, seen.resource.spec)
<1> DEFINE r == seen.resource
<1>1. /\ source \in Selections /\ style \in ReportStyles(source) /\ selected /\ ~malformed
      /\ r \in Objects /\ againstResource(ResourceRead(r)) = None
  BY DEF Typed, Passed
<1>2. CASE source.adapter = "crossplane/v1"
  <2>1. r.spec.connection = source.secret /\ r.spec \in Supported(source)
    BY <1>1, <1>2, ReadFields, CrossplaneCurrent, AbsentAssumption
       DEF againstResource, crossplaneResource, Reasons, Current
  <2>2. source.secret = "dedicated"
    BY <1>2, <2>1 DEF Supported
  <2> QED
    BY <1>2, <2>2 DEF OperatorSecrets
<1>3. CASE source.adapter = "cnpg/v1"
  BY <1>1, <1>3 DEF malformed, cnpgMalformed, OperatorSecrets
<1>4. CASE source.adapter = "cnpg-hybrid/v1"
  <2>1. source.secret \notin r.spec.references
    BY <1>1, <1>4, HybridCurrent, SelectedAdapter
  <2>2. source.secret # "derived"
    BY <1>1, <1>4 DEF malformed, hybridMalformed, hybridReaderSecret
  <2> QED
    BY <1>4, <2>1, <2>2 DEF OperatorSecrets
<1>5. CASE source.adapter = "percona-mongodb/v1"
  BY <1>1, <1>5, PerconaCurrent DEF OperatorSecrets
<1>6. CASE source.adapter = "arangodb/v1"
  BY <1>1, <1>6, ArangoCurrent DEF OperatorSecrets
<1> QED
  BY <1>1, <1>2, <1>3, <1>4, <1>5, <1>6, SelectedAdapter

-----------------------------------------------------------------------------
(* However the two reads of an observation interleave with deletion,       *)
(* re-creation, edits and publication, the credential of a source that is  *)
(* called ready was published for the incarnation whose readiness was      *)
(* judged, and is not the operator's own; the hybrid adapter's was         *)
(* verified on the very generation.                                        *)
THEOREM ReadyIsOneSource == Spec => []ReadyMeansOneSource
<1>1. ObservationInv => ReadyMeansOneSource
  <2> SUFFICES ASSUME ObservationInv, verdict = "SourceReady" PROVE ReadyMeansOneSource
    BY DEF ReadyMeansOneSource
  <2>1. Typed /\ Trusted /\ Passed
    BY DEF ObservationInv, Judged, Trusted
  <2> QED
    BY <2>1, TrustedIsPublished, PassedIsApplications DEF ReadyMeansOneSource
<1> QED
  BY <1>1, Observed, PTL

(* A source or connector is called ready only while its operator reports   *)
(* a supported declaration healthy, and, where the operator says which     *)
(* declaration it means, the one that was read beside the report.          *)
THEOREM ReadyOnlyCurrent == Spec => []ReadyIsCurrent
<1>1. ObservationInv => ReadyIsCurrent
  <2> SUFFICES ASSUME ObservationInv, verdict \in Ready PROVE Current(seen.resource)
    BY DEF ReadyIsCurrent, Current
  <2>1. CASE verdict = "SourceReady"
    BY <2>1, PassedIsCurrent DEF ObservationInv, Judged, Trusted
  <2>2. CASE verdict = "ConnectorReady"
    <3>1. Accepted /\ source \in Selections
      BY <2>2 DEF ObservationInv, Judged, Typed
    <3> QED
      BY <3>1, WorkloadCurrent DEF Accepted, IsConnector
  <2> QED
    BY <2>1, <2>2 DEF Ready
<1> QED
  BY <1>1, Observed, PTL

=============================================================================
