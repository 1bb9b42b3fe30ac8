-------------------------- MODULE ConnectorWorkload --------------------------
(***************************************************************************)
(* The deployment/v1 adapter (internal/connector/v1/observer.go): one      *)
(* Deployment, read once, must be fully rolled out and, where it is the    *)
(* probe of a contract, configured for that contract.                      *)
(***************************************************************************)
EXTENDS Sources

workloadMalformed(ref) == ~ref.wellFormed

(* The contract-probe container runs the probe and nothing else (command), *)
(* its readiness is GET /readyz on port 8081 (get), and each of its two    *)
(* variables is given once, as a literal: this contract's URL and true.    *)
matchesContractProbe(workload, target) ==
  LET probe == workload.spec.probe
  IN  /\ probe # None /\ probe.command /\ probe.get
      /\ probe.urls = <<target>> /\ probe.flags = <<"true">>

(* The spec may leave the number of replicas to its default. *)
desired(workload) == IF workload.spec.replicas = None THEN 1 ELSE workload.spec.replicas

(* Every desired replica is updated, ready and available, and none is left. *)
rolledOut(workload) ==
  /\ \A count \in {"replicas", "updated", "ready", "available"} : workload.status[count] = desired(workload)
  /\ workload.status.unavailable = 0

(* What is found against the Deployment after it was read; ref.target is   *)
(* the URL of the contract it probes, None for a connector.                *)
workloadReason(ref, workload) ==
  IF workload.deleting THEN "ConnectorDeleting"
  ELSE IF ref.target # None /\ ~matchesContractProbe(workload, ref.target) THEN "ContractProbeConfigurationMismatch"
  ELSE IF desired(workload) = 0 THEN "ConnectorScaledToZero"
  ELSE IF workload.generation = 0 \/ workload.status.observed # workload.generation THEN "ConnectorStatusStale"
  ELSE IF ~rolledOut(workload) THEN "ConnectorNotReady"
  ELSE None

=============================================================================
