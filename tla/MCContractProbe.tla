--------------------------- MODULE MCContractProbe ---------------------------
(* Readiness calls of which some are busy, some cancelled at every point,  *)
(* against two scrapes that may always overlap.                            *)
EXTENDS ContractProbe

=============================================================================
