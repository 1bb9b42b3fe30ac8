------------------------------ MODULE MCSources ------------------------------
(***************************************************************************)
(* One product with one source or connector of each kind, some of them not *)
(* well formed or not supported.                                           *)
(***************************************************************************)
EXTENDS SourceObservation

Select(adapter, engine, provider, name) ==
  [adapter |-> adapter, engine |-> engine, provider |-> provider, wellFormed |-> TRUE, secret |-> name, target |-> None]

AllSelections ==
  {Select("crossplane/v1", None, None, "dedicated"),
   Select("cnpg/v1", "sql", "native", "generated"),
   Select("cnpg/v1", "document", "native", "generated"),
   Select("cnpg-hybrid/v1", "document", "cnpg-hybrid", "dedicated"),
   Select("cnpg-hybrid/v1", "graph", "cnpg-hybrid", "dedicated"),
   Select("percona-mongodb/v1", "document", "native", "dedicated"),
   Select("percona-mongodb/v1", "document", "native", "system"),
   Select("arangodb/v1", "graph", "native", "dedicated"),
   Select("arangodb/v1", "graph", "native", "derived"),
   Select("deployment/v1", None, None, "dedicated"),
   [Select("deployment/v1", None, None, "dedicated") EXCEPT !.target = "this"]}

=============================================================================
