--------------------------- MODULE MCRegistryPage ---------------------------
(***************************************************************************)
(* Two products that can link to each other, so in one namespace, and      *)
(* pages of one product: an inventory has two pages, and none within the   *)
(* other namespace.                                                        *)
(***************************************************************************)
EXTENDS RegistryPage

OneNamespace == <<"n1", "n1">>

=============================================================================
