---------------------------- MODULE RegistryView ----------------------------
(***************************************************************************)
(* The registry beside the reconciler: it reads products one at a time and *)
(* publishes each as it finds it, between any two writes of publishers and *)
(* of the controller.  Whatever it reads was once the server's object, so  *)
(* a property of api[p] in every state is one of every response.           *)
(***************************************************************************)
EXTENDS Reconciler, Descriptors

Published == {api[p] : p \in Products} \ {None}

Admitted(descriptor) == validPortableMetadata(descriptor) /\ validate(descriptor)

Consistent(descriptor, ready) ==
  /\ descriptor.ready <=> ready
  /\ ready => \A k \in Dimensions : descriptor.health[k].state \in {"ready", "unobserved", "not-applicable"}

(* No product the controller writes the status of is lost to discovery or  *)
(* refused by the browser: its lineage always describes its declared       *)
(* inputs and its health the generation it is published with, however the  *)
(* spec and the status are out of step.                                    *)
DescriptorAdmitted == \A o \in Published : Admitted(portableDescriptorFor(o))

(* Both versions of the inventory call a product ready exactly when its    *)
(* consumers may rely on it, and never beside a capability that is known   *)
(* to be unready, disabled or stale.                                       *)
ReadinessConsistent ==
  \A o \in Published :
    /\ descriptorFor(o).ready <=> producerReady(o)
    /\ Consistent(portableDescriptorFor(o), producerReady(o))

=============================================================================
