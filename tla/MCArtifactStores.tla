------------------------- MODULE MCArtifactStores -------------------------
(* Instance of ArtifactStores: two images, each the base of a template, and a VM *)
(* over the first.                                                          *)
EXTENDS ArtifactStores, TLC

CONSTANTS d1, d2, b1, b2, t1, t2

MCLayer == [v \in Vms |-> d1]
MCBuilds == b1 :> t1 @@ b2 :> t2
MCBase == t1 :> d1 @@ t2 :> d2

\* Behaviours are followed up to the first lost index entry: beyond it
\* TemplateImageStays promises nothing, and the VMs do not use the index.
StopAtLoss == clean
=============================================================================
