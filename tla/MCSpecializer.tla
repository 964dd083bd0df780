---------------------------- MODULE MCSpecializer ----------------------------
(* The generic specializer beside the one for VLANs.                         *)
EXTENDS SpecializerController

MCServes == [generic |-> Kinds, vlan |-> {"VLANClaim"}]
==============================================================================
