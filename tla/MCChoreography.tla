--------------------------- MODULE MCChoreography ---------------------------
(* A package with an NFDeployment and one Interface. *)
EXTENDS Choreography

MCRef == {"nf", "if1", "ip1", "vlan1", "nad1"}

MCKind == [r \in MCRef |->
    CASE r = "nf" -> "NFDeployment" [] r = "if1" -> "Interface"
      [] r = "ip1" -> "IPClaim" [] r = "vlan1" -> "VLANClaim" [] OTHER -> "NAD"]

MCParent == [r \in MCRef |-> CASE r = "nf" -> "" [] r = "if1" -> "nf" [] OTHER -> "if1"]
=============================================================================
