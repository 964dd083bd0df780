----------------------------- MODULE MCRequests -----------------------------
(* A package with a loopback Interface, a DataNetwork, a Dependency and a    *)
(* Capacity: two resources that ask for an IPClaim each, in one package.     *)
EXTENDS Choreography

MCRef == {"nf", "if1", "ip1", "dn1", "ip2", "dep1", "cfg1", "cap1"}

MCKind == [r \in MCRef |->
    CASE r = "nf" -> "NFDeployment" [] r = "if1" -> "Interface" [] r = "dn1" -> "DataNetwork"
      [] r \in {"ip1", "ip2"} -> "IPClaim" [] r = "dep1" -> "Dependency"
      [] r = "cfg1" -> "Config" [] OTHER -> "Capacity"]

MCParent == [r \in MCRef |->
    CASE r = "nf" -> "" [] r = "ip1" -> "if1" [] r = "ip2" -> "dn1" [] r = "cfg1" -> "dep1"
      [] OTHER -> "nf"]
=============================================================================
