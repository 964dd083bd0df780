--------------------------- MODULE SpecializerFns ---------------------------
(***************************************************************************)
(* The KRM functions built on condkptsdk: the filters each one gives to    *)
(* the sdk (For, Owns, Watch) and its callbacks.  A callback is a pure     *)
(* operator of the resources the sdk hands to it.                          *)
(***************************************************************************)
EXTENDS NephioPackage

(* condkptsdk.Config: a kind that is not owned is mapped to "".  clusterCb  *)
(* says that the function watches WorkloadCluster with a callback.          *)
Config(for, owns, watch, root, clusterCb) ==
    [for |-> for, owns |-> owns, watch |-> watch, root |-> root, clusterCb |-> clusterCb]

NoOwns == [k \in Kinds |-> ""]

NfDeployFn == Config("NFDeployment",
    [NoOwns EXCEPT !["Capacity"] = "local", !["Interface"] = "initial",
                   !["DataNetwork"] = "initial", !["Dependency"] = "initial"],
    {}, TRUE, TRUE)

InterfaceFn == Config("Interface",
    [NoOwns EXCEPT !["NAD"] = "remoteCondition", !["IPClaim"] = "remote",
                   !["VLANClaim"] = "remote"],
    {}, FALSE, TRUE)

DnnFn == Config("DataNetwork", [NoOwns EXCEPT !["IPClaim"] = "remote"], {}, FALSE, TRUE)

ConfigInjectFn == Config("Dependency", [NoOwns EXCEPT !["Config"] = "local"], {}, FALSE, TRUE)

IpamFn == Config("IPClaim", NoOwns, {}, FALSE, FALSE)

VlanFn == Config("VLANClaim", NoOwns, {}, FALSE, FALSE)

NadFn == Config("NAD", NoOwns, {"IPClaim", "VLANClaim", "Interface"}, FALSE, TRUE)

-----------------------------------------------------------------------------
(* WorkloadClusterCallbackFn: the callback is run for every WorkloadCluster *)
(* and fails on a second or on an invalid one ("bad"); with none ("missing")*)
(* it is not run at all.                                                    *)
WorkloadClusterCallbackOK(F) == F.clusterCb => cluster # "bad"

(* PopulateOwnResourcesFn fails without a WorkloadCluster; configinject-fn  *)
(* also when no dependency package is published and ready.                  *)
PopulateErr(F) ==
    \/ cluster = "missing"
    \/ F.for = "Dependency" /\ deps = "none"

(* PopulateOwnResourcesFn: the spec of a child of kind k for an object with *)
(* spec s, "none" when there is no such child.  An Interface is on the      *)
(* default pod network, has no cniType ("loopback"), has one ("network") or *)
(* has one and a vlan attachment, in one of two network instances ("vlan"   *)
(* and "vlan2").                                                            *)
itfceResources(s, k) ==
    CASE k = "IPClaim" /\ s = "loopback" -> "loopback"
      [] k = "IPClaim" /\ s \in {"network", "vlan"} -> "network"
      [] k = "IPClaim" /\ s = "vlan2" -> "network2"
      [] k = "VLANClaim" /\ s \in {"vlan", "vlan2"} -> "fixed"
      [] k = "NAD" /\ s \in {"network", "vlan", "vlan2"} -> "fixed"
      [] OTHER -> "none"

dnnResources(s, k) == IF k = "IPClaim" THEN s ELSE "none"

dependencyResources(k) == IF k = "Config" THEN deps ELSE "none"

desiredOwnedResourceList(F, s, r) ==
    CASE F.for = "Interface" -> itfceResources(s, Kind[r])
      [] F.for = "DataNetwork" -> dnnResources(s, Kind[r])
      [] F.for = "Dependency" -> dependencyResources(Kind[r])
      [] OTHER -> "none"

-----------------------------------------------------------------------------
(* UpdateResourceFn is given the for object fo and the set S of the objects *)
(* (in o) of its children and watches; "up" says that the ipam or vlan      *)
(* backend answers.  Statuses collects what the objects of kinds K record;  *)
(* the status of a claim that is not allocated yet is copied as it is.      *)
Statuses(o, S, K) ==
    UNION {IF o[r].st = {} THEN {<<r, "none">>} ELSE o[r].st :
              r \in {s \in S : Kind[s] \in K}}

(* updateItfceResource, updateDnnResource, updateDependencyResource,        *)
(* updateIPClaimResource, updateVLANClaimResource and nfdeploy's            *)
(* UpdateResourceFn fail on a nil for object, the claims also when the      *)
(* backend does; nad-fn builds the NAD from its watches and needs a         *)
(* WorkloadCluster, an Interface with a supported cniType and a claim.      *)
UpdateErr(F, fo, o, S, up) ==
    LET itfces == {r \in S : Kind[r] = "Interface"} IN
    CASE F.for = "NAD" ->
            \/ cluster = "missing"
            \/ itfces = {}
            \/ /\ \A i \in itfces : o[i].spec # "pod"
               /\ \/ itfces = S
                  \/ /\ \E r \in S : Kind[r] = "IPClaim"
                     /\ \E i \in itfces : o[i].spec = "loopback"
      [] F.for \in {"IPClaim", "VLANClaim"} -> ~fo.here \/ ~up
      [] OTHER -> ~fo.here

(* nad-fn returns no object for an Interface on the default pod network.    *)
UpdateEmpty(F, o, S) ==
    F.for = "NAD" /\ \E i \in S : Kind[i] = "Interface" /\ o[i].spec = "pod"

(* The facts the returned for object records.  An Interface keeps the       *)
(* statuses of claims it no longer has.                                     *)
updateItfceResource(fo, o, S) ==
    {x \in fo.st : x[1] \notin S} \cup Statuses(o, S, {"IPClaim", "VLANClaim"})

updateDnnResource(o, S) == Statuses(o, S, {"IPClaim"})

updateDependencyResource(S) == {<<r, "fixed">> : r \in S}

updateIPClaimResource(f, fo) == {<<f, fo.spec>>}

updateVLANClaimResource(f, fo) == {<<f, fo.spec>>}

(* Without an IPClaim the NAD is left without addresses, vlan and master.   *)
nadUpdateResource(o, S) ==
    IF \E r \in S : Kind[r] = "IPClaim" THEN Statuses(o, S, {"IPClaim", "VLANClaim"}) ELSE {}

(* nfdeploy-fn takes an Interface only when it has both an IP and a VLAN    *)
(* status, a pool only when it is allocated, and keeps the parameter        *)
(* references it already had.                                               *)
InterfaceUpdate(o, S) ==
    LET from(i, k) == \E x \in o[i].st : Kind[x[1]] = k IN
    UNION {o[i].st : i \in {j \in S : /\ Kind[j] = "Interface"
                                     /\ from(j, "IPClaim") /\ from(j, "VLANClaim")}}

DnnUpdate(o, S) ==
    {x \in UNION {o[i].st : i \in {j \in S : Kind[j] = "DataNetwork"}} : x[2] # "none"}

DependencyUpdate(fo, o, S) ==
    {x \in fo.st : Kind[x[1]] = "Config"}
    \cup (UNION {o[i].st : i \in {j \in S : Kind[j] = "Dependency"}})

(* What the maps and lists of nfdeploy-fn have accumulated when it builds   *)
(* the NFDeployment; the order they are sorted into is left out.            *)
nfDeployUpdate(fo, o, S) ==
    InterfaceUpdate(o, S) \cup DnnUpdate(o, S) \cup DependencyUpdate(fo, o, S)

UpdateSt(F, f, fo, o, S) ==
    CASE F.for = "NFDeployment" -> nfDeployUpdate(fo, o, S)
      [] F.for = "Interface" -> updateItfceResource(fo, o, S)
      [] F.for = "DataNetwork" -> updateDnnResource(o, S)
      [] F.for = "Dependency" -> updateDependencyResource(S)
      [] F.for = "IPClaim" -> updateIPClaimResource(f, fo)
      [] F.for = "VLANClaim" -> updateVLANClaimResource(f, fo)
      [] OTHER -> nadUpdateResource(o, S)
=============================================================================
