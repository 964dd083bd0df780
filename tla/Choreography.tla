---------------------------- MODULE Choreography ----------------------------
(***************************************************************************)
(* The condition choreography: the specializer functions run on a package, *)
(* in any order (a kpt pipeline fixes an order, and the ipam, vlan and     *)
(* configinject functions are run by controllers of their own), while the  *)
(* package is edited, the WorkloadCluster comes and goes, dependencies     *)
(* publish new revisions and the allocation backends fail.                 *)
(***************************************************************************)
EXTENDS KptCondSdk, Naturals

CONSTANTS
    InterfaceSpecs,  \* the specs an Interface is edited to
    Clusters,        \* the states of the WorkloadCluster resources
    Revisions,       \* the revisions dependencies publish
    Removable,       \* the resources whose object an edit may remove
    Forgettable,     \* the resources whose condition an edit may remove
    MaxEdits,        \* bound on the edits of the package and its surroundings
    MaxFaults        \* bound on the backend failures

ASSUME InterfaceSpecsAssumption ==
    InterfaceSpecs \subseteq {"pod", "loopback", "network", "vlan", "vlan2"}
ASSUME ClustersAssumption == Clusters \subseteq {"ok", "missing", "bad"}
ASSUME RevisionsAssumption == Revisions \subseteq {"none", "v1", "v2"}
ASSUME EditsAssumption ==
    Removable \subseteq Ref \ OfKind("NFDeployment") /\ Forgettable \subseteq Ref
ASSUME BoundsAssumption == MaxEdits \in Nat /\ MaxFaults \in Nat

VARIABLES edits, faults

vars == <<cond, obj, specialize, nameless, panicked, cluster, deps, edits, faults>>

ClaimFns == {IpamFn, VlanFn}
Fns == {NfDeployFn, InterfaceFn, DnnFn, ConfigInjectFn, NadFn} \cup ClaimFns

(* The resources a package author writes; the others are generated.         *)
Authored == OfKind("NFDeployment") \cup OfKind("Interface") \cup OfKind("DataNetwork")
            \cup OfKind("Dependency") \cup OfKind("Capacity")

(* The package as it is instantiated: the authored resources, the requests  *)
(* annotated with the NFDeployment as their owner, and no conditions.       *)
AuthoredSpecs(r) ==
    CASE Kind[r] = "Interface" -> InterfaceSpecs
      [] Kind[r] = "DataNetwork" -> {"pool"}
      [] OTHER -> {"fixed"}

Init ==
    /\ cond = [r \in Ref |-> NoCond]
    /\ \E s \in [Authored -> Specs] :
          /\ \A r \in Authored : s[r] \in AuthoredSpecs(r)
          /\ obj = [r \in Ref |-> IF r \in Authored THEN NewObj(s[r], Parent[r]) ELSE NoObj]
    /\ specialize = "none" /\ nameless = FALSE /\ panicked = FALSE
    /\ cluster \in Clusters
    /\ deps \in Revisions
    /\ edits = 0 /\ faults = 0

-----------------------------------------------------------------------------
RunFn(F) ==
    /\ Run(F, TRUE) \/ RunPanics(F)
    /\ UNCHANGED <<cluster, deps, edits, faults>>

RunWithoutBackend(F) ==
    /\ faults < MaxFaults
    /\ faults' = faults + 1
    /\ Run(F, FALSE)
    /\ UNCHANGED <<cluster, deps, edits>>

-----------------------------------------------------------------------------
(* Edits of the package between two runs.                                   *)
Edit(r, o) ==
    /\ edits < MaxEdits /\ o # obj[r]
    /\ edits' = edits + 1
    /\ obj' = [obj EXCEPT ![r] = o]
    /\ UNCHANGED <<cond, specialize, nameless, panicked, cluster, deps, faults>>

EditInterface(r, s) == obj[r].here /\ Edit(r, [obj[r] EXCEPT !.spec = s])

RemoveResource(r) == obj[r].here /\ Edit(r, NoObj)

RestoreInterface(r, s) == ~obj[r].here /\ Edit(r, NewObj(s, Parent[r]))

RemoveCondition(r) ==
    /\ edits < MaxEdits /\ cond[r].status # "none"
    /\ edits' = edits + 1
    /\ cond' = [cond EXCEPT ![r] = NoCond]
    /\ UNCHANGED <<obj, specialize, nameless, panicked, cluster, deps, faults>>

ChangeCluster(s) ==
    /\ edits < MaxEdits /\ s # cluster
    /\ edits' = edits + 1
    /\ cluster' = s
    /\ UNCHANGED <<cond, obj, specialize, nameless, panicked, deps, faults>>

PublishDependency(s) ==
    /\ edits < MaxEdits /\ s # deps /\ s # "none" /\ OfKind("Dependency") # {}
    /\ edits' = edits + 1
    /\ deps' = s
    /\ UNCHANGED <<cond, obj, specialize, nameless, panicked, cluster, faults>>

PackageEdit ==
    \/ \E r \in OfKind("Interface"), s \in InterfaceSpecs :
          EditInterface(r, s) \/ RestoreInterface(r, s)
    \/ \E r \in Removable : RemoveResource(r)
    \/ \E r \in Forgettable : RemoveCondition(r)

Next ==
    \/ \E F \in Fns : RunFn(F)
    \/ \E F \in ClaimFns : RunWithoutBackend(F)
    \/ PackageEdit
    \/ \E s \in Clusters : ChangeCluster(s)
    \/ \E s \in Revisions : PublishDependency(s)

Spec == Init /\ [][Next]_vars

(* Every function of the pipeline and every specializer controller that the *)
(* package has resources for runs again and again: the package is           *)
(* re-rendered on every change.                                             *)
FairSpec == Spec /\ \A F \in {G \in Fns : OfKind(G.for) # {}} : WF_vars(RunFn(F))

-----------------------------------------------------------------------------
TypeOK ==
    /\ cond \in [Ref -> Condition]
    /\ obj \in [Ref -> Object]
    /\ specialize \in {"none", "False", "True"}
    /\ nameless \in BOOLEAN /\ panicked \in BOOLEAN
    /\ cluster \in Clusters
    /\ deps \in Revisions
    /\ edits \in 0..MaxEdits /\ faults \in 0..MaxFaults

-----------------------------------------------------------------------------
Claims == OfKind("IPClaim") \cup OfKind("VLANClaim")

(* A claim whose condition is True carries an allocation that was made for  *)
(* the spec it has now: whatever rewrites the spec of a claim (a parent in  *)
(* stage 1) takes its condition back in the same run.                       *)
ReadyClaimIsAllocated ==
    \A r \in Claims :
        cond[r].status = "True" /\ obj[r].here => obj[r].st = {<<r, obj[r].spec>>}

(* nad-fn declares a NAD ready only from claims that are all ready, so the  *)
(* NAD never carries an address or a vlan that is not allocated             *)
(* (getReadyMap over the specific watches).                                 *)
NadBuiltFromReadyClaims ==
    [][\A n \in OfKind("NAD") :
         cond'[n].status = "True" /\ cond[n].status # "True" =>
            /\ \A r \in Claims : obj'[r].owner = Parent[n] => cond'[r].status = "True"
            /\ \A x \in obj'[n].st : x[2] # "none"]_vars

(* The functions handle every for resource of a package in one run, yet a   *)
(* NAD or an Interface only records allocations of its own Interface        *)
(* (populate files conditions and objects under their owner, getResources   *)
(* hands out those of one owner).                                           *)
AllocationsOfOwnInterface ==
    /\ \A n \in OfKind("NAD") : \A x \in obj[n].st : Parent[x[1]] = Parent[n]
    /\ \A i \in OfKind("Interface") : \A x \in obj[i].st : Parent[x[1]] = i

(* The package is declared specialized only by a run of nfdeploy-fn that    *)
(* leaves the conditions of all the requests of the NFDeployment True       *)
(* (sdk.Run of a root function, getReadyMap over the owned resources).      *)
SpecializedWhenRequestsReady ==
    [][specialize' = "True" /\ specialize # "True" =>
          \A r \in Ref : obj'[r].here /\ Parent[r] \in OfKind("NFDeployment") =>
              cond'[r] = [status |-> "True", reason |-> Parent[r]]]_vars

(* No function removes, or marks for deletion, a resource that came with    *)
(* the package (ChildInitial in diff).                                      *)
AuthoredResourcesKept ==
    [][edits' = edits =>
          \A r \in Authored : obj[r].here => obj'[r].here /\ ~obj'[r].del]_vars

Marked == \E r \in Ref : obj[r].del

Wanted(i, r) == desiredOwnedResourceList(InterfaceFn, obj[i].spec, r)

Solvable ==
    cluster = "ok" /\ (OfKind("Dependency") # {} => deps # "none") /\ ~Marked

(* Once the edits stop, the package has one valid WorkloadCluster and its   *)
(* dependencies are published, the functions reach the specialized state    *)
(* and stay there, whatever order they run in (unless a child waits for its *)
(* deletion).                                                               *)
EventuallySpecialized ==
    <>[](Solvable => specialize = "True")

(* ... and what they then have written is consistent: every Interface has   *)
(* the allocations of exactly its current claims, made for their current    *)
(* specs, and its NAD carries the same ones.                                *)
EventuallyConsistent ==
    <>[](Solvable =>
           \A i \in OfKind("Interface"), r \in Claims :
              obj[i].here /\ Parent[r] = i /\ Wanted(i, r) # "none" =>
                 /\ <<r, Wanted(i, r)>> \in obj[i].st
                 /\ \A n \in OfKind("NAD") : Parent[n] = i /\ Wanted(i, n) # "none" =>
                       <<r, Wanted(i, r)>> \in obj[n].st)

-----------------------------------------------------------------------------
(* What a comment says and the code does not do.                            *)

(* inventory_ready.go: "Both own and watches that are dependent on the      *)
(* forResource are validated for readiness".  A function declares its for   *)
(* resource ready only in a run that leaves its children ready.             *)
ParentWaitsForChildren ==
    [][\A f \in Ref : cond'[f].status = "True" /\ cond[f].status # "True" =>
          \A r \in Ref : obj'[r].here /\ obj'[r].owner = f => cond'[r].status = "True"]_vars
=============================================================================
