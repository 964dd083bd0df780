--------------------------- MODULE NephioPackage ---------------------------
(***************************************************************************)
(* The contents of one kpt package as the Nephio specializer functions see *)
(* it: the conditions in the status of the Kptfile and the KRM resources   *)
(* in the resource list.  A resource is named by a reference (apiVersion,  *)
(* kind and name); a condition has the reference as its type and the       *)
(* reference of the owner as its reason.  The list representation of the   *)
(* conditions is the subject of module KptfileConditions; here a condition *)
(* is looked up by its type, which that module shows to be sound.          *)
(***************************************************************************)

CONSTANTS
    Ref,        \* the resources that may occur in the package
    NoRef,      \* the empty reference (no reason, no owner annotation)
    Kind,       \* the kind of a reference
    Parent      \* the resource a reference's name is derived from

Kinds == {"NFDeployment", "Interface", "DataNetwork", "Dependency", "Capacity",
          "Config", "IPClaim", "VLANClaim", "NAD"}

(* What the spec of a resource can say, as far as any function tells specs  *)
(* apart; "none" stands for a resource that is not asked for.               *)
Specs == {"none", "pod", "loopback", "network", "network2", "vlan", "vlan2", "pool",
          "fixed", "v1", "v2"}

(* The kinds of the resources that ask for one of kind k.                   *)
ParentKinds(k) ==
    IF k = "NFDeployment" THEN {}
    ELSE IF k = "IPClaim" THEN {"Interface", "DataNetwork"}
    ELSE IF k \in {"VLANClaim", "NAD"} THEN {"Interface"}
    ELSE IF k = "Config" THEN {"Dependency"}
    ELSE {"NFDeployment"}

ASSUME NoRefAssumption == NoRef \notin Ref
ASSUME KindAssumption == Kind \in [Ref -> Kinds]
ASSUME ParentAssumption ==
    /\ Parent \in [Ref -> Ref \cup {NoRef}]
    /\ \A r \in Ref : IF Kind[r] = "NFDeployment" THEN Parent[r] = NoRef
                     ELSE Parent[r] \in Ref /\ Kind[Parent[r]] \in ParentKinds(Kind[r])

VARIABLES
    cond,        \* Kptfile status.conditions, by type
    obj,         \* the items of the resource list, by reference
    specialize,  \* status of the nephio.org.Specializer.specialize condition
    nameless,    \* a failed condition is there whose type has no resource name
    panicked,    \* the last function run ended in a nil dereference
    cluster,     \* the WorkloadCluster resources of the package
    deps         \* the revision the package's dependencies publish

(* A condition; status "none" is a condition that is not in the list.       *)
Condition == [status : {"none", "False", "True"}, reason : Ref \cup {NoRef}]

NoCond == [status |-> "none", reason |-> NoRef]

(* The allocations a resource records: pairs of the claim they come from    *)
(* and the spec they were made for.                                         *)
Fact == Ref \X Specs

(* A resource of the package: its spec, its owner and delete annotations    *)
(* and what its status (or generated spec) was computed from.               *)
Object == [here : BOOLEAN, spec : Specs, owner : Ref \cup {NoRef},
           del : BOOLEAN, st : SUBSET Fact]

NoObj == [here |-> FALSE, spec |-> "none", owner |-> NoRef, del |-> FALSE, st |-> {}]

NewObj(s, w) == [here |-> TRUE, spec |-> s, owner |-> w, del |-> FALSE, st |-> {}]

OfKind(k) == {r \in Ref : Kind[r] = k}
=============================================================================
