------------------------- MODULE ChoreographyProofs -------------------------
(***************************************************************************)
(* The condition choreography, proved for every package (any set of        *)
(* references, kinds and parents), any edits and any number of them: what  *)
(* one step does to a resource of the package, type correctness, and then  *)
(* the invariants and the steps that no function takes.                    *)
(***************************************************************************)
EXTENDS Choreography, TLAPS

-----------------------------------------------------------------------------
(* What the theorems need to know of the functions' configurations.         *)

OwnKinds == {"", "initial", "local", "remote", "remoteCondition"}

RequestKinds == {"Interface", "DataNetwork", "Dependency", "Capacity"}

(* The Owns filters of every function: who owns which kind, and how.        *)
LEMMA FnConfig ==
    ASSUME NEW F \in Fns
    PROVE  /\ F.for \in Kinds
           /\ \A k \in Kinds : F.owns[k] \in OwnKinds
           /\ \A k \in {"IPClaim", "VLANClaim"} : F.owns[k] \in {"", "remote"}
           /\ F.owns["NAD"] \in {"", "remoteCondition"}
           /\ F.owns["NFDeployment"] = "" /\ F.owns[F.for] = ""
           /\ \A k \in RequestKinds \ {"Capacity"} : F.owns[k] \in {"", "initial"}
           /\ F.owns["Capacity"] \in {"", "local"}
           /\ F.for \in {"IPClaim", "VLANClaim", "NAD"} => \A k \in Kinds : F.owns[k] = ""
           /\ F.for \in {"IPClaim", "VLANClaim"} => F.watch = {} /\ ~F.clusterCb
           /\ F.for = "NFDeployment" => \A k \in RequestKinds : F.owns[k] \in {"initial", "local"}
           /\ F.for # "NAD" => F.watch = {}
           /\ F.for = "NAD" => F.watch = {"IPClaim", "VLANClaim", "Interface"}
           /\ F.root \in BOOLEAN /\ (F.root => F.for = "NFDeployment")
           /\ (~\E k \in Kinds : F.owns[k] # "") => F.for \in {"IPClaim", "VLANClaim", "NAD"}
<1>1. CASE F = NfDeployFn
  BY Zenon, <1>1 DEF NfDeployFn, Config, NoOwns, Kinds, OwnKinds, RequestKinds
<1>2. CASE F = InterfaceFn
  BY Zenon, <1>2 DEF InterfaceFn, Config, NoOwns, Kinds, OwnKinds, RequestKinds
<1>3. CASE F = DnnFn
  BY Zenon, <1>3 DEF DnnFn, Config, NoOwns, Kinds, OwnKinds, RequestKinds
<1>4. CASE F = ConfigInjectFn
  BY Zenon, <1>4 DEF ConfigInjectFn, Config, NoOwns, Kinds, OwnKinds, RequestKinds
<1>5. CASE F = NadFn
  BY Zenon, <1>5 DEF NadFn, Config, NoOwns, Kinds, OwnKinds, RequestKinds
<1>6. CASE F = IpamFn
  BY Zenon, <1>6 DEF IpamFn, Config, NoOwns, Kinds, OwnKinds, RequestKinds
<1>7. CASE F = VlanFn
  BY Zenon, <1>7 DEF VlanFn, Config, NoOwns, Kinds, OwnKinds, RequestKinds
<1> QED BY Zenon, <1>1, <1>2, <1>3, <1>4, <1>5, <1>6, <1>7 DEF Fns, ClaimFns

(* How kinds and parents constrain the references.                          *)
LEMMA RefKinds ==
    ASSUME NEW r \in Ref
    PROVE  /\ Kind[r] \in Kinds
           /\ Parent[r] \in Ref \cup {NoRef}
           /\ Parent[r] # NoRef => Kind[Parent[r]] \in ParentKinds(Kind[r])
           /\ NoRef \notin Ref
  BY NoRefAssumption, KindAssumption, ParentAssumption

(* What a function wants for a child is one of the specs, or none.          *)
LEMMA NewResourceType ==
    ASSUME TypeOK, NEW F \in Fns, NEW r \in Ref
    PROVE  newResource(F, r) \in Specs
<1>1. CASE newResource(F, r) = "none"
  BY Zenon, <1>1 DEF Specs
<1>2. CASE newResource(F, r) # "none"
  <2>1. Parent[r] \in Ref /\ newResource(F, r) = desiredOwnedResourceList(F, obj[Parent[r]].spec, r)
    BY Zenon, <1>2 DEF newResource, IsOwn, OfKind
  <2>2. obj[Parent[r]].spec \in Specs /\ deps \in Specs
    BY <2>1, RevisionsAssumption DEF TypeOK, Object, Specs
  <2> QED BY Zenon, <2>1, <2>2 DEF desiredOwnedResourceList, itfceResources, dnnResources,
                             dependencyResources, Specs
<1> QED BY <1>1, <1>2

-----------------------------------------------------------------------------
(* What one run of a function does to a resource that is not one of its for *)
(* resources: nothing, set or remove its condition, annotate it for         *)
(* deletion (condition False), or write it anew.                            *)

Untouched(F, r, c, o) == c = cond[r] /\ o = obj[r]

ConditionOnly(F, r, c, o) ==
    /\ IsOwn(F, r) /\ o = obj[r]
    /\ c = NoCond \/ \E t \in {"False", createdStatus(F, r)} : c = childCondition(F, r, t)

Annotated(F, r, c, o) ==
    /\ deleteObjs(F, r)
    /\ o = [obj[r] EXCEPT !.del = TRUE] /\ c = childCondition(F, r, "False")

Written(F, r, c, o) ==
    /\ IsOwn(F, r) /\ newResource(F, r) # "none" /\ ownKind(F, r) \in {"remote", "local"}
    /\ o = NewObj(newResource(F, r), Parent[r])
    /\ \E t \in {"False", createdStatus(F, r)} : c = childCondition(F, r, t)

(* Only children of the resources a function is for are wanted by it.       *)
LEMMA NewResourceOfOwn ==
    ASSUME NEW F, NEW r, newResource(F, r) # "none"
    PROVE  IsOwn(F, r) /\ isReady(F)
  BY DEF newResource

(* A run does one of those four things to a resource it is not for.         *)
LEMMA ChildStep ==
    ASSUME NEW F \in Fns, NEW r \in Ref, NEW up, ~IsFor(F, r)
    PROVE  LET c == runCond(F, r, up)
               o == runObj(F, r, up)
           IN  \/ Untouched(F, r, c, o) \/ ConditionOnly(F, r, c, o)
               \/ Annotated(F, r, c, o) \/ Written(F, r, c, o)
<1> DEFINE c == runCond(F, r, up)
           o == runObj(F, r, up)
           writes == createObjs(F, r) \/ updateObjs(F, r) \/ updateDeleteAnnotations(F, r)
<1>1. writes => newResource(F, r) # "none" /\ IsOwn(F, r) /\ isReady(F)
  BY NewResourceOfOwn DEF createObjs, updateObjs, updateDeleteAnnotations, compareSpecs
<1>2. CASE ~isReady(F)
  <2>1. c = notReadyCond(F, r) /\ o = stage1Obj(F, r)
    BY <1>2 DEF runCond, runObj
  <2>2. CASE deleteObjs(F, r)
    BY <2>1, <2>2 DEF notReadyCond, stage1Obj, Annotated
  <2>3. CASE ~deleteObjs(F, r)
    BY Zenon, <1>1, <1>2, <2>1, <2>3 DEF notReadyCond, stage1Obj, Untouched
  <2> QED BY <2>2, <2>3
<1>3. CASE isReady(F)
  <2>1. c = stage1Cond(F, r) /\ o = stage1Obj(F, r)
    BY <1>3 DEF runCond, runObj
  <2>2. CASE deleteObjs(F, r)
    BY <2>1, <2>2 DEF stage1Cond, stage1Obj, Annotated
  <2>3. CASE ~deleteObjs(F, r) /\ writes /\ ownKind(F, r) \in {"remote", "local"}
    BY <1>1, <2>1, <2>3 DEF stage1Cond, stage1Obj, Written
  <2>4. CASE ~deleteObjs(F, r) /\ writes /\ ownKind(F, r) \notin {"remote", "local"}
    BY Zenon, <1>1, <2>1, <2>4 DEF stage1Cond, stage1Obj, ConditionOnly
  <2>5. CASE ~deleteObjs(F, r) /\ ~writes
    <3>1. o = obj[r]
      BY Zenon, <2>1, <2>5 DEF stage1Obj
    <3>2. createConditions(F, r) \/ deleteConditions(F, r) => IsOwn(F, r)
      BY Zenon DEF createConditions, deleteConditions, ForIsHere
    <3> QED BY <2>1, <2>5, <3>1, <3>2 DEF stage1Cond, Untouched, ConditionOnly
  <2> QED BY <2>2, <2>3, <2>4, <2>5
<1> QED BY Zenon, <1>2, <1>3

(* ... and to a for resource: its condition is kept, failed or removed and  *)
(* the object is left alone; a NAD is removed when the function is not      *)
(* ready; or stage 2 updates the object and raises the condition.           *)

ForConditions(f) ==
    {cond[f], NoCond, [status |-> "False", reason |-> NoRef],
     [status |-> "False", reason |-> cond[f].reason]}

ForKept(F, f, c, o) == c \in ForConditions(f) /\ o = obj[f]

ForRemoved(F, f, c, o) == F.for = "NAD" /\ c \in ForConditions(f) /\ o = NoObj

ForUpdated(F, f, up, c, o) ==
    /\ isReady(F) /\ forReady(F, f)
    /\ ~UpdateErr(F, obj[f], stage1Objs(F), related(F, f), up)
    /\ ~UpdateEmpty(F, stage1Objs(F), related(F, f))
    /\ \E w \in {NoRef, cond[f].reason} : c = [status |-> "True", reason |-> w]
    /\ o = stage2Obj(F, f, up)

(* Stage 1 leaves a for resource alone, or fails its condition.             *)
LEMMA ForStage1 ==
    ASSUME TypeOK, NEW F \in Fns, NEW f \in Ref, IsFor(F, f)
    PROVE  /\ stage1Cond(F, f) \in {cond[f], [status |-> "False", reason |-> NoRef]}
           /\ stage1Obj(F, f) = obj[f]
           /\ ~deleteObjs(F, f) /\ newResource(F, f) = "none" /\ ~IsOwn(F, f)
<1>1. ~IsOwn(F, f)
  <2>1. F.owns[F.for] = ""
    BY Zenon, FnConfig
  <2> QED BY Zenon, <2>1 DEF IsOwn, IsFor
<1>2. newResource(F, f) = "none" /\ ~deleteObjs(F, f)
  BY <1>1 DEF newResource, deleteObjs
<1>3. stage1Obj(F, f) = obj[f]
  BY Zenon, <1>2 DEF stage1Obj, createObjs, updateObjs, updateDeleteAnnotations, compareSpecs
<1>4. stage1Cond(F, f) \in {cond[f], [status |-> "False", reason |-> NoRef]}
  BY Zenon DEF stage1Cond, forCondition
<1> QED BY Zenon, <1>1, <1>2, <1>3, <1>4

(* The three things a run does to a for resource.                           *)
LEMMA ForStep ==
    ASSUME TypeOK, NEW F \in Fns, NEW f \in Ref, NEW up, IsFor(F, f)
    PROVE  LET c == runCond(F, f, up)
               o == runObj(F, f, up)
           IN  ForKept(F, f, c, o) \/ ForRemoved(F, f, c, o) \/ ForUpdated(F, f, up, c, o)
<1> DEFINE c == runCond(F, f, up)
           o == runObj(F, f, up)
<1>0. cond[f] \in Condition
  BY DEF TypeOK
<1>1. \A s \in {"False", "True"} : \A d \in {cond[f], [status |-> "False", reason |-> NoRef]} :
        [d EXCEPT !.status = s] = [status |-> s, reason |-> d.reason]
  BY <1>0 DEF Condition
<1>2. CASE ~isReady(F)
  <2>1. c = notReadyCond(F, f)
    BY <1>2 DEF runCond
  <2>2. c \in ForConditions(f)
    BY Zenon, <1>1, <2>1, ForStage1 DEF notReadyCond, ForConditions
  <2>3. CASE ~HasOwns(F)
    <3>1. F.for = "NAD"
      BY Zenon, <1>2, <2>3, FnConfig DEF isReady, WorkloadClusterCallbackOK, HasOwns
    <3> QED BY Zenon, <1>2, <2>2, <2>3, <3>1 DEF runObj, ForRemoved
  <2>4. CASE HasOwns(F)
    BY Zenon, <1>2, <2>2, <2>4, ForStage1 DEF runObj, ForKept
  <2> QED BY <2>3, <2>4
<1>3. CASE isReady(F) /\ ~forReady(F, f)
  BY Zenon, <1>3, ForStage1 DEF runCond, runObj, ForKept, ForConditions
<1>4. CASE isReady(F) /\ forReady(F, f)
  <2>1. c = stage2Cond(F, f, up) /\ o = stage2Obj(F, f, up)
    BY <1>4 DEF runCond, runObj
  <2>2. CASE UpdateErr(F, obj[f], stage1Objs(F), related(F, f), up)
    <3>1. o = obj[f]
      BY <2>1, <2>2 DEF stage2Obj
    <3>2. c = [stage1Cond(F, f) EXCEPT !.status = "False"]
      BY <2>1, <2>2 DEF stage2Cond
    <3> QED BY <1>1, <3>1, <3>2, ForStage1 DEF ForKept, ForConditions
  <2>3. CASE /\ ~UpdateErr(F, obj[f], stage1Objs(F), related(F, f), up)
             /\ UpdateEmpty(F, stage1Objs(F), related(F, f))
    BY Zenon, <2>1, <2>3, ForStage1 DEF stage2Cond, stage2Obj, ForKept, ForConditions
  <2>4. CASE /\ ~UpdateErr(F, obj[f], stage1Objs(F), related(F, f), up)
             /\ ~UpdateEmpty(F, stage1Objs(F), related(F, f))
    <3>1. c = [stage1Cond(F, f) EXCEPT !.status = "True"]
      BY <2>1, <2>4 DEF stage2Cond
    <3> QED BY <1>1, <1>4, <2>1, <2>4, <3>1, ForStage1 DEF ForUpdated
  <2> QED BY <2>2, <2>3, <2>4
<1> QED BY <1>2, <1>3, <1>4

-----------------------------------------------------------------------------
(* Type correctness.                                                        *)

(* The statuses a function may write are statuses of objects.               *)
LEMMA StatusesType ==
    ASSUME NEW o \in [Ref -> Object], NEW S \in SUBSET Ref, NEW K
    PROVE  Statuses(o, S, K) \subseteq Fact
  BY DEF Statuses, Fact, Object, Specs

(* And so are the updated ones.                                             *)
LEMMA UpdateStType ==
    ASSUME NEW F, NEW f \in Ref, NEW fo \in Object, NEW o \in [Ref -> Object], NEW S \in SUBSET Ref
    PROVE  UpdateSt(F, f, fo, o, S) \subseteq Fact
<1>1. fo.st \subseteq Fact /\ fo.spec \in Specs
  BY DEF Object
<1>2. \A i \in S : o[i].st \subseteq Fact
  BY DEF Object
<1>3. Statuses(o, S, {"IPClaim", "VLANClaim"}) \subseteq Fact
  BY StatusesType
<1>4. \A r \in S : <<r, "fixed">> \in Fact
  BY DEF Fact, Specs
<1>5. <<f, fo.spec>> \in Fact
  BY <1>1 DEF Fact
<1>6. CASE F.for = "NFDeployment"
  BY <1>1, <1>2, <1>6 DEF UpdateSt, nfDeployUpdate, InterfaceUpdate, DnnUpdate, DependencyUpdate
<1>7. CASE F.for = "Interface"
  BY <1>1, <1>3, <1>7 DEF UpdateSt, updateItfceResource
<1>8. CASE F.for = "Dependency"
  BY <1>4, <1>8 DEF UpdateSt, updateDependencyResource
<1>9. CASE F.for \in {"IPClaim", "VLANClaim"}
  BY <1>5, <1>9 DEF UpdateSt, updateIPClaimResource, updateVLANClaimResource
<1>10. CASE F.for = "DataNetwork"
  <2>1. Statuses(o, S, {"IPClaim"}) \subseteq Fact
    BY StatusesType
  <2> QED BY <1>10, <2>1 DEF UpdateSt, updateDnnResource
<1> QED BY <1>3, <1>6, <1>7, <1>8, <1>9, <1>10 DEF UpdateSt, nadUpdateResource

(* Stage 1 leaves proper objects, or none.                                  *)
LEMMA Stage1ObjType ==
    ASSUME TypeOK, NEW F \in Fns, NEW r \in Ref
    PROVE  stage1Obj(F, r) \in Object
<1>1. obj[r] \in Object /\ [obj[r] EXCEPT !.del = TRUE] \in Object
  BY Zenon DEF TypeOK, Object
<1>2. NewObj(newResource(F, r), Parent[r]) \in Object
  BY NewResourceType, RefKinds DEF NewObj, Object
<1> QED BY <1>1, <1>2 DEF stage1Obj

(* A whole run of a function leaves proper conditions and objects.          *)
LEMMA RunTypes ==
    ASSUME TypeOK, NEW F \in Fns, NEW r \in Ref, NEW up
    PROVE  runCond(F, r, up) \in Condition /\ runObj(F, r, up) \in Object
<1> DEFINE c == runCond(F, r, up)
           o == runObj(F, r, up)
<1>0. cond[r] \in Condition /\ obj[r] \in Object /\ NoCond \in Condition /\ NoObj \in Object
  BY DEF TypeOK, Condition, Object, NoCond, NoObj, Specs
<1>1. CASE ~IsFor(F, r)
  <2>1. \A t \in {"False", createdStatus(F, r)} : childCondition(F, r, t) \in Condition
    BY RefKinds DEF childCondition, createdStatus, Condition
  <2>2. [obj[r] EXCEPT !.del = TRUE] \in Object
    BY Zenon, <1>0 DEF Object
  <2>3. NewObj(newResource(F, r), Parent[r]) \in Object
    BY NewResourceType, RefKinds DEF NewObj, Object
  <2>4. childCondition(F, r, "False") \in Condition
    BY <2>1
  <2> QED BY Zenon, <1>0, <1>1, <2>1, <2>2, <2>3, <2>4, ChildStep
          DEF Untouched, ConditionOnly, Annotated, Written
<1>2. CASE IsFor(F, r)
  <2>1. ForConditions(r) \subseteq Condition
    BY <1>0 DEF ForConditions, Condition
  <2>2. CASE ForUpdated(F, r, up, c, o)
    <3>1. c \in Condition
      <4>1. PICK w \in {NoRef, cond[r].reason} : c = [status |-> "True", reason |-> w]
        BY Zenon, <2>2 DEF ForUpdated
      <4> QED BY <1>0, <4>1 DEF Condition
    <3>2. stage1Cond(F, r).reason \in Ref \cup {NoRef}
      BY <1>0, <1>2, ForStage1 DEF Condition
    <3>3. stage1Objs(F) \in [Ref -> Object] /\ related(F, r) \subseteq Ref
      BY Zenon, Stage1ObjType DEF stage1Objs, related, Children, watches
    <3>4. UpdateSt(F, r, obj[r], stage1Objs(F), related(F, r)) \subseteq Fact
      BY Zenon, <1>0, <3>3, UpdateStType
    <3>5. NewObj("fixed", NoRef) \in Object
      BY DEF NewObj, Object, Specs
    <3>6. stage2Obj(F, r, up) \in Object
      <4> DEFINE fo == IF F.for = "NAD" THEN NewObj("fixed", NoRef) ELSE obj[r]
                 w == IF stage1Cond(F, r).reason # NoRef THEN stage1Cond(F, r).reason ELSE fo.owner
                 st == UpdateSt(F, r, obj[r], stage1Objs(F), related(F, r))
      <4>1. fo \in Object /\ w \in Ref \cup {NoRef} /\ st \in SUBSET Fact
        BY <1>0, <3>2, <3>4, <3>5 DEF Object
      <4>2. stage2Obj(F, r, up) = [fo EXCEPT !.owner = w, !.st = st]
        BY <2>2 DEF ForUpdated, stage2Obj
      <4> HIDE DEF fo, w, st
      <4> QED BY Zenon, <4>1, <4>2 DEF Object
    <3> QED BY <2>2, <3>1, <3>6 DEF ForUpdated
  <2> QED BY <1>0, <1>2, <2>1, <2>2, ForStep DEF ForKept, ForRemoved
<1> QED BY <1>1, <1>2

(* The steps of the specification, as the proofs use them: a run of a       *)
(* function that ends, one that panics, an edit of an object or of a        *)
(* condition, and a change of the surroundings.                             *)

FunctionRun(F, up) ==
    /\ F \in Fns
    /\ Run(F, up)
    /\ UNCHANGED <<cluster, deps, edits>>
    /\ faults' \in 0..MaxFaults

ObjectEdit(r, o) ==
    /\ r \in Ref /\ obj' = [obj EXCEPT ![r] = o]
    /\ \/ /\ r \in OfKind("Interface")
          /\ \E s \in InterfaceSpecs :
                \/ o = [obj[r] EXCEPT !.spec = s]
                \/ o = NewObj(s, Parent[r])
       \/ r \notin OfKind("NFDeployment") /\ o = NoObj
    /\ edits' # edits /\ edits' \in 0..MaxEdits
    /\ UNCHANGED <<cond, specialize, nameless, panicked, cluster, deps, faults>>

ConditionEdit(r) ==
    /\ r \in Ref /\ cond' = [cond EXCEPT ![r] = NoCond]
    /\ edits' # edits /\ edits' \in 0..MaxEdits
    /\ UNCHANGED <<obj, specialize, nameless, panicked, cluster, deps, faults>>

PackageKept ==
    /\ UNCHANGED <<cond, obj, specialize, nameless>> /\ panicked' \in BOOLEAN
    /\ cluster' \in Clusters /\ deps' \in Revisions
    /\ edits' \in 0..MaxEdits /\ faults' \in 0..MaxFaults

(* The steps of the system, grouped by what they may change.                *)
LEMMA NextCases ==
    ASSUME TypeOK, [Next]_vars
    PROVE  \/ \E F \in Fns, up \in BOOLEAN : FunctionRun(F, up)
           \/ \E r \in Ref, o \in Object : ObjectEdit(r, o)
           \/ \E r \in Ref : ConditionEdit(r)
           \/ PackageKept
<1> USE BoundsAssumption
<1>0. edits \in Nat /\ faults \in Nat /\ edits \in 0..MaxEdits /\ faults \in 0..MaxFaults
  BY DEF TypeOK
<1>1. ASSUME NEW F \in Fns, RunFn(F)
      PROVE  (\E up \in BOOLEAN : FunctionRun(F, up)) \/ PackageKept
  <2>1. CASE Run(F, TRUE)
    BY Zenon, <1>0, <1>1, <2>1 DEF RunFn, FunctionRun
  <2>2. CASE RunPanics(F)
    BY <1>0, <1>1, <2>2 DEF RunFn, RunPanics, PackageKept, TypeOK
  <2> QED BY Zenon, <1>1, <2>1, <2>2 DEF RunFn
<1>2. ASSUME NEW F \in ClaimFns, RunWithoutBackend(F)
      PROVE  FunctionRun(F, FALSE)
  <2>1. F \in Fns /\ faults' \in 0..MaxFaults
    BY <1>0, <1>2 DEF RunWithoutBackend, Fns
  <2> QED BY <1>2, <2>1, Zenon DEF RunWithoutBackend, FunctionRun
<1>3. ASSUME NEW r \in OfKind("Interface"), NEW s \in InterfaceSpecs,
             EditInterface(r, s) \/ RestoreInterface(r, s)
      PROVE  \E o \in Object : ObjectEdit(r, o)
  <2>1. r \in Ref /\ s \in Specs /\ obj[r] \in Object
    BY <1>3, InterfaceSpecsAssumption DEF OfKind, Specs, TypeOK
  <2>2. [obj[r] EXCEPT !.spec = s] \in Object /\ NewObj(s, Parent[r]) \in Object
    BY <2>1, RefKinds DEF Object, NewObj
  <2> QED BY <1>0, <1>3, <2>1, <2>2 DEF EditInterface, RestoreInterface, Edit, ObjectEdit
<1>4. ASSUME NEW r \in Removable, RemoveResource(r)
      PROVE  r \in Ref /\ NoObj \in Object /\ ObjectEdit(r, NoObj)
  <2>1. NoObj \in Object
    BY Zenon DEF NoObj, Object, Specs
  <2> QED BY <1>0, <1>4, <2>1, EditsAssumption DEF RemoveResource, Edit, ObjectEdit
<1>5. ASSUME NEW r \in Forgettable, RemoveCondition(r)
      PROVE  r \in Ref /\ ConditionEdit(r)
  BY <1>0, <1>5, EditsAssumption DEF RemoveCondition, ConditionEdit
<1>6. ASSUME NEW s \in Clusters, ChangeCluster(s)
      PROVE  PackageKept
  BY <1>0, <1>6 DEF ChangeCluster, PackageKept, TypeOK
<1>7. ASSUME NEW s \in Revisions, PublishDependency(s)
      PROVE  PackageKept
  BY <1>0, <1>7 DEF PublishDependency, PackageKept, TypeOK
<1>8. CASE UNCHANGED vars
  BY <1>0, <1>8 DEF vars, PackageKept, TypeOK
<1>9. ClaimFns \subseteq Fns /\ FALSE \in BOOLEAN
  BY DEF Fns
<1>10. OfKind("Interface") \subseteq Ref
  BY Zenon DEF OfKind
<1>11. CASE PackageEdit
  BY Zenon, <1>3, <1>4, <1>5, <1>10, <1>11 DEF PackageEdit
<1> QED BY Zenon, <1>1, <1>2, <1>6, <1>7, <1>8, <1>9, <1>11 DEF Next

(* The packages the pipeline starts from are well typed.                    *)
LEMMA TypeInit == Init => TypeOK
<1> SUFFICES ASSUME Init PROVE TypeOK
  OBVIOUS
<1>1. NoCond \in Condition /\ NoObj \in Object
  BY Zenon DEF NoCond, Condition, NoObj, Object, Specs
<1>2. \A s \in Specs, r \in Ref : NewObj(s, Parent[r]) \in Object
  BY Zenon, RefKinds DEF NewObj, Object
<1>3. obj \in [Ref -> Object]
  BY <1>1, <1>2 DEF Init, Authored, OfKind
<1>4. cond \in [Ref -> Condition]
  BY Zenon, <1>1 DEF Init
<1>5. edits \in 0..MaxEdits /\ faults \in 0..MaxFaults
  BY BoundsAssumption DEF Init
<1>6. specialize \in {"none", "False", "True"} /\ nameless \in BOOLEAN /\ panicked \in BOOLEAN
  BY Zenon DEF Init
<1> QED BY <1>3, <1>4, <1>5, <1>6 DEF Init, TypeOK

(* Every step keeps the package well typed.                                 *)
LEMMA TypeStep == TypeOK /\ [Next]_vars => TypeOK'
<1> SUFFICES ASSUME TypeOK, [Next]_vars PROVE TypeOK'
  OBVIOUS
<1>1. ASSUME NEW F \in Fns, NEW up \in BOOLEAN, FunctionRun(F, up) PROVE TypeOK'
  <2>1. cond' \in [Ref -> Condition] /\ obj' \in [Ref -> Object]
    BY <1>1, RunTypes DEF FunctionRun, Run
  <2>2. specialize' \in {"none", "False", "True"}
    BY <1>1 DEF FunctionRun, Run, TypeOK, specializeStatus
  <2>3. nameless' \in BOOLEAN /\ panicked' \in BOOLEAN
    BY Zenon, <1>1 DEF FunctionRun, Run
  <2>4. cluster' \in Clusters /\ deps' \in Revisions /\ edits' \in 0..MaxEdits /\ faults' \in 0..MaxFaults
    BY <1>1 DEF FunctionRun, TypeOK
  <2> QED BY <2>1, <2>2, <2>3, <2>4 DEF TypeOK
<1>2. ASSUME NEW r \in Ref, NEW o \in Object, ObjectEdit(r, o) PROVE TypeOK'
  BY <1>2 DEF ObjectEdit, TypeOK
<1>3. ASSUME NEW r \in Ref, ConditionEdit(r) PROVE TypeOK'
  <2>1. NoCond \in Condition
    BY DEF NoCond, Condition
  <2> QED BY <1>3, <2>1 DEF ConditionEdit, TypeOK
<1>4. CASE PackageKept
  BY <1>4 DEF PackageKept, TypeOK
<1> QED BY <1>1, <1>2, <1>3, <1>4, NextCases

(* Whatever the package and its edits, the runs of the functions (sdk.Run)  *)
(* leave well-formed conditions and objects: every reason and every owner   *)
(* annotation is a reference of the package, every status has its domain.   *)
THEOREM TypeCorrect == Spec => []TypeOK
  BY TypeInit, TypeStep, PTL DEF Spec

-----------------------------------------------------------------------------
(* The inductive invariant.  ReadyClaimIsAllocated and                      *)
(* AllocationsOfOwnInterface are not inductive by themselves: that a run    *)
(* hands a function the right objects rests on the reasons and the owner    *)
(* annotations naming the parent, and that the requests survive rests on    *)
(* their annotations and on the NFDeployment being there.                   *)

Ownership ==
    \A r \in Ref :
        /\ cond[r].reason \in {NoRef, Parent[r]}
        /\ obj[r].owner \in {NoRef, Parent[r]}
        /\ obj[r].here => obj[r].spec # "none"

AuthoredIntact ==
    /\ \A r \in Authored : ~obj[r].del /\ (obj[r].here => obj[r].owner = Parent[r])
    /\ \A r \in OfKind("NFDeployment") : obj[r].here

OwnAllocation == \A r \in Claims : \A x \in obj[r].st : x[1] = r

IInv ==
    /\ TypeOK /\ Ownership /\ AuthoredIntact /\ OwnAllocation
    /\ ReadyClaimIsAllocated /\ AllocationsOfOwnInterface

(* The object stage 2 writes for a for resource.                            *)
LEMMA UpdatedObject ==
    ASSUME TypeOK, NEW F \in Fns, NEW f \in Ref, NEW up, NEW c, NEW o,
           IsFor(F, f), ForUpdated(F, f, up, c, o)
    PROVE  /\ o.st = UpdateSt(F, f, obj[f], stage1Objs(F), related(F, f))
           /\ o.owner \in {cond[f].reason, IF F.for = "NAD" THEN NoRef ELSE obj[f].owner}
           /\ o.owner = NoRef => F.for = "NAD" \/ obj[f].owner = NoRef
           /\ F.for = "NAD" => o.spec = "fixed" /\ o.here /\ ~o.del
           /\ F.for # "NAD" => o.spec = obj[f].spec /\ o.here = obj[f].here /\ o.del = obj[f].del
<1> DEFINE fo == IF F.for = "NAD" THEN NewObj("fixed", NoRef) ELSE obj[f]
           w == IF stage1Cond(F, f).reason # NoRef THEN stage1Cond(F, f).reason ELSE fo.owner
           st == UpdateSt(F, f, obj[f], stage1Objs(F), related(F, f))
<1>1. o = [fo EXCEPT !.owner = w, !.st = st]
  BY Zenon DEF ForUpdated, stage2Obj
<1>2. fo \in Object
  BY DEF NewObj, Object, Specs, TypeOK
<1>3. /\ o.st = st /\ o.owner = w /\ o.spec = fo.spec /\ o.here = fo.here /\ o.del = fo.del
  <2> HIDE DEF fo, w, st
  <2> QED BY Zenon, <1>1, <1>2 DEF Object
<1>4. w \in {cond[f].reason, fo.owner} /\ (w = NoRef => fo.owner = NoRef)
  BY ForStage1
<1>5. /\ F.for = "NAD" => fo.spec = "fixed" /\ fo.here /\ ~fo.del /\ fo.owner = NoRef
      /\ F.for # "NAD" => fo = obj[f]
  BY DEF NewObj
<1> HIDE DEF fo, w, st
<1>6. o.st = UpdateSt(F, f, obj[f], stage1Objs(F), related(F, f))
  BY Zenon, <1>3 DEF st
<1> QED BY <1>3, <1>4, <1>5, <1>6

LEMMA UpdatedStatus ==
    ASSUME TypeOK, NEW F \in Fns, NEW f \in Ref, NEW up, IsFor(F, f),
           ForUpdated(F, f, up, runCond(F, f, up), runObj(F, f, up))
    PROVE  runObj(F, f, up).st = UpdateSt(F, f, obj[f], stage1Objs(F), related(F, f))
BY UpdatedObject

(* The owner a run writes into a condition or an object is the parent.      *)
LEMMA RunOwnership ==
    ASSUME TypeOK, Ownership, NEW F \in Fns, NEW r \in Ref, NEW up
    PROVE  LET c == runCond(F, r, up)
               o == runObj(F, r, up)
           IN  /\ c.reason \in {NoRef, Parent[r]}
               /\ o.owner \in {NoRef, Parent[r]}
               /\ o.here => o.spec # "none"
<1> DEFINE c == runCond(F, r, up)
           o == runObj(F, r, up)
           Goal == /\ c.reason \in {NoRef, Parent[r]}
                   /\ o.owner \in {NoRef, Parent[r]}
                   /\ o.here => o.spec # "none"
<1>0. /\ cond[r].reason \in {NoRef, Parent[r]}
      /\ obj[r].owner \in {NoRef, Parent[r]}
      /\ obj[r].here => obj[r].spec # "none"
  BY Zenon DEF Ownership
<1>1. CASE Untouched(F, r, c, o)
  BY Zenon, <1>0, <1>1 DEF Untouched
<1>2. CASE ConditionOnly(F, r, c, o)
  BY <1>0, <1>2 DEF ConditionOnly, NoCond, childCondition
<1>3. CASE Annotated(F, r, c, o)
  <2>1. obj[r] \in Object
    BY DEF TypeOK
  <2>2. o.owner = obj[r].owner /\ o.spec = obj[r].spec /\ o.here = obj[r].here
    BY Zenon, <1>3, <2>1 DEF Annotated, Object
  <2> QED BY <1>0, <1>3, <2>2 DEF Annotated, childCondition
<1>4. CASE Written(F, r, c, o)
  BY <1>4 DEF Written, NewObj, childCondition
<1>5. CASE ForKept(F, r, c, o)
  BY <1>0, <1>5 DEF ForKept, ForConditions, NoCond
<1>6. CASE ForRemoved(F, r, c, o)
  BY <1>0, <1>6 DEF ForRemoved, ForConditions, NoCond, NoObj
<1>7. CASE IsFor(F, r) /\ ForUpdated(F, r, up, c, o)
  <2>1. c.reason \in {NoRef, Parent[r]}
    BY <1>0, <1>7 DEF ForUpdated
  <2> QED BY <1>0, <1>7, <2>1, UpdatedObject
<1> QED BY Zenon, <1>1, <1>2, <1>3, <1>4, <1>5, <1>6, <1>7, ChildStep, ForStep

(* No function annotates or rewrites a resource that came with the package. *)
LEMMA RunAuthored ==
    ASSUME TypeOK, Ownership, AuthoredIntact, NEW F \in Fns, NEW r \in Authored, NEW up
    PROVE  LET o == runObj(F, r, up)
           IN  /\ o.here = obj[r].here /\ ~o.del
               /\ o.here => o.owner = Parent[r]
<1> DEFINE c == runCond(F, r, up)
           o == runObj(F, r, up)
<1>0. /\ r \in Ref /\ Kind[r] \in {"NFDeployment"} \cup RequestKinds
      /\ ~obj[r].del /\ (obj[r].here => obj[r].owner = Parent[r])
  BY DEF AuthoredIntact, Authored, OfKind, RequestKinds
<1>1. ~deleteObjs(F, r)
  <2> SUFFICES ASSUME deleteObjs(F, r) PROVE FALSE
    OBVIOUS
  <2>1. /\ IsOwn(F, r) /\ existingResource(F, r).here /\ F.owns[Kind[r]] # ""
        /\ ownKind(F, r) = F.owns[Kind[r]] /\ Parent[r] \in Ref
    BY Zenon DEF deleteObjs, IsOwn, ownKind, OfKind
  <2>0. /\ F.owns["NFDeployment"] = "" /\ F.owns["Capacity"] \in {"", "local"}
        /\ \A k \in RequestKinds \ {"Capacity"} : F.owns[k] \in {"", "initial"}
    BY Zenon, FnConfig
  <2>2. Kind[r] \in RequestKinds /\ ownKind(F, r) \in {"initial", "local"}
    BY Zenon, <1>0, <2>0, <2>1
  <2>3. CASE Kind[r] = "Capacity"
    <3>1. Kind[Parent[r]] = "NFDeployment"
      BY Zenon, <1>0, <2>1, <2>3, RefKinds DEF ParentKinds
    <3>2. ForIsHere(F, r)
      BY Zenon, <2>1, <3>1 DEF ForIsHere, AuthoredIntact, OfKind
    <3> QED BY <2>2, <3>2 DEF deleteObjs
  <2>4. CASE Kind[r] # "Capacity"
    <3>1. ownKind(F, r) = "initial"
      BY Zenon, <2>0, <2>1, <2>2, <2>4
    <3> QED BY <3>1 DEF deleteObjs
  <2> QED BY <2>3, <2>4
<1>2. newResource(F, r) = "none"
  BY <1>0 DEF newResource, desiredOwnedResourceList, itfceResources, dnnResources,
              dependencyResources, RequestKinds
<1>3. CASE ~IsFor(F, r)
  BY Zenon, <1>0, <1>1, <1>2, <1>3, ChildStep DEF Untouched, ConditionOnly, Annotated, Written
<1>4. CASE IsFor(F, r)
  <2>1. F.for # "NAD"
    BY Zenon, <1>0, <1>4 DEF IsFor, RequestKinds
  <2>2. CASE ForKept(F, r, c, o)
    BY <1>0, <2>2 DEF ForKept
  <2>3. CASE ForUpdated(F, r, up, c, o)
    <3>1. /\ o.here = obj[r].here /\ o.del = obj[r].del
          /\ o.owner \in {cond[r].reason, obj[r].owner}
          /\ o.owner = NoRef => obj[r].owner = NoRef
      BY <1>0, <1>4, <2>1, <2>3, UpdatedObject
    <3>2. cond[r].reason \in {NoRef, Parent[r]}
      BY Zenon, <1>0 DEF Ownership
    <3> QED BY Zenon, <1>0, <3>1, <3>2
  <2> QED BY <1>0, <1>4, <2>1, <2>2, <2>3, ForStep DEF ForRemoved
<1> QED BY Zenon, <1>3, <1>4

(* A claim's condition is raised only by the function that allocates it, in *)
(* the run that records the allocation for the spec the claim has.          *)
LEMMA RunClaim ==
    ASSUME TypeOK, ReadyClaimIsAllocated, OwnAllocation,
           NEW F \in Fns, NEW r \in Claims, NEW up
    PROVE  LET c == runCond(F, r, up)
               o == runObj(F, r, up)
           IN  /\ c.status = "True" /\ o.here => o.st = {<<r, o.spec>>}
               /\ \A x \in o.st : x[1] = r
<1> DEFINE c == runCond(F, r, up)
           o == runObj(F, r, up)
<1>0. /\ r \in Ref /\ Kind[r] \in {"IPClaim", "VLANClaim"} /\ obj[r] \in Object
      /\ cond[r].status = "True" /\ obj[r].here => obj[r].st = {<<r, obj[r].spec>>}
      /\ \A x \in obj[r].st : x[1] = r
  BY Zenon DEF Claims, OfKind, ReadyClaimIsAllocated, OwnAllocation, TypeOK
<1>1. CASE ~IsFor(F, r)
  <2>1. createdStatus(F, r) = "False"
    <3>1. ownKind(F, r) # "local"
      BY Zenon, <1>0, FnConfig DEF ownKind
    <3> QED BY <3>1 DEF createdStatus
  <2>2. CASE Untouched(F, r, c, o)
    BY Zenon, <1>0, <2>2 DEF Untouched
  <2>3. CASE ConditionOnly(F, r, c, o)
    BY <1>0, <2>1, <2>3 DEF ConditionOnly, NoCond, childCondition
  <2>4. CASE Annotated(F, r, c, o)
    <3>1. o.st = obj[r].st
      BY Zenon, <1>0, <2>4 DEF Annotated, Object
    <3> QED BY <1>0, <2>4, <3>1 DEF Annotated, childCondition
  <2>5. CASE Written(F, r, c, o)
    BY <2>1, <2>5 DEF Written, NewObj, childCondition
  <2> QED BY Zenon, <1>0, <1>1, <2>2, <2>3, <2>4, <2>5, ChildStep
<1>2. CASE IsFor(F, r)
  <2>1. F.for \in {"IPClaim", "VLANClaim"}
    BY Zenon, <1>0, <1>2 DEF IsFor
  <2>2. CASE ForKept(F, r, c, o)
    BY <1>0, <2>2 DEF ForKept, ForConditions, NoCond
  <2>3. CASE ForUpdated(F, r, up, c, o)
    <3>1. o.spec = obj[r].spec /\ o.st = {<<r, obj[r].spec>>}
      <4>1. UpdateSt(F, r, obj[r], stage1Objs(F), related(F, r)) = {<<r, obj[r].spec>>}
        BY <2>1 DEF UpdateSt, updateIPClaimResource, updateVLANClaimResource
      <4> QED BY <1>0, <1>2, <2>1, <2>3, <4>1, UpdatedObject
    <3> QED BY <3>1
  <2> QED BY Zenon, <1>0, <1>2, <2>1, <2>2, <2>3, ForStep DEF ForRemoved
<1> QED BY <1>1, <1>2

(* Stage 1 never adds an allocation to an object.                           *)
LEMMA Stage1Facts ==
    ASSUME TypeOK, NEW F \in Fns, NEW r \in Ref
    PROVE  stage1Obj(F, r).st \subseteq obj[r].st
<1>1. obj[r] \in Object
  BY DEF TypeOK
<1>2. [obj[r] EXCEPT !.del = TRUE].st = obj[r].st
  BY <1>1 DEF Object
<1>3. NewObj(newResource(F, r), Parent[r]).st = {}
  BY DEF NewObj
<1> QED BY <1>2, <1>3 DEF stage1Obj

(* The claims handed to UpdateResourceFn belong to the Interface: the       *)
(* children of an Interface, or the claims under the owner of a NAD.        *)
LEMMA RelatedClaims ==
    ASSUME TypeOK, Ownership, NEW F \in Fns, NEW f \in Ref, NEW s \in related(F, f),
           IsFor(F, f), Kind[f] \in {"Interface", "NAD"}, s \in Claims
    PROVE  /\ Kind[f] = "Interface" => Parent[s] = f
           /\ Kind[f] = "NAD" => /\ Parent[s] = Parent[f] /\ cond[f].reason = Parent[f]
                                 /\ s \in watches(F, f) /\ obj[s].here /\ s # Parent[f]
<1>0. s \in Ref /\ Kind[s] \in {"IPClaim", "VLANClaim"}
  BY DEF Claims, OfKind
<1>1. CASE Kind[f] = "Interface"
  <2>1. F.watch = {}
    BY Zenon, <1>1, FnConfig DEF IsFor
  <2>2. s \in Children(F, f)
    BY Zenon, <2>1 DEF related, watches
  <2> QED BY <1>1, <2>2 DEF Children
<1>2. CASE Kind[f] = "NAD"
  <2>0. F.for = "NAD"
    BY <1>2 DEF IsFor
  <2>1. \A k \in Kinds : F.owns[k] = ""
    BY Zenon, <2>0, FnConfig
  <2>2. s \notin Children(F, f)
    BY Zenon, <1>0, <2>1, RefKinds DEF Children, IsOwn
  <2>3. /\ s \in watches(F, f) /\ obj[s].here
        /\ s = cond[f].reason \/ obj[s].owner = cond[f].reason
    BY Zenon, <2>2 DEF related
  <2>4. cond[f].reason = Parent[f] /\ Parent[f] # NoRef
    BY Zenon, <2>3 DEF watches, Ownership
  <2>5. Kind[Parent[f]] = "Interface"
    BY Zenon, <1>2, <2>4, RefKinds DEF ParentKinds
  <2>6. s # Parent[f]
    BY Zenon, <1>0, <2>5
  <2>7. obj[s].owner = Parent[f] /\ obj[s].owner \in {NoRef, Parent[s]}
    BY Zenon, <1>0, <2>3, <2>4, <2>6 DEF Ownership
  <2> QED BY Zenon, <1>2, <2>3, <2>4, <2>6, <2>7
<1> QED BY <1>1, <1>2

(* The allocations a function copies come from the related claims.          *)
LEMMA StatusesOf ==
    ASSUME TypeOK, OwnAllocation, NEW F \in Fns, NEW S \in SUBSET Ref,
           NEW x \in Statuses(stage1Objs(F), S, {"IPClaim", "VLANClaim"})
    PROVE  x[1] \in S \cap Claims
<1>1. PICK r \in S :
        /\ Kind[r] \in {"IPClaim", "VLANClaim"}
        /\ x \in IF stage1Objs(F)[r].st = {} THEN {<<r, "none">>} ELSE stage1Objs(F)[r].st
  BY Zenon DEF Statuses
<1>2. r \in Claims /\ r \in Ref
  BY Zenon, <1>1 DEF Claims, OfKind
<1>3. stage1Objs(F)[r].st \subseteq obj[r].st
  BY Zenon, <1>2, Stage1Facts DEF stage1Objs
<1>4. x = <<r, "none">> \/ x \in obj[r].st
  BY Zenon, <1>1, <1>3
<1>5. x[1] = r
  BY <1>2, <1>4 DEF OwnAllocation
<1> QED BY Zenon, <1>1, <1>2, <1>5

(* A run gives an Interface the allocations of its own claims only.         *)
LEMMA RunAllocations ==
    ASSUME TypeOK, Ownership, OwnAllocation, AllocationsOfOwnInterface,
           NEW F \in Fns, NEW up, NEW r \in Ref, Kind[r] \in {"Interface", "NAD"}
    PROVE  \A x \in runObj(F, r, up).st :
              Parent[x[1]] = IF Kind[r] = "Interface" THEN r ELSE Parent[r]
<1> DEFINE c == runCond(F, r, up)
           o == runObj(F, r, up)
           itfce == IF Kind[r] = "Interface" THEN r ELSE Parent[r]
<1>r. ASSUME NEW s \in related(F, r), s \in Claims, IsFor(F, r) PROVE Parent[s] = itfce
  <2>1. Kind[r] = "Interface" => Parent[s] = r
    BY Zenon, <1>r, RelatedClaims
  <2>2. Kind[r] = "NAD" => Parent[s] = Parent[r]
    BY <1>r, RelatedClaims
  <2> QED BY Zenon, <2>1, <2>2
<1>0. obj[r] \in Object /\ \A x \in obj[r].st : Parent[x[1]] = itfce
  BY DEF AllocationsOfOwnInterface, OfKind, TypeOK
<1>1. CASE o.st \subseteq obj[r].st
  BY Zenon, <1>0, <1>1
<1>2. CASE ~IsFor(F, r)
  <2>1. [obj[r] EXCEPT !.del = TRUE].st = obj[r].st
    BY Zenon, <1>0 DEF Object
  <2>2. NewObj(newResource(F, r), Parent[r]).st = {}
    BY DEF NewObj
  <2>3. o.st \subseteq obj[r].st
    BY Zenon, <1>2, <2>1, <2>2, ChildStep DEF Untouched, ConditionOnly, Annotated, Written
  <2> QED BY <1>1, <2>3
<1>3. CASE IsFor(F, r) /\ ForUpdated(F, r, up, c, o)
  <2>1. related(F, r) \in SUBSET Ref
    BY Zenon DEF related, Children, watches
  <2>2. F.for = Kind[r]
    BY Zenon, <1>3 DEF IsFor
  <2>3. o.st = UpdateSt(F, r, obj[r], stage1Objs(F), related(F, r))
    BY <1>3, UpdatedObject
  <2>4. ASSUME NEW x \in o.st
        PROVE  x \in obj[r].st \/ x \in Statuses(stage1Objs(F), related(F, r), {"IPClaim", "VLANClaim"})
    BY Zenon, <2>2, <2>3 DEF UpdateSt, updateItfceResource, nadUpdateResource
  <2>5. ASSUME NEW x \in o.st, x \in Statuses(stage1Objs(F), related(F, r), {"IPClaim", "VLANClaim"})
        PROVE  Parent[x[1]] = itfce
    <3>1. x[1] \in related(F, r) /\ x[1] \in Claims
      BY Zenon, <2>1, <2>5, StatusesOf
    <3> QED BY Zenon, <1>3, <1>r, <3>1
  <2> QED BY Zenon, <1>0, <2>4, <2>5
<1>4. CASE IsFor(F, r) /\ ~ForUpdated(F, r, up, c, o)
  <2>1. o.st \subseteq obj[r].st
    BY <1>4, ForStep DEF ForKept, ForRemoved, NoObj
  <2> QED BY <1>1, <2>1
<1> QED BY Zenon, <1>2, <1>3, <1>4

-----------------------------------------------------------------------------
(* The invariant holds of the packages the pipeline starts from.            *)
LEMMA InvInit == Init => IInv
<1> SUFFICES ASSUME Init PROVE IInv
  OBVIOUS
<1>1. TypeOK
  BY TypeInit
<1>2. PICK s \in [Authored -> Specs] :
        /\ \A r \in Authored : s[r] \in AuthoredSpecs(r)
        /\ obj = [r \in Ref |-> IF r \in Authored THEN NewObj(s[r], Parent[r]) ELSE NoObj]
  BY Zenon DEF Init
<1>3. ASSUME NEW r \in Authored
      PROVE  r \in Ref /\ obj[r] = NewObj(s[r], Parent[r]) /\ s[r] # "none"
  <2>1. s[r] # "none"
    BY Zenon, <1>2, InterfaceSpecsAssumption DEF AuthoredSpecs
  <2> QED BY <1>2, <2>1 DEF Authored, OfKind
<1>4. ASSUME NEW r \in Ref, r \notin Authored
      PROVE  obj[r] = NoObj
  BY Zenon, <1>2, <1>4
<1>5. ASSUME NEW r \in Ref
      PROVE  /\ cond[r] = NoCond /\ obj[r].st = {} /\ ~obj[r].del
             /\ obj[r].owner \in {NoRef, Parent[r]}
             /\ obj[r].here => obj[r].spec # "none"
             /\ r \in Authored => obj[r].here /\ obj[r].owner = Parent[r]
  <2>1. cond[r] = NoCond
    BY Zenon DEF Init
  <2>2. CASE r \in Authored
    <3>1. obj[r] = NewObj(s[r], Parent[r]) /\ s[r] # "none"
      BY Zenon, <1>3, <2>2
    <3> QED BY <2>1, <3>1 DEF NewObj
  <2>3. CASE r \notin Authored
    <3>1. obj[r] = NoObj
      BY <1>4, <2>3
    <3> QED BY <2>1, <2>3, <3>1 DEF NoObj
  <2> QED BY Zenon, <2>2, <2>3
<1>6. Ownership
  <2>1. NoCond.reason = NoRef
    BY DEF NoCond
  <2>2. \A r \in Ref : cond[r].reason = NoRef
    BY Zenon, <1>5, <2>1
  <2> QED BY Zenon, <1>5, <2>2 DEF Ownership
<1>7. AuthoredIntact
  <2>1. \A r \in Authored : r \in Ref
    BY DEF Authored, OfKind
  <2>2. \A r \in OfKind("NFDeployment") : r \in Authored
    BY Zenon DEF Authored
  <2> QED BY Zenon, <1>5, <2>1, <2>2 DEF AuthoredIntact
<1>8. OwnAllocation /\ ReadyClaimIsAllocated /\ AllocationsOfOwnInterface
  BY <1>5 DEF OwnAllocation, ReadyClaimIsAllocated, AllocationsOfOwnInterface, Claims, OfKind, NoCond
<1> QED BY <1>1, <1>6, <1>7, <1>8 DEF IInv

(* A run of any function keeps the invariant.                               *)
LEMMA InvRun ==
    ASSUME IInv, NEW F \in Fns, NEW up \in BOOLEAN, FunctionRun(F, up)
    PROVE  /\ Ownership' /\ AuthoredIntact' /\ OwnAllocation'
           /\ ReadyClaimIsAllocated' /\ AllocationsOfOwnInterface'
<1>0. TypeOK /\ Ownership /\ AuthoredIntact /\ OwnAllocation
      /\ ReadyClaimIsAllocated /\ AllocationsOfOwnInterface
  BY DEF IInv
<1>1. \A r \in Ref : cond'[r] = runCond(F, r, up) /\ obj'[r] = runObj(F, r, up)
  BY Zenon DEF FunctionRun, Run
<1>2. Ownership'
  BY <1>0, <1>1, RunOwnership DEF Ownership
<1>3. AuthoredIntact'
  <2>1. \A r \in Authored : r \in Ref
    BY DEF Authored, OfKind
  <2>2. \A r \in OfKind("NFDeployment") : r \in Authored /\ obj[r].here
    BY Zenon, <1>0 DEF Authored, AuthoredIntact
  <2> QED BY <1>0, <1>1, <2>1, <2>2, RunAuthored DEF AuthoredIntact
<1>4. OwnAllocation' /\ ReadyClaimIsAllocated'
  <2>1. \A r \in Claims : r \in Ref
    BY Zenon DEF Claims, OfKind
  <2> QED BY <1>0, <1>1, <2>1, RunClaim DEF OwnAllocation, ReadyClaimIsAllocated
<1>5. AllocationsOfOwnInterface'
  <2>1. \A n \in OfKind("NAD") : n \in Ref /\ Kind[n] = "NAD"
    BY DEF OfKind
  <2>2. \A i \in OfKind("Interface") : i \in Ref /\ Kind[i] = "Interface"
    BY Zenon DEF OfKind
  <2>3. ASSUME NEW n \in OfKind("NAD"), NEW x \in obj'[n].st PROVE Parent[x[1]] = Parent[n]
    BY <1>0, <1>1, <2>1, <2>3, RunAllocations
  <2>4. ASSUME NEW i \in OfKind("Interface"), NEW x \in obj'[i].st PROVE Parent[x[1]] = i
    BY <1>0, <1>1, <2>2, <2>4, RunAllocations
  <2> QED BY Zenon, <2>3, <2>4 DEF AllocationsOfOwnInterface, OfKind
<1> QED BY <1>2, <1>3, <1>4, <1>5

(* Edits of an object outside the functions keep the invariant.             *)
LEMMA InvObjectEdit ==
    ASSUME IInv, NEW r \in Ref, NEW o \in Object, ObjectEdit(r, o)
    PROVE  /\ Ownership' /\ AuthoredIntact' /\ OwnAllocation'
           /\ ReadyClaimIsAllocated' /\ AllocationsOfOwnInterface'
<1>0. TypeOK /\ Ownership /\ AuthoredIntact /\ OwnAllocation
      /\ ReadyClaimIsAllocated /\ AllocationsOfOwnInterface
  BY DEF IInv
<1>1. cond' = cond /\ obj'[r] = o /\ (\A q \in Ref \ {r} : obj'[q] = obj[q])
  BY <1>0 DEF ObjectEdit, TypeOK
<1>2. CASE r \notin OfKind("NFDeployment") /\ o = NoObj
  <2>1. Ownership'
    <3>1. ~obj'[r].here /\ obj'[r].owner = NoRef
      BY <1>1, <1>2 DEF NoObj
    <3> QED BY Zenon, <1>0, <1>1, <3>1 DEF Ownership
  <2>2. AuthoredIntact'
    BY <1>0, <1>1, <1>2 DEF AuthoredIntact, NoObj, Authored, OfKind
  <2>3. OwnAllocation' /\ ReadyClaimIsAllocated'
    BY <1>0, <1>1, <1>2 DEF OwnAllocation, ReadyClaimIsAllocated, NoObj, Claims, OfKind
  <2>4. AllocationsOfOwnInterface'
    BY <1>0, <1>1, <1>2 DEF AllocationsOfOwnInterface, NoObj, OfKind
  <2> QED BY Zenon, <2>1, <2>2, <2>3, <2>4
<1>3. CASE r \in OfKind("Interface") /\ o # NoObj
  <2>1. PICK s \in InterfaceSpecs : o = [obj[r] EXCEPT !.spec = s] \/ o = NewObj(s, Parent[r])
    BY Zenon, <1>3 DEF ObjectEdit
  <2>2. s # "none" /\ obj[r] \in Object
    BY <1>0, InterfaceSpecsAssumption DEF TypeOK
  <2>3. /\ o.spec = s /\ o.st \subseteq obj[r].st
        /\ \/ o.here = obj[r].here /\ o.owner = obj[r].owner /\ o.del = obj[r].del
           \/ o.owner = Parent[r] /\ ~o.del
    BY <2>1, <2>2 DEF NewObj, Object
  <2>4. r \notin OfKind("NFDeployment") /\ r \notin Claims /\ r \notin OfKind("NAD") /\ r \in Authored
    BY Zenon, <1>3 DEF OfKind, Claims, Authored
  <2>5. Ownership'
    BY Zenon, <1>0, <1>1, <2>2, <2>3 DEF Ownership
  <2>6. AuthoredIntact'
    BY Zenon, <1>0, <1>1, <2>3, <2>4 DEF AuthoredIntact, Authored, OfKind
  <2>7. OwnAllocation' /\ ReadyClaimIsAllocated'
    BY Zenon, <1>0, <1>1, <2>4 DEF OwnAllocation, ReadyClaimIsAllocated, Claims, OfKind
  <2>8. AllocationsOfOwnInterface'
    BY Zenon, <1>0, <1>1, <2>3, <2>4 DEF AllocationsOfOwnInterface, OfKind
  <2> QED BY Zenon, <2>5, <2>6, <2>7, <2>8
<1>4. r \in OfKind("Interface") => r \notin OfKind("NFDeployment")
  BY Zenon DEF OfKind
<1> QED BY <1>2, <1>3, <1>4 DEF ObjectEdit

(* Every step keeps the invariant.                                          *)
LEMMA InvStep == IInv /\ [Next]_vars => IInv'
<1> SUFFICES ASSUME IInv, [Next]_vars PROVE IInv'
  OBVIOUS
<1>0. TypeOK /\ TypeOK'
  BY Zenon, TypeStep DEF IInv
<1>1. ASSUME NEW F \in Fns, NEW up \in BOOLEAN, FunctionRun(F, up) PROVE IInv'
  BY Zenon, <1>0, <1>1, InvRun DEF IInv
<1>2. ASSUME NEW r \in Ref, NEW o \in Object, ObjectEdit(r, o) PROVE IInv'
  BY Zenon, <1>0, <1>2, InvObjectEdit DEF IInv
<1>3. ASSUME NEW r \in Ref, ConditionEdit(r) PROVE IInv'
  <2>1. obj' = obj /\ \A q \in Ref : cond'[q] \in {cond[q], NoCond}
    BY Zenon, <1>0, <1>3 DEF ConditionEdit, TypeOK
  <2>2a. Ownership'
    BY <2>1 DEF IInv, Ownership, NoCond
  <2>2b. ReadyClaimIsAllocated'
    BY <2>1 DEF IInv, ReadyClaimIsAllocated, NoCond, Claims, OfKind
  <2>3. AuthoredIntact' /\ OwnAllocation' /\ AllocationsOfOwnInterface'
    BY Zenon, <2>1 DEF IInv, AuthoredIntact, OwnAllocation, AllocationsOfOwnInterface
  <2> QED BY Zenon, <1>0, <2>2a, <2>2b, <2>3 DEF IInv
<1>4. CASE PackageKept
  BY <1>0, <1>4 DEF PackageKept, IInv, Ownership, AuthoredIntact, OwnAllocation,
     ReadyClaimIsAllocated, AllocationsOfOwnInterface
<1> QED BY Zenon, <1>0, <1>1, <1>2, <1>3, <1>4, NextCases

(* The inductive invariant, from which the theorems below follow: every     *)
(* resource is written only by the functions the choreography gives it to,  *)
(* and what a claim or an Interface carries was allocated for it.           *)
THEOREM InvariantHolds == Spec => []IInv
  BY InvInit, InvStep, PTL DEF Spec

(* In every package, a claim whose condition is True carries an allocation  *)
(* for its present spec, through any interleaving of runs of the functions, *)
(* backend failures and edits: stage 1 takes the condition back in the run  *)
(* that writes the spec (upsertChildObject, SetConditions).                 *)
THEOREM ReadyClaims == Spec => []ReadyClaimIsAllocated
<1>1. IInv => ReadyClaimIsAllocated
  BY DEF IInv
<1> QED BY <1>1, InvariantHolds, PTL

(* In every package, no matter how many Interfaces one run handles, a NAD   *)
(* or an Interface only records allocations of claims of its own Interface  *)
(* (populate and getResources file by owner).                               *)
THEOREM AllocationsNotMixed == Spec => []AllocationsOfOwnInterface
<1>1. IInv => AllocationsOfOwnInterface
  BY DEF IInv
<1> QED BY <1>1, InvariantHolds, PTL

(* No run of any function removes, or annotates for deletion, a resource    *)
(* that came with the package (ChildInitial in diff and, for the Capacity,  *)
(* ChildLocal together with the NFDeployment being there).                  *)
THEOREM AuthoredKept == Spec => AuthoredResourcesKept
<1> DEFINE Kept == edits' = edits =>
              \A r \in Authored : obj[r].here => obj'[r].here /\ ~obj'[r].del
<1>1. ASSUME IInv, [Next]_vars PROVE Kept
  <2>0. TypeOK /\ Ownership /\ AuthoredIntact /\ \A r \in Authored : r \in Ref
    BY Zenon, <1>1 DEF IInv, Authored, OfKind
  <2>1. ASSUME NEW F \in Fns, NEW up \in BOOLEAN, FunctionRun(F, up) PROVE Kept
    <3>1. \A r \in Authored : obj'[r] = runObj(F, r, up)
      BY <2>0, <2>1 DEF FunctionRun, Run
    <3> QED BY <2>0, <3>1, RunAuthored
  <2>2. (\E r \in Ref, o \in Object : ObjectEdit(r, o)) \/ (\E r \in Ref : ConditionEdit(r)) => Kept
    BY Zenon DEF ObjectEdit, ConditionEdit
  <2>3. CASE PackageKept
    BY <2>0, <2>3 DEF PackageKept, AuthoredIntact
  <2> QED BY Zenon, <1>1, <2>0, <2>1, <2>2, <2>3, NextCases
<1>2. IInv /\ [Next]_vars => [Kept]_vars
  BY Zenon, <1>1
<1> QED BY <1>2, InvariantHolds, PTL DEF Spec, AuthoredResourcesKept

-----------------------------------------------------------------------------
(* A condition of a NAD is raised only by nad-fn, in stage 2.               *)
LEMMA NadRaised ==
    ASSUME TypeOK, NEW F \in Fns, NEW up, NEW n \in OfKind("NAD"),
           runCond(F, n, up).status = "True", cond[n].status # "True"
    PROVE  /\ F.for = "NAD" /\ IsFor(F, n) /\ n \in Ref
           /\ ForUpdated(F, n, up, runCond(F, n, up), runObj(F, n, up))
<1> DEFINE c == runCond(F, n, up)
           o == runObj(F, n, up)
<1>0. n \in Ref /\ Kind[n] = "NAD"
  BY DEF OfKind
<1>1. IsFor(F, n)
  <2> SUFFICES ASSUME ~IsFor(F, n) PROVE FALSE
    OBVIOUS
  <2>1. ownKind(F, n) \notin {"remote", "local"}
    BY Zenon, <1>0, FnConfig DEF ownKind
  <2>2. createdStatus(F, n) = "False"
    BY Zenon, <2>1 DEF createdStatus
  <2> QED BY <1>0, <2>1, <2>2, ChildStep
          DEF Untouched, ConditionOnly, Annotated, Written, childCondition, NoCond
<1>2. ~ForKept(F, n, c, o) /\ ~ForRemoved(F, n, c, o)
  BY DEF ForKept, ForRemoved, ForConditions, NoCond
<1> QED BY Zenon, <1>0, <1>1, <1>2, ForStep DEF IsFor

(* Claims are left alone by nad-fn.                                         *)
LEMMA NadFnKeepsClaims ==
    ASSUME NEW F \in Fns, NEW up, NEW r \in Claims, F.for = "NAD"
    PROVE  runCond(F, r, up) = cond[r] /\ runObj(F, r, up) = obj[r] /\ stage1Obj(F, r) = obj[r]
<1>1. r \in Ref /\ ~IsFor(F, r) /\ Kind[r] \in Kinds
  BY RefKinds DEF Claims, OfKind, IsFor
<1>2. F.owns[Kind[r]] = ""
  BY Zenon, <1>1, FnConfig
<1>3. ~IsOwn(F, r) /\ newResource(F, r) = "none" /\ ~deleteObjs(F, r)
  BY Zenon, <1>2 DEF IsOwn, newResource, deleteObjs
<1>4. stage1Obj(F, r) = obj[r]
  BY <1>3 DEF stage1Obj, createObjs, updateObjs, updateDeleteAnnotations, compareSpecs
<1> QED BY Zenon, <1>1, <1>3, <1>4, ChildStep DEF Untouched, ConditionOnly, Annotated, Written

(* A NAD is declared ready only from claims that are all ready, and carries *)
(* no address or vlan that is not allocated: nad-fn reads its claims in     *)
(* stage 2 behind getReadyMap, and a ready claim is an allocated one.       *)
THEOREM NadFromReadyClaims == Spec => NadBuiltFromReadyClaims
<1> DEFINE P(n) == /\ \A r \in Claims : obj'[r].owner = Parent[n] => cond'[r].status = "True"
                   /\ \A x \in obj'[n].st : x[2] # "none"
           Built == \A n \in OfKind("NAD") :
                       cond'[n].status = "True" /\ cond[n].status # "True" => P(n)
<1>1. ASSUME IInv, [Next]_vars PROVE Built
  <2> SUFFICES ASSUME NEW n \in OfKind("NAD"), cond'[n].status = "True", cond[n].status # "True"
               PROVE  P(n)
    OBVIOUS
  <2>0. /\ TypeOK /\ Ownership /\ OwnAllocation /\ ReadyClaimIsAllocated
        /\ n \in Ref /\ Kind[n] = "NAD" /\ \A r \in Claims : r \in Ref
    BY <1>1 DEF IInv, OfKind, Claims
  <2>1. ~PackageKept /\ ~\E r \in Ref, o \in Object : ObjectEdit(r, o)
    BY Zenon DEF PackageKept, ObjectEdit
  <2>2. ~\E r \in Ref : ConditionEdit(r)
    <3> SUFFICES ASSUME NEW r \in Ref, ConditionEdit(r) PROVE FALSE
      OBVIOUS
    <3>1. cond' = [cond EXCEPT ![r] = NoCond] /\ cond \in [Ref -> Condition]
      BY Zenon, <2>0 DEF ConditionEdit, TypeOK
    <3>2. cond'[n] = IF n = r THEN NoCond ELSE cond[n]
      BY Zenon, <2>0, <3>1
    <3>3. CASE n = r
      BY <3>2, <3>3 DEF NoCond
    <3>4. CASE n # r
      BY Zenon, <3>2, <3>4
    <3> QED BY Zenon, <3>3, <3>4
  <2>3. PICK F \in Fns, up \in BOOLEAN : FunctionRun(F, up)
    BY Zenon, <1>1, <2>0, <2>1, <2>2, NextCases
  <2>4. \A r \in Ref : cond'[r] = runCond(F, r, up) /\ obj'[r] = runObj(F, r, up)
    BY Zenon, <2>3 DEF FunctionRun, Run
  <2>5. /\ F.for = "NAD" /\ IsFor(F, n)
        /\ ForUpdated(F, n, up, runCond(F, n, up), runObj(F, n, up))
    BY Zenon, <2>0, <2>4, NadRaised
  <2>6. \A r \in Claims : cond'[r] = cond[r] /\ obj'[r] = obj[r] /\ stage1Obj(F, r) = obj[r]
    BY Zenon, <2>0, <2>4, <2>5, NadFnKeepsClaims
  <2>7. F.watch = {"IPClaim", "VLANClaim", "Interface"}
    BY Zenon, <2>5, FnConfig
  <2>8. cond[n].reason = Parent[n] /\ Parent[n] # NoRef
    <3>1. related(F, n) # {}
      BY <2>5 DEF ForUpdated, UpdateErr
    <3>2. \A k \in Kinds : F.owns[k] = ""
      BY Zenon, <2>5, FnConfig
    <3>3. Children(F, n) = {}
      BY Zenon, <3>2, RefKinds DEF Children, IsOwn
    <3>4. watches(F, n) # {}
      BY <3>1, <3>3 DEF related
    <3> QED BY Zenon, <2>0, <3>4 DEF watches, Ownership
  <2>9. Kind[Parent[n]] = "Interface"
    BY Zenon, <2>0, <2>8, RefKinds DEF ParentKinds
  <2>10. \A w \in watches(F, n) : watchReady(F, n, w)
    BY Zenon, <2>5 DEF ForUpdated, forReady
  <2>11. ASSUME NEW r \in Claims, r \in watches(F, n) PROVE cond[r].status = "True"
    <3>1. r # Parent[n]
      BY <2>9 DEF Claims, OfKind
    <3> QED BY Zenon, <2>8, <2>10, <2>11, <3>1 DEF watchReady
  <2>12. ASSUME NEW r \in Claims, obj'[r].owner = Parent[n] PROVE cond'[r].status = "True"
    <3>1. r \in watches(F, n)
      BY Zenon, <2>0, <2>6, <2>7, <2>8, <2>12 DEF watches, Claims, OfKind
    <3> QED BY Zenon, <2>6, <2>11, <3>1
  <2>13. ASSUME NEW x \in obj'[n].st PROVE x[2] # "none"
    <3>1. x \in Statuses(stage1Objs(F), related(F, n), {"IPClaim", "VLANClaim"})
      <4>1. obj'[n].st = UpdateSt(F, n, obj[n], stage1Objs(F), related(F, n))
        <5>1. n \in Ref /\ obj'[n] = runObj(F, n, up)
          BY Zenon, <2>0, <2>4
        <5>2. runObj(F, n, up).st = UpdateSt(F, n, obj[n], stage1Objs(F), related(F, n))
          BY Zenon, <2>0, <2>5, UpdatedStatus
        <5> QED BY Zenon, <5>1, <5>2
      <4>2. UpdateSt(F, n, obj[n], stage1Objs(F), related(F, n))
              \subseteq Statuses(stage1Objs(F), related(F, n), {"IPClaim", "VLANClaim"})
        BY Zenon, <2>5 DEF UpdateSt, nadUpdateResource
      <4> QED BY Zenon, <2>13, <4>1, <4>2
    <3>2. PICK r \in related(F, n) :
            /\ Kind[r] \in {"IPClaim", "VLANClaim"}
            /\ x \in IF stage1Objs(F)[r].st = {} THEN {<<r, "none">>} ELSE stage1Objs(F)[r].st
      BY Zenon, <3>1 DEF Statuses
    <3>3. r \in Claims /\ r \in Ref
      BY Zenon, <3>2 DEF Claims, OfKind, related, Children, watches
    <3>4. r \in watches(F, n) /\ obj[r].here
      BY Zenon, <2>0, <2>5, <3>2, <3>3, RelatedClaims
    <3>5. stage1Objs(F)[r].st = {<<r, obj[r].spec>>} /\ obj[r].spec # "none"
      <4>1. stage1Objs(F)[r] = obj[r]
        BY Zenon, <2>6, <3>3 DEF stage1Objs
      <4>2. obj[r].st = {<<r, obj[r].spec>>}
        BY Zenon, <2>0, <2>11, <3>3, <3>4 DEF ReadyClaimIsAllocated
      <4> QED BY Zenon, <2>0, <3>3, <3>4, <4>1, <4>2 DEF Ownership
    <3>6. x = <<r, obj[r].spec>>
      BY Zenon, <3>2, <3>5
    <3> QED BY Zenon, <3>5, <3>6
  <2> QED BY <2>12, <2>13
<1>2. IInv /\ [Next]_vars => [Built]_vars
  BY Zenon, <1>1
<1> QED BY <1>2, InvariantHolds, PTL DEF Spec, NadBuiltFromReadyClaims

-----------------------------------------------------------------------------
(* What a run of nfdeploy-fn does to a request of the NFDeployment p: its   *)
(* object stays, p is not ready unless the inventory has its condition True *)
(* and then its condition is True after stage 1.                            *)
LEMMA RequestInRun ==
    ASSUME TypeOK, Ownership, AuthoredIntact, NEW F \in Fns, NEW up, F.for = "NFDeployment",
           isReady(F), NEW r \in Ref, Parent[r] \in OfKind("NFDeployment"),
           runObj(F, r, up).here, runCond(F, Parent[r], up).status # "False"
    PROVE  runCond(F, r, up) = [status |-> "True", reason |-> Parent[r]]
<1> DEFINE p == Parent[r]
<1>0. p \in Ref /\ Kind[p] = "NFDeployment" /\ IsFor(F, p) /\ obj[p].here
  BY DEF OfKind, IsFor, AuthoredIntact
<1>1. Kind[r] \in RequestKinds /\ r \in Authored
  BY Zenon, <1>0, RefKinds DEF Kinds, ParentKinds, RequestKinds, Authored, OfKind
<1>2. IsOwn(F, r) /\ F.owns[Kind[r]] \in {"initial", "local"} /\ ~IsFor(F, r)
  BY Zenon, <1>0, <1>1, FnConfig DEF IsOwn, IsFor, RequestKinds
<1>3. newResource(F, r) = "none"
  BY <1>1 DEF newResource, desiredOwnedResourceList, itfceResources, dnnResources,
              dependencyResources, RequestKinds
<1>4. obj[r].here /\ obj[r].owner = p
  <2>1. runObj(F, r, up).here = obj[r].here
    BY Zenon, <1>1, RunAuthored
  <2> QED BY Zenon, <1>1, <2>1 DEF AuthoredIntact
<1>5. existingResource(F, r).here /\ r \in Children(F, p) /\ ForIsHere(F, r)
  BY Zenon, <1>0, <1>2, <1>4 DEF existingResource, Children, InInventory, ForIsHere
<1>6. ownKind(F, r) = F.owns[Kind[r]]
  BY Zenon, <1>5 DEF ownKind
<1>7. ~deleteObjs(F, r) /\ ~deleteConditions(F, r)
  BY Zenon, <1>2, <1>5, <1>6 DEF deleteObjs, deleteConditions
<1>8. ~createObjs(F, r) /\ ~updateObjs(F, r) /\ ~updateDeleteAnnotations(F, r)
  BY <1>3 DEF createObjs, updateObjs, updateDeleteAnnotations, compareSpecs
<1>9. stage1Cond(F, p).status = "False"
  <2>1. CASE updateForCondition(F, p)
    BY Zenon, <1>0, <2>1 DEF stage1Cond
  <2>2. CASE ~updateForCondition(F, p)
    BY Zenon, <1>0, <1>3, <1>5, <2>2 DEF stage1Cond, updateForCondition
  <2> QED BY Zenon, <2>1, <2>2
<1>10. forReady(F, p)
  BY Zenon, <1>0, <1>9 DEF runCond
<1>11. inventoryStatus(F, r) = "True"
  BY Zenon, <1>5, <1>10 DEF forReady
<1>12. runCond(F, r, up) = stage1Cond(F, r)
  BY Zenon, <1>2 DEF runCond
<1>13. CASE createConditions(F, r)
  BY Zenon, <1>2, <1>7, <1>8, <1>11, <1>12, <1>13 DEF inventoryStatus, stage1Cond, childCondition
<1>14. CASE ~createConditions(F, r)
  <2>1. existingCondition(F, r).status = "True"
    BY Zenon, <1>7, <1>11, <1>14 DEF inventoryStatus
  <2>2. cond[r].status = "True" /\ cond[r].reason = p
    BY Zenon, <2>1 DEF existingCondition, NoCond
  <2>3. cond[r] = [status |-> "True", reason |-> p]
    BY Zenon, <2>2 DEF TypeOK, Condition
  <2> QED BY Zenon, <1>2, <1>7, <1>8, <1>12, <1>14, <2>3 DEF stage1Cond
<1> QED BY Zenon, <1>13, <1>14

(* The package is declared specialized only by a run of nfdeploy-fn that    *)
(* leaves the condition of every request of every NFDeployment True (Run of *)
(* a root function, IsReady behind updateForCondition and getReadyMap).     *)
THEOREM SpecializedOnlyWhenReady == Spec => SpecializedWhenRequestsReady
<1> DEFINE Ready == specialize' = "True" /\ specialize # "True" =>
              \A r \in Ref : obj'[r].here /\ Parent[r] \in OfKind("NFDeployment") =>
                  cond'[r] = [status |-> "True", reason |-> Parent[r]]
<1>1. ASSUME IInv, [Next]_vars PROVE Ready
  <2> SUFFICES ASSUME specialize' = "True", specialize # "True", NEW r \in Ref,
                      obj'[r].here, Parent[r] \in OfKind("NFDeployment")
               PROVE  cond'[r] = [status |-> "True", reason |-> Parent[r]]
    OBVIOUS
  <2>0. TypeOK /\ Ownership /\ AuthoredIntact /\ Parent[r] \in Ref /\ Kind[Parent[r]] = "NFDeployment"
    BY <1>1 DEF IInv, OfKind
  <2>1. ~PackageKept /\ ~(\E q \in Ref, o \in Object : ObjectEdit(q, o)) /\ ~(\E q \in Ref : ConditionEdit(q))
    BY Zenon DEF PackageKept, ObjectEdit, ConditionEdit
  <2>2. PICK F \in Fns, up \in BOOLEAN : FunctionRun(F, up)
    BY Zenon, <1>1, <2>0, <2>1, NextCases
  <2>3. \A q \in Ref : cond'[q] = runCond(F, q, up) /\ obj'[q] = runObj(F, q, up)
    BY Zenon, <2>2 DEF FunctionRun, Run
  <2>4. F.root /\ isReady(F) /\ IsReady(F, cond')
    BY <2>2 DEF FunctionRun, Run, specializeStatus
  <2>5. F.for = "NFDeployment"
    BY Zenon, <2>4, FnConfig
  <2>6. runCond(F, Parent[r], up).status # "False"
    BY Zenon, <2>0, <2>3, <2>4, <2>5 DEF IsReady, OfKind
  <2> QED BY Zenon, <2>0, <2>3, <2>4, <2>5, <2>6, RequestInRun
<1>2. IInv /\ [Next]_vars => [Ready]_vars
  BY <1>1
<1> QED BY <1>2, InvariantHolds, PTL DEF Spec, SpecializedWhenRequestsReady
=============================================================================
