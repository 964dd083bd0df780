----------------------------- MODULE KptCondSdk -----------------------------
(***************************************************************************)
(* condkptsdk: what one run of the sdk does to a package on behalf of a    *)
(* function F (a Config record).  sdk.Run builds an inventory from the     *)
(* conditions and the items, calls the global watches, then goes through   *)
(* stage 1 (populate the children, diff, update the children) and stage 2  *)
(* (update the for resource when its children and watches are ready).      *)
(*                                                                         *)
(* Every operator below gives the result for one resource r of the package *)
(* (or one for resource f).  The sdk's loops treat the resources           *)
(* independently, so their iteration order does not show.                  *)
(***************************************************************************)
EXTENDS SpecializerFns

(* initializeGVKInventory and isGVKMatch: the role of a resource for F.     *)
IsFor(F, r) == Kind[r] = F.for

IsOwn(F, r) == F.owns[Kind[r]] # "" /\ Parent[r] \in OfKind(F.for)

HasOwns(F) == \E k \in Kinds : F.owns[k] # ""

(* populateInventory: a condition is filed under the owner its reason       *)
(* names, an object under the owner its annotation names.                   *)
existingCondition(F, r) ==
    IF IsOwn(F, r) /\ cond[r].reason = Parent[r] THEN cond[r] ELSE NoCond

existingResource(F, r) ==
    IF IsOwn(F, r) /\ obj[r].owner = Parent[r] THEN obj[r] ELSE NoObj

(* callGlobalWatches leaves the inventory ready unless a callback fails.    *)
isReady(F) == WorkloadClusterCallbackOK(F)

(* populateChildren: the new resource for r, and the for resources whose    *)
(* PopulateOwnResourcesFn fails (the inventory then says "failed").         *)
newResource(F, r) ==
    IF IsOwn(F, r) /\ isReady(F) /\ obj[Parent[r]].here /\ ~PopulateErr(F)
    THEN desiredOwnedResourceList(F, obj[Parent[r]].spec, r)
    ELSE "none"

failed(F, f) == HasOwns(F) /\ isReady(F) /\ obj[f].here /\ PopulateErr(F)

forCondition(F, f) ==
    IF failed(F, f) THEN [status |-> "False", reason |-> NoRef] ELSE cond[f]

InInventory(F, r) ==
    \/ existingCondition(F, r).status # "none"
    \/ existingResource(F, r).here
    \/ newResource(F, r) # "none"

Children(F, f) == {r \in Ref : IsOwn(F, r) /\ Parent[r] = f /\ InInventory(F, r)}

(* The ownKind is only known for an entry that has an object.               *)
ownKind(F, r) ==
    IF existingResource(F, r).here \/ newResource(F, r) # "none"
    THEN F.owns[Kind[r]] ELSE ""

-----------------------------------------------------------------------------
(* diff: what is to be done about child r of an entry of the inventory.     *)
ForIsHere(F, r) == IsOwn(F, r) /\ obj[Parent[r]].here

createConditions(F, r) ==
    ForIsHere(F, r) /\ InInventory(F, r) /\ existingCondition(F, r).status = "none"

deleteConditions(F, r) ==
    /\ IsOwn(F, r) /\ existingCondition(F, r).status # "none"
    /\ ForIsHere(F, r) =>
          newResource(F, r) = "none" /\ ownKind(F, r) \notin {"initial", "local"}

createObjs(F, r) ==
    ~existingResource(F, r).here /\ newResource(F, r) # "none"

deleteObjsOfAnyKind(F, r) ==
    /\ IsOwn(F, r) /\ existingResource(F, r).here
    /\ newResource(F, r) = "none"

deleteObjs(F, r) ==
    /\ IsOwn(F, r) /\ existingResource(F, r).here
    /\ IF ForIsHere(F, r)
       THEN newResource(F, r) = "none" /\ ownKind(F, r) \notin {"initial", "local"}
       ELSE ownKind(F, r) # "initial"

compareSpecs(F, r) ==
    /\ existingResource(F, r).here
    /\ newResource(F, r) # "none"
    /\ ownKind(F, r) # "remoteCondition"

updateObjsNever(F, r) == FALSE

updateObjs(F, r) ==
    compareSpecs(F, r) /\ existingResource(F, r).spec # newResource(F, r)

updateDeleteAnnotations(F, r) == compareSpecs(F, r) /\ existingResource(F, r).del

deleteForCondition(F, f) == ~obj[f].here /\ Children(F, f) # {}

updateForCondition(F, f) ==
    /\ obj[f].here /\ forCondition(F, f).status # "False"
    /\ \E r \in Children(F, f) :
          \/ newResource(F, r) = "none"
          \/ existingCondition(F, r).status = "none"
          \/ createObjs(F, r) \/ updateObjs(F, r) \/ updateDeleteAnnotations(F, r)

(* The branch for the delete annotation reads the status of the for         *)
(* condition without the nil check that every other branch makes.           *)
nilDereference(F) ==
    \E f \in OfKind(F.for) :
        /\ forCondition(F, f).status = "none"
        /\ \E r \in Children(F, f) : updateDeleteAnnotations(F, r)

-----------------------------------------------------------------------------
childConditionSwapped(F, r, s) == [status |-> Parent[r], reason |-> s]

(* updateChildren.  When the function is not ready the children are marked  *)
(* for deletion and the conditions of vanished for resources go; Run has    *)
(* failed the conditions of the others before (failForConditions).          *)
childCondition(F, r, s) == [status |-> s, reason |-> Parent[r]]

notReadyCond(F, r) ==
    IF deleteObjs(F, r) THEN childCondition(F, r, "False")
    ELSE IF IsFor(F, r) /\ deleteForCondition(F, r) THEN NoCond
    ELSE IF IsFor(F, r) /\ obj[r].here /\ ~F.root THEN [cond[r] EXCEPT !.status = "False"]
    ELSE cond[r]

createdStatus(F, r) == IF ownKind(F, r) = "local" THEN "True" ELSE "False"

stage1CondKeptOnWrite(F, r) ==
    IF IsFor(F, r)
    THEN IF updateForCondition(F, r)
         THEN [status |-> "False", reason |-> NoRef] ELSE forCondition(F, r)
    ELSE IF deleteObjs(F, r) THEN childCondition(F, r, "False")
    ELSE IF createConditions(F, r) THEN childCondition(F, r, createdStatus(F, r))
    ELSE IF deleteConditions(F, r) THEN NoCond
    ELSE cond[r]

(* The conditions of the Kptfile after stage 1 of a ready function; writing *)
(* an object comes after, and overrides, what is done to the condition.     *)
stage1Cond(F, r) ==
    IF IsFor(F, r)
    THEN IF updateForCondition(F, r)
         THEN [status |-> "False", reason |-> NoRef] ELSE forCondition(F, r)
    ELSE IF deleteObjs(F, r) \/ updateObjs(F, r) \/ updateDeleteAnnotations(F, r)
         THEN childCondition(F, r, "False")
    ELSE IF createObjs(F, r) \/ createConditions(F, r)
         THEN childCondition(F, r, createdStatus(F, r))
    ELSE IF deleteConditions(F, r) THEN NoCond
    ELSE cond[r]

(* The inventory only follows the conditions that stage 1 creates and       *)
(* deletes as such, not those it sets while it writes objects.              *)
inventoryStatus(F, r) ==
    IF deleteConditions(F, r) THEN "none"
    ELSE IF createConditions(F, r) THEN createdStatus(F, r)
    ELSE existingCondition(F, r).status

(* deleteChildObject, upsertChildObject: only remote and local children     *)
(* are written by their parent.                                             *)
stage1Obj(F, r) ==
    IF deleteObjs(F, r) THEN [obj[r] EXCEPT !.del = TRUE]
    ELSE IF /\ createObjs(F, r) \/ updateObjs(F, r) \/ updateDeleteAnnotations(F, r)
            /\ ownKind(F, r) \in {"remote", "local"}
         THEN NewObj(newResource(F, r), Parent[r])
    ELSE obj[r]

-----------------------------------------------------------------------------
(* getReadyMap.  The watches of a for resource f hang below the owner that  *)
(* the reason of its condition names: the owner itself and what it owns.    *)
watches(F, f) ==
    LET p == cond[f].reason IN
    {w \in Ref : /\ p # NoRef /\ Kind[w] \in F.watch
                 /\ \/ w = p /\ (obj[w].here \/ cond[w].status # "none")
                    \/ cond[w].reason = p \/ obj[w].owner = p}

watchReadyOnceThere(F, f, w) ==
    w = cond[f].reason \/ cond[w].reason = cond[f].reason

watchReady(F, f, w) ==
    \/ w = cond[f].reason
    \/ cond[w].reason = cond[f].reason /\ cond[w].status = "True"

forReadyOnWatchesOnly(F, f) ==
    /\ cond[f].status # "none" \/ obj[f].here \/ Children(F, f) # {}
    /\ ~failed(F, f)
    /\ \A w \in watches(F, f) : watchReady(F, f, w)

forReady(F, f) ==
    /\ cond[f].status # "none" \/ obj[f].here \/ Children(F, f) # {}
    /\ ~failed(F, f)
    /\ \A r \in Children(F, f) : inventoryStatus(F, r) = "True"
    /\ \A w \in watches(F, f) : watchReady(F, f, w)

(* The objects handed to UpdateResourceFn, as stage 1 left them.            *)
stage1Objs(F) == [r \in Ref |-> stage1Obj(F, r)]

relatedOfAnyOwner(F, f) ==
    {r \in Ref : (F.owns[Kind[r]] # "" \/ Kind[r] \in F.watch) /\ stage1Obj(F, r).here}

related(F, f) ==
    {r \in Children(F, f) : stage1Obj(F, r).here /\ stage1Obj(F, r).owner = f}
    \cup {w \in watches(F, f) : obj[w].here /\ (w = cond[f].reason \/ obj[w].owner = cond[f].reason)}

stage2CondNotRaised(F, f, up) ==
    LET c == stage1Cond(F, f) IN
    IF UpdateErr(F, obj[f], stage1Objs(F), related(F, f), up)
    THEN [c EXCEPT !.status = "False"] ELSE c

(* handleUpdateResource and the upsert of the for object it returns: the    *)
(* reason of the for condition is kept and becomes the owner annotation.    *)
stage2Cond(F, f, up) ==
    LET c == stage1Cond(F, f) IN
    IF UpdateErr(F, obj[f], stage1Objs(F), related(F, f), up)
    THEN [c EXCEPT !.status = "False"]
    ELSE IF UpdateEmpty(F, stage1Objs(F), related(F, f)) THEN c
    ELSE [c EXCEPT !.status = "True"]

stage2Obj(F, f, up) ==
    LET c == stage1Cond(F, f)
        fo == IF F.for = "NAD" THEN NewObj("fixed", NoRef) ELSE obj[f] IN
    IF \/ UpdateErr(F, obj[f], stage1Objs(F), related(F, f), up)
       \/ UpdateEmpty(F, stage1Objs(F), related(F, f))
    THEN obj[f]
    ELSE [fo EXCEPT !.owner = IF c.reason # NoRef THEN c.reason ELSE fo.owner,
                    !.st = UpdateSt(F, f, obj[f], stage1Objs(F), related(F, f))]

(* Watches whose owner no for condition names are filed under a for         *)
(* resource with an empty name, which is always ready: its update fails     *)
(* into a condition without a name, or its result is refused as invalid.    *)
unnamedWatches(F) ==
    LET linked == {cond[f].reason : f \in OfKind(F.for)} \ {NoRef}
        unlinked == OfKind("Interface") \ linked IN
    {w \in Ref : /\ linked # {} /\ Kind[w] \in F.watch
                 /\ \/ w \in unlinked /\ (obj[w].here \/ cond[w].status # "none")
                    \/ cond[w].reason \in unlinked \/ obj[w].owner \in unlinked}

unnamedUpdateFails(F) ==
    /\ isReady(F) /\ unnamedWatches(F) # {}
    /\ UpdateErr(F, NoObj, obj, {w \in unnamedWatches(F) : obj[w].here}, TRUE)

-----------------------------------------------------------------------------
(* sdk.Run: the conditions and the objects it leaves in the package.        *)
runCond(F, r, up) ==
    IF ~isReady(F) THEN notReadyCond(F, r)
    ELSE IF IsFor(F, r) /\ forReady(F, r) THEN stage2Cond(F, r, up)
    ELSE stage1Cond(F, r)

runObj(F, r, up) ==
    IF ~isReady(F)
    THEN IF IsFor(F, r) /\ ~HasOwns(F) THEN NoObj ELSE stage1Obj(F, r)
    ELSE IF IsFor(F, r) /\ forReady(F, r) THEN stage2Obj(F, r, up)
    ELSE stage1Obj(F, r)

(* KptFile.IsReady over the conditions c of the for kind.                   *)
IsReady(F, c) ==
    /\ \E f \in OfKind(F.for) : c[f].status # "none"
    /\ \A f \in OfKind(F.for) : c[f].status # "False"

(* The specialize condition after a run of the root function whose          *)
(* conditions are now c: failed() when the cluster callback failed, else    *)
(* ready() or notReady(), which replace what initialize() put there.        *)
specializeStatus(F, c) == IF isReady(F) /\ IsReady(F, c) THEN "True" ELSE "False"

sdkVars == <<cond, obj, specialize, nameless, panicked>>

Run(F, up) ==
    /\ ~nilDereference(F)
    /\ cond' = [r \in Ref |-> runCond(F, r, up)]
    /\ obj' = [r \in Ref |-> runObj(F, r, up)]
    /\ specialize' = IF F.root THEN specializeStatus(F, cond') ELSE specialize
    /\ nameless' = (nameless \/ unnamedUpdateFails(F))
    /\ panicked' = FALSE

(* A run that panics: its output is lost and the package stays as it was.   *)
RunPanics(F) ==
    /\ nilDereference(F)
    /\ panicked' = TRUE
    /\ UNCHANGED <<cond, obj, specialize, nameless>>
=============================================================================
