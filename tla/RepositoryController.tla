------------------------ MODULE RepositoryController ------------------------
(***************************************************************************)
(* The repository controller: a Repository resource stands for a           *)
(* repository in gitea.  Of its spec some fields (description, private)    *)
(* can be changed in gitea later, the others only take effect when the     *)
(* repository is created.  A spec is a pair of the two parts; "nil" is a   *)
(* part that the user does not set.                                        *)
(***************************************************************************)
EXTENDS ManagedResource

VARIABLE repo      \* the repository in gitea

vars == <<managedVars, repo>>

ASSUME DesiredAssumption == Desired \subseteq {"nil", "a", "b"} \X {"nil", "a", "b"}

NoRepo == [here |-> FALSE, editable |-> "nil", fixed |-> "nil"]

Init == ManagedInit /\ repo = NoRepo

-----------------------------------------------------------------------------
Managed(A) == A /\ UNCHANGED repo

Call == UNCHANGED <<cr, cache, synced, gitea, counters>>

(* cr.Status.URL is set in the copy, and stored by the status update.       *)
Upserted ==
    /\ worker' = At("status", [worker.copy EXCEPT !.url = TRUE], "Ready")
    /\ UNCHANGED <<fresh, queued>>

deleteRepo ==
    /\ worker.pc = "delete"
    /\ \/ repo.here /\ repo' = NoRepo /\ Goto("unfinalize")
       \/ ~repo.here /\ Report("Failed") /\ UNCHANGED repo
    /\ Call

(* upsertRepo: any error of GetRepo is taken for "there is no such repo".   *)
GetRepo ==
    /\ worker.pc = "get"
    /\ Goto(IF repo.here THEN "edit" ELSE "create")
    /\ UNCHANGED repo
    /\ Call

GetRepoFails ==
    /\ worker.pc = "get" /\ faults < MaxFaults /\ faults' = faults + 1
    /\ Goto("create")
    /\ UNCHANGED <<repo, cr, cache, synced, gitea, creates, edits, crashes>>

Created == [here |-> TRUE, editable |-> worker.copy.spec[1], fixed |-> worker.copy.spec[2]]

CreateRepo ==
    /\ worker.pc = "create"
    /\ \/ ~repo.here /\ repo' = Created /\ Upserted
       \/ repo.here /\ Report("Failed") /\ UNCHANGED repo
    /\ Call

(* EditRepo leaves alone what the spec does not set.                        *)
Edited ==
    [repo EXCEPT !.editable = IF worker.copy.spec[1] = "nil" THEN @ ELSE worker.copy.spec[1]]

EditRepo ==
    /\ worker.pc = "edit"
    /\ repo' = Edited
    /\ Upserted
    /\ Call

(* A call fails, before or after gitea has done what it was asked for.      *)
CallFails ==
    /\ worker.pc \in {"delete", "get", "create", "edit"}
    /\ Fail
    /\ \/ UNCHANGED repo
       \/ worker.pc = "delete" /\ repo.here /\ repo' = NoRepo
       \/ worker.pc = "create" /\ ~repo.here /\ repo' = Created
       \/ worker.pc = "edit" /\ repo' = Edited

Reconcile ==
    \/ Managed(Get) \/ Managed(AddFinalizer("get")) \/ Managed(RemoveFinalizer)
    \/ Managed(UpdateStatus)
    \/ deleteRepo \/ GetRepo \/ CreateRepo \/ EditRepo

Next ==
    \/ Managed(Environment)
    \/ Reconcile
    \/ Managed(FinalizerFails) \/ GetRepoFails \/ CallFails

Spec == Init /\ [][Next]_vars

(* The worker goes on while it has something to do, the watch of the        *)
(* informer delivers, and Start keeps trying.                               *)
FairSpec ==
    /\ Spec
    /\ WF_vars(Reconcile)
    /\ WF_vars(Managed(CacheSync)) /\ WF_vars(Managed(Start))

-----------------------------------------------------------------------------
TypeOK ==
    /\ ManagedTypeOK({"delete", "get", "create", "edit"})
    /\ repo \in [here : BOOLEAN, editable : {"nil", "a", "b"}, fixed : {"nil", "a", "b"}]

Matches(spec) == repo.here /\ spec[1] \in {"nil", repo.editable}

(* The finalizer is there "to avoid deleting the repo w/o it being deleted  *)
(* from the git server": as long as gitea has the repository, the resource  *)
(* is there with its finalizer.                                             *)
NoOrphanedRepo == Policy = "delete" /\ repo.here => cr.here /\ cr.fin

(* A Repository is declared Ready only when the repository in gitea has     *)
(* what the spec asks for at that moment: a spec that was edited while      *)
(* upsertRepo ran makes the status update fail.                             *)
ReadyOnlyWhenInSync ==
    [][cr'.cond = "Ready" /\ cr.cond # "Ready" => Matches(cr'.spec) /\ cr'.url]_vars

(* Once edits and failures stop, gitea has the latest spec for good, in     *)
(* every field that can be changed.                                         *)
EventuallyInSync ==
    <>[](cr.here /\ ~cr.deleting => Matches(cr.spec) /\ cr.cond = "Ready")
=============================================================================
