-------------------------- MODULE RepositoryProofs --------------------------
(***************************************************************************)
(* No repository of gitea is orphaned, and Ready is only declared for what *)
(* gitea has, for any set of specs and any number of creations, edits,     *)
(* failures and restarts.  The invariant adds to the common one that the   *)
(* finalizer is removed only after the repository is gone, and that a      *)
(* worker about to report Ready has brought gitea in line with its copy.   *)
(***************************************************************************)
EXTENDS RepositoryController, ManagedResourceProofs

Upserting == {"get", "create", "edit"}
AllSteps == {"delete", "get", "create", "edit"}

Repo == [here : BOOLEAN, editable : {"nil", "a", "b"}, fixed : {"nil", "a", "b"}]

RepoGoneFirst == worker.pc = "unfinalize" /\ Policy = "delete" => repo.here = FALSE

ReportsWhatGiteaHas ==
    worker.pc = "status" /\ worker.report = "Ready" =>
        worker.copy.url /\ Matches(worker.copy.spec)

EditsWhatIsThere == worker.pc = "edit" => repo.here = TRUE

IInv ==
    /\ TypeOK /\ MInv(Upserting) /\ NoOrphanedRepo
    /\ RepoGoneFirst /\ ReportsWhatGiteaHas /\ EditsWhatIsThere

(* The steps of this controller are of the form the common lemmas are about.*)
LEMMA RepoSteps == Steps(Upserting, AllSteps)
BY DEF Steps, Upserting, AllSteps

(* Initially there is no repository.                                        *)
LEMMA RepoInitial == Init => IInv
<1> SUFFICES ASSUME Init PROVE IInv
  OBVIOUS
<1>1. ManagedTypeOK(AllSteps) /\ MInv(Upserting)
  BY RepoSteps, ManagedInitial DEF Init
<1>2. repo \in Repo /\ repo.here = FALSE
  BY DEF Init, NoRepo, Repo
<1>3. worker.pc = "idle"
  BY DEF Init, ManagedInit, Idle, At
<1>4. TypeOK
  BY <1>1, <1>2 DEF TypeOK, AllSteps, Repo
<1> QED BY <1>1, <1>2, <1>3, <1>4 DEF IInv, NoOrphanedRepo, RepoGoneFirst, ReportsWhatGiteaHas,
                               EditsWhatIsThere

(* A step that leaves gitea alone keeps the invariant when the finalizer    *)
(* stays and the worker neither turns to removing it nor to reporting Ready.*)
LEMMA RepoKept ==
    ASSUME IInv, ManagedTypeOK(AllSteps)', MInv(Upserting)', UNCHANGED repo,
           Policy = "delete" /\ repo.here => (Kept => Kept'),
           worker'.pc = "unfinalize" /\ Policy = "delete" => worker.pc = "unfinalize",
           worker'.pc = "status" => worker'.report = "Failed" \/ worker' = worker,
           worker'.pc = "edit" => repo.here = TRUE \/ worker' = worker
    PROVE  IInv'
<1>1. TypeOK'
  BY DEF IInv, TypeOK, AllSteps
<1>2. NoOrphanedRepo'
  BY DEF IInv, NoOrphanedRepo, Kept
<1>3. RepoGoneFirst'
  BY DEF IInv, RepoGoneFirst
<1>4. ReportsWhatGiteaHas'
  BY DEF IInv, ReportsWhatGiteaHas, Matches
<1>5. EditsWhatIsThere'
  BY DEF IInv, EditsWhatIsThere
<1> QED BY <1>1, <1>2, <1>3, <1>4, <1>5 DEF IInv

(* What users and the informer do keeps IInv.                               *)
LEMMA RepoEnvironment ==
    ASSUME IInv, Managed(Environment)
    PROVE  IInv'
<1>0. /\ ManagedTypeOK(AllSteps) /\ MInv(Upserting) /\ Steps(Upserting, AllSteps)
      /\ Environment /\ UNCHANGED repo
  BY RepoSteps DEF IInv, TypeOK, AllSteps, Managed
<1>1. /\ ManagedTypeOK(AllSteps)' /\ MInv(Upserting)' /\ (Kept => Kept')
      /\ worker' = worker \/ worker' = Idle
  BY <1>0, EnvironmentStep
<1>2. Idle.pc = "idle"
  BY DEF Idle, At
<1> QED BY <1>0, <1>1, <1>2, RepoKept

(* The steps that Reconcile shares with the token controller.               *)
LEMMA RepoManaged ==
    ASSUME IInv,
           Managed(Get) \/ Managed(AddFinalizer("get")) \/ Managed(RemoveFinalizer)
             \/ Managed(UpdateStatus) \/ Managed(FinalizerFails)
    PROVE  IInv'
<1>0. /\ ManagedTypeOK(AllSteps) /\ MInv(Upserting) /\ Steps(Upserting, AllSteps)
      /\ UNCHANGED repo /\ "get" \in Upserting
  BY RepoSteps DEF IInv, TypeOK, AllSteps, Managed, Upserting
<1>1. CASE Managed(Get)
  <2>1. /\ ManagedTypeOK(AllSteps)' /\ MInv(Upserting)' /\ (Kept => Kept')
        /\ worker'.pc = "unfinalize" => Policy # "delete"
        /\ worker'.pc = "status" => worker'.report = "Failed"
        /\ worker'.pc \notin Upserting
    BY <1>0, <1>1, GetStep DEF Managed
  <2>2. worker'.pc # "edit"
    BY <2>1 DEF Upserting
  <2> QED BY <1>0, <2>1, <2>2, RepoKept
<1>2. CASE Managed(AddFinalizer("get"))
  <2>1. /\ ManagedTypeOK(AllSteps)' /\ MInv(Upserting)' /\ (Kept => Kept')
        /\ worker'.pc \in {"get", "status"}
        /\ worker'.pc = "status" => worker'.report = "Failed"
    BY <1>0, <1>2, AddFinalizerStep DEF Managed
  <2> QED BY <1>0, <2>1, RepoKept
<1>3. CASE Managed(RemoveFinalizer)
  <2>1. /\ ManagedTypeOK(AllSteps)' /\ MInv(Upserting)' /\ worker'.pc \in {"idle", "status"}
        /\ worker'.pc = "status" => worker'.report = "Failed"
    BY <1>0, <1>3, RemoveFinalizerStep DEF Managed
  <2>2. Policy = "delete" => repo.here = FALSE
    BY <1>3 DEF IInv, RepoGoneFirst, Managed, RemoveFinalizer
  <2> QED BY <1>0, <2>1, <2>2, RepoKept
<1>4. CASE Managed(UpdateStatus)
  <2>1. /\ ManagedTypeOK(AllSteps)' /\ MInv(Upserting)' /\ (Kept => Kept') /\ worker'.pc = "idle"
    BY <1>0, <1>4, UpdateStatusStep DEF Managed
  <2> QED BY <1>0, <2>1, RepoKept
<1>5. CASE Managed(FinalizerFails)
  <2>1. Fail /\ worker.pc # "idle"
    BY <1>5 DEF Managed, FinalizerFails
  <2>2. /\ ManagedTypeOK(AllSteps)' /\ MInv(Upserting)' /\ (Kept => Kept')
        /\ worker'.pc \in {"idle", "status"}
        /\ worker'.pc = "status" => worker'.report = "Failed"
    BY <1>0, <2>1, FailStep
  <2> QED BY <1>0, <2>2, RepoKept
<1> QED BY <1>1, <1>2, <1>3, <1>4, <1>5


(* What a call may make of the repository has its type.                     *)
LEMMA RepoTypes ==
    ASSUME IInv
    PROVE  /\ repo \in Repo /\ NoRepo \in Repo /\ NoRepo.here = FALSE
           /\ worker.pc # "idle" => /\ Created \in Repo /\ Created.here = TRUE
                                   /\ Edited \in Repo /\ Edited.here = repo.here
<1>1. repo \in Repo /\ NoRepo \in Repo /\ NoRepo.here = FALSE
  BY DEF IInv, TypeOK, Repo, NoRepo
<1>2. ASSUME worker.pc # "idle"
      PROVE  worker.copy.spec[1] \in {"nil", "a", "b"} /\ worker.copy.spec[2] \in {"nil", "a", "b"}
  <2>1. worker.copy.spec \in {"nil", "a", "b"} \X {"nil", "a", "b"}
    BY <1>2, DesiredAssumption DEF IInv, MInv
  <2> QED BY <2>1
<1>3. worker.pc # "idle" => Created \in Repo /\ Created.here = TRUE
  BY <1>2 DEF Created, Repo
<1>4. worker.pc # "idle" => Edited \in Repo /\ Edited.here = repo.here
  BY <1>1, <1>2 DEF Edited, Repo
<1> QED BY <1>1, <1>3, <1>4

(* deleteRepo goes on to the finalizer only when the repository is gone.    *)
LEMMA RepoDelete ==
    ASSUME IInv, deleteRepo
    PROVE  IInv'
<1>0. /\ ManagedTypeOK(AllSteps) /\ MInv(Upserting) /\ Steps(Upserting, AllSteps)
      /\ worker.pc = "delete" /\ worker.copy \in Resource
      /\ worker.report \in {"none", "Failed", "Ready"}
      /\ UNCHANGED <<cr, cache, synced, gitea, creates, edits, crashes, faults>>
      /\ faults \in 0..MaxFaults
  BY RepoSteps DEF IInv, TypeOK, AllSteps, deleteRepo, Call, counters, ManagedTypeOK
<1>1. CASE repo.here /\ repo' = NoRepo /\ Goto("unfinalize")
  <2>1. /\ worker' = At("unfinalize", worker.copy, worker.report) /\ worker'.pc = "unfinalize"
        /\ UNCHANGED <<fresh, queued>> /\ repo' \in Repo /\ repo'.here = FALSE
    BY <1>1, RepoTypes DEF Goto, At
  <2>2. ManagedTypeOK(AllSteps)' /\ MInv(Upserting)'
    BY <1>0, <2>1, CallStep
  <2>3. TypeOK'
    BY <2>1, <2>2 DEF TypeOK, AllSteps, Repo
  <2> QED BY <2>1, <2>2, <2>3 DEF IInv, NoOrphanedRepo, RepoGoneFirst, ReportsWhatGiteaHas,
                               EditsWhatIsThere
<1>2. CASE ~repo.here /\ Report("Failed") /\ UNCHANGED repo
  <2>1. /\ worker' = At("status", worker.copy, "Failed") /\ worker'.pc = "status"
        /\ worker'.report = "Failed" /\ UNCHANGED <<fresh, queued>>
    BY <1>2 DEF Report, At
  <2>2. ManagedTypeOK(AllSteps)' /\ MInv(Upserting)' /\ (Kept => Kept')
    BY <1>0, <2>1, CallStep
  <2> QED BY <1>2, <2>1, <2>2, RepoKept
<1> QED BY <1>1, <1>2 DEF deleteRepo

(* GetRepo only chooses between creating and editing.                       *)
LEMMA RepoGet ==
    ASSUME IInv, GetRepo \/ GetRepoFails
    PROVE  IInv'
<1>0. /\ ManagedTypeOK(AllSteps) /\ MInv(Upserting) /\ Steps(Upserting, AllSteps)
      /\ worker.pc \in Upserting /\ UNCHANGED repo
      /\ UNCHANGED <<cr, cache, synced, gitea, creates, edits, crashes>>
      /\ "create" \in Upserting /\ "edit" \in Upserting
  BY RepoSteps DEF IInv, TypeOK, AllSteps, Upserting, GetRepo, GetRepoFails, Call, counters
<1>1. faults' \in 0..MaxFaults
  BY <1>0, ManagedBounds DEF ManagedTypeOK, GetRepo, GetRepoFails, Call, counters
<1>2. CASE Goto("create")
  <2>1. /\ ManagedTypeOK(AllSteps)' /\ MInv(Upserting)' /\ (Kept => Kept') /\ worker'.pc = "create"
    BY <1>0, <1>1, <1>2, GotoStep
  <2> QED BY <1>0, <2>1, RepoKept
<1>3. CASE Goto("edit") /\ repo.here
  <2>1. /\ ManagedTypeOK(AllSteps)' /\ MInv(Upserting)' /\ (Kept => Kept') /\ worker'.pc = "edit"
    BY <1>0, <1>1, <1>3, GotoStep
  <2>2. repo.here = TRUE
    BY <1>3, RepoTypes DEF Repo
  <2> QED BY <1>0, <2>1, <2>2, RepoKept
<1> QED BY <1>2, <1>3 DEF GetRepo, GetRepoFails

(* The new state of gitea matches the copy that it was made from.           *)
LEMMA RepoMatches ==
    ASSUME IInv, worker.pc # "idle", NEW r, r = Created \/ (r = Edited /\ repo.here)
    PROVE  r \in Repo /\ r.here = TRUE /\ worker.copy.spec[1] \in {"nil", r.editable}
<1>1. repo \in Repo /\ Edited \in Repo /\ Edited.here = repo.here /\ Created \in Repo /\ Created.here = TRUE
  BY RepoTypes
<1>2. CASE r = Created
  BY <1>1, <1>2 DEF Created
<1>3. CASE r = Edited /\ repo.here
  <2>1. worker.copy.spec[1] \in {"nil", r.editable}
    BY <1>1, <1>3 DEF Edited, Repo
  <2>2. r.here = TRUE
    BY <1>1, <1>3 DEF Repo
  <2> QED BY <1>1, <1>3, <2>1, <2>2
<1> QED BY <1>2, <1>3

(* An upsert runs while the resource has its finalizer, and reports Ready   *)
(* with the URL in its copy.                                                *)
LEMMA RepoUpserted ==
    ASSUME IInv, worker.pc \in Upserting, Upserted, Call,
           repo' = Created \/ (repo' = Edited /\ repo.here)
    PROVE  IInv'
<1> DEFINE c == [worker.copy EXCEPT !.url = TRUE]
<1>0. /\ ManagedTypeOK(AllSteps) /\ MInv(Upserting) /\ Steps(Upserting, AllSteps)
      /\ worker.copy \in Resource /\ worker.pc # "idle"
      /\ UNCHANGED <<cr, cache, synced, gitea, creates, edits, crashes, faults>>
      /\ faults \in 0..MaxFaults
  BY RepoSteps DEF IInv, TypeOK, AllSteps, Upserting, Call, counters, ManagedTypeOK
<1>1. /\ c \in Resource /\ c.here = worker.copy.here /\ c.spec = worker.copy.spec /\ c.url = TRUE
  BY <1>0 DEF Resource
<1>2. /\ worker' = At("status", c, "Ready") /\ UNCHANGED <<fresh, queued>>
  BY DEF Upserted
<1> HIDE DEF c
<1>3. worker'.pc = "status" /\ worker'.copy = c
  BY <1>2 DEF At
<1>4. ManagedTypeOK(AllSteps)' /\ MInv(Upserting)' /\ (Kept => Kept')
  BY <1>0, <1>1, <1>2, CallStep
<1>5. Kept'
  BY <1>0, <1>4 DEF MInv
<1>6. repo' \in Repo /\ repo'.here = TRUE /\ worker.copy.spec[1] \in {"nil", repo'.editable}
  BY <1>0, RepoMatches
<1>7. TypeOK'
  BY <1>4, <1>6 DEF TypeOK, AllSteps, Repo
<1>8. ReportsWhatGiteaHas'
  BY <1>1, <1>3, <1>6 DEF ReportsWhatGiteaHas, Matches
<1> QED BY <1>3, <1>4, <1>5, <1>7, <1>8
        DEF IInv, NoOrphanedRepo, RepoGoneFirst, EditsWhatIsThere, Kept

(* CreateRepo fails for a repository that is there; otherwise both succeed. *)
LEMMA RepoUpsert ==
    ASSUME IInv, CreateRepo \/ EditRepo
    PROVE  IInv'
<1>0. Call /\ worker.pc \in Upserting
  BY DEF CreateRepo, EditRepo, Upserting
<1>1. CASE repo' = Created /\ Upserted
  BY <1>0, <1>1, RepoUpserted
<1>2. CASE EditRepo
  <2>1. repo' = Edited /\ Upserted /\ repo.here
    BY <1>2 DEF EditRepo, IInv, EditsWhatIsThere
  <2> QED BY <1>0, <2>1, RepoUpserted
<1>3. CASE Report("Failed") /\ UNCHANGED repo
  <2>0. /\ ManagedTypeOK(AllSteps) /\ MInv(Upserting) /\ Steps(Upserting, AllSteps)
        /\ worker.copy \in Resource /\ worker.pc # "idle"
        /\ UNCHANGED <<cr, cache, synced, gitea, creates, edits, crashes, faults>>
        /\ faults \in 0..MaxFaults
    BY <1>0, RepoSteps DEF IInv, TypeOK, AllSteps, Upserting, Call, counters, ManagedTypeOK
  <2>1. /\ worker' = At("status", worker.copy, "Failed") /\ worker'.pc = "status"
        /\ worker'.report = "Failed" /\ UNCHANGED <<fresh, queued>>
    BY <1>3 DEF Report, At
  <2>2. ManagedTypeOK(AllSteps)' /\ MInv(Upserting)' /\ (Kept => Kept')
    BY <2>0, <2>1, CallStep
  <2> QED BY <1>3, <2>1, <2>2, RepoKept
<1> QED BY <1>1, <1>2, <1>3 DEF CreateRepo

(* A call of gitea fails, with or without an effect.                        *)
LEMMA RepoFails ==
    ASSUME IInv, CallFails
    PROVE  IInv'
<1>0. /\ ManagedTypeOK(AllSteps) /\ MInv(Upserting) /\ Steps(Upserting, AllSteps)
      /\ Fail /\ worker.pc \in AllSteps /\ worker.pc \notin {"idle", "unfinalize"}
  BY RepoSteps DEF IInv, TypeOK, AllSteps, CallFails
<1>1. /\ ManagedTypeOK(AllSteps)' /\ MInv(Upserting)' /\ (Kept => Kept')
      /\ worker'.pc \in {"idle", "status"}
      /\ worker'.pc = "status" => worker'.report = "Failed"
  BY <1>0, FailStep
<1>2. CASE UNCHANGED repo
  BY <1>1, <1>2, RepoKept
<1>3. CASE repo' = NoRepo
  <2>1. repo' \in Repo /\ repo'.here = FALSE
    BY <1>3, RepoTypes
  <2>2. TypeOK'
    BY <1>1, <2>1 DEF TypeOK, AllSteps, Repo
  <2> QED BY <1>1, <2>1, <2>2 DEF IInv, NoOrphanedRepo, RepoGoneFirst, ReportsWhatGiteaHas,
                                  EditsWhatIsThere
<1>4. CASE worker.pc \in Upserting /\ (repo' = Created \/ repo' = Edited)
  <2>1. repo' \in Repo
    BY <1>0, <1>4, RepoTypes
  <2>2. Kept'
    BY <1>0, <1>1, <1>4 DEF MInv
  <2>3. TypeOK'
    BY <1>1, <2>1 DEF TypeOK, AllSteps, Repo
  <2> QED BY <1>1, <2>2, <2>3 DEF IInv, NoOrphanedRepo, RepoGoneFirst, ReportsWhatGiteaHas,
                                  EditsWhatIsThere, Kept
<1>5. \/ UNCHANGED repo \/ repo' = NoRepo
      \/ worker.pc \in Upserting /\ (repo' = Created \/ repo' = Edited)
  BY DEF CallFails, Upserting
<1> QED BY <1>2, <1>3, <1>4, <1>5

-----------------------------------------------------------------------------
(* The invariant of the repository controller.                              *)
THEOREM RepositoryInvariant == Spec => []IInv
<1>1. IInv /\ [Next]_vars => IInv'
  <2> SUFFICES ASSUME IInv, [Next]_vars PROVE IInv'
    OBVIOUS
  <2>1. CASE Managed(Environment)
    BY <2>1, RepoEnvironment
  <2>2. CASE Reconcile
    BY <2>2, RepoManaged, RepoDelete, RepoGet, RepoUpsert DEF Reconcile
  <2>3. CASE Managed(FinalizerFails) \/ GetRepoFails \/ CallFails
    BY <2>3, RepoManaged, RepoGet, RepoFails
  <2>4. CASE UNCHANGED vars
    <3>1. UNCHANGED <<cr, cache, synced, queued, worker, fresh, gitea, creates, edits,
                      faults, crashes, repo>>
      BY <2>4 DEF vars, managedVars, counters
    <3>2. ManagedTypeOK(AllSteps)'
      BY <3>1 DEF IInv, TypeOK, AllSteps, ManagedTypeOK
    <3>3. MInv(Upserting)' /\ (Kept => Kept')
      BY <3>1 DEF IInv, MInv, Kept
    <3> QED BY <3>1, <3>2, <3>3, RepoKept
  <2> QED BY <2>1, <2>2, <2>3, <2>4 DEF Next
<1> QED BY RepoInitial, <1>1, PTL DEF Spec

(* With deletion policy "delete" gitea never keeps a repository whose       *)
(* resource is gone or has lost its finalizer.                              *)
THEOREM RepoNotOrphaned == Spec => []NoOrphanedRepo
<1>1. IInv => NoOrphanedRepo
  BY DEF IInv
<1> QED BY RepositoryInvariant, <1>1, PTL

(* Only UpdateStatus declares a resource Ready: users create it without a   *)
(* condition, and the finalizer leaves the condition alone.                 *)
LEMMA OnlyStatusDeclares ==
    ASSUME IInv, Next, ~Managed(UpdateStatus), cr'.cond = "Ready"
    PROVE  cr.cond = "Ready"
<1>0. cr \in Resource
  BY DEF IInv, TypeOK, ManagedTypeOK
<1>1. \/ UNCHANGED cr
      \/ cr' = Absent
      \/ cr' = [cr EXCEPT !.fin = TRUE]
      \/ cr' = [cr EXCEPT !.deleting = TRUE]
      \/ \E s \in Desired : cr' = New(creates + 1, s) \/ cr' = [cr EXCEPT !.spec = s]
  <2>1. CASE Managed(Environment)
    <3>1. CASE CacheSync \/ Start \/ Crash
      BY <3>1 DEF CacheSync, Start, Crash
    <3>2. CASE Delete
      BY <3>2 DEF Delete, StoredByUser, Store
    <3>3. CASE \E s \in Desired : Create(s) \/ EditSpec(s)
      BY <3>3 DEF Create, EditSpec, StoredByUser, Store
    <3> QED BY <2>1, <3>1, <3>2, <3>3 DEF Managed, Environment
  <2>2. CASE Reconcile
    <3>1. CASE Managed(AddFinalizer("get"))
      BY <3>1 DEF Managed, AddFinalizer, Store
    <3>2. CASE Managed(RemoveFinalizer)
      BY <3>2 DEF Managed, RemoveFinalizer, Store
    <3>3. CASE Managed(Get) \/ deleteRepo \/ GetRepo \/ CreateRepo \/ EditRepo
      BY <3>3 DEF Managed, Get, deleteRepo, GetRepo, CreateRepo, EditRepo, Call
    <3> QED BY <2>2, <3>1, <3>2, <3>3 DEF Reconcile
  <2>3. CASE Managed(FinalizerFails) \/ GetRepoFails \/ CallFails
    BY <2>3 DEF Managed, FinalizerFails, GetRepoFails, CallFails, Fail
  <2> QED BY <2>1, <2>2, <2>3 DEF Next
<1>2. CASE \E s \in Desired : cr' = New(creates + 1, s) \/ cr' = [cr EXCEPT !.spec = s]
  BY <1>0, <1>2 DEF New, Resource
<1> QED BY <1>0, <1>1, <1>2 DEF Absent, Resource

(* Ready is declared only when gitea has what the spec asks for at that     *)
(* moment, however the spec is edited while upsertRepo runs.                *)
THEOREM ReadyInSync == Spec => ReadyOnlyWhenInSync
<1>1. IInv /\ [Next]_vars =>
        [cr'.cond = "Ready" /\ cr.cond # "Ready" => Matches(cr'.spec) /\ cr'.url]_vars
  <2> SUFFICES ASSUME IInv, Next, cr'.cond = "Ready", cr.cond # "Ready"
               PROVE  Matches(cr'.spec) /\ cr'.url
    BY DEF vars
  <2>1. Managed(UpdateStatus)
    BY OnlyStatusDeclares
  <2>2. /\ cr \in Resource /\ worker.pc = "status" /\ worker.copy \in Resource
        /\ worker.report \in {"none", "Failed", "Ready"}
    BY <2>1 DEF IInv, TypeOK, ManagedTypeOK, Managed, UpdateStatus
  <2>3. fresh /\ Store([cr EXCEPT !.cond = worker.report, !.url = worker.copy.url])
    BY <2>1 DEF Managed, UpdateStatus
  <2>4. cr' = [cr EXCEPT !.cond = worker.report, !.url = worker.copy.url]
    BY <2>3 DEF Store
  <2>5. cr'.cond = worker.report /\ cr'.url = worker.copy.url /\ cr'.spec = cr.spec
    BY <2>2, <2>4 DEF Resource
  <2>6. worker.copy.url /\ Matches(worker.copy.spec)
    BY <2>2, <2>5 DEF IInv, ReportsWhatGiteaHas
  <2>7. cr.spec = worker.copy.spec
    BY <2>2, <2>3 DEF IInv, MInv
  <2> QED BY <2>5, <2>6, <2>7 DEF Matches
<1> QED BY RepositoryInvariant, <1>1, PTL DEF Spec, ReadyOnlyWhenInSync
=============================================================================
