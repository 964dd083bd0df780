-------------------------- MODULE ManagedResource --------------------------
(***************************************************************************)
(* A custom resource that stands for something in gitea, and the part of   *)
(* Reconcile that the token and the repository controllers have in common: *)
(* the finalizer, the status and the return paths.                         *)
(*                                                                         *)
(* The API server refuses a write that carries an old resource version;    *)
(* the controller reads from an informer cache that may lag behind, and    *)
(* one worker handles one request at a time.  An action is what Reconcile  *)
(* does up to and including its next call of the API server or of gitea.   *)
(***************************************************************************)
EXTENDS Naturals

CONSTANTS
    Desired,        \* the specs a user gives to the resource
    Policy,         \* spec.lifecycle.deletionPolicy
    MaxCreates,     \* bound on how often the resource is created
    MaxEdits,       \* bound on the edits of its spec
    MaxFaults,      \* bound on the calls that fail
    MaxCrashes      \* bound on the restarts of the controller manager

ASSUME PolicyAssumption == Policy \in {"delete", "orphan"}
ASSUME ManagedBounds ==
    /\ MaxCreates \in Nat /\ MaxEdits \in Nat
    /\ MaxFaults \in Nat /\ MaxCrashes \in Nat

VARIABLES
    cr,        \* the resource in the API server
    cache,     \* the resource in the informer cache of the controller
    synced,    \* the cache has the latest version
    queued,    \* the workqueue holds a request for the resource
    worker,    \* Reconcile: where it is, its copy of cr, what it will report
    fresh,     \* the resource version of the copy is the latest one
    gitea,     \* giteaClient.IsInitialized()
    creates, edits, faults, crashes

counters == <<creates, edits, faults, crashes>>
managedVars == <<cr, cache, synced, queued, worker, fresh, gitea, counters>>

NoSpec == "none"

Absent == [here |-> FALSE, uid |-> 0, deleting |-> FALSE, fin |-> FALSE,
           spec |-> NoSpec, cond |-> "none", url |-> FALSE]

Resource == [here : BOOLEAN, uid : 0..MaxCreates, deleting : BOOLEAN, fin : BOOLEAN,
             spec : Desired \cup {NoSpec}, cond : {"none", "Failed", "Ready"}, url : BOOLEAN]

New(n, s) == [here |-> TRUE, uid |-> n, deleting |-> FALSE, fin |-> FALSE,
              spec |-> s, cond |-> "none", url |-> FALSE]

(* Reconcile at a step, with its copy of the resource and its report.       *)
At(step, copy, report) == [pc |-> step, copy |-> copy, report |-> report]

Idle == At("idle", Absent, "none")

ManagedTypeOK(steps) ==
    /\ cr \in Resource /\ cache \in Resource
    /\ synced \in BOOLEAN /\ queued \in BOOLEAN /\ fresh \in BOOLEAN /\ gitea \in BOOLEAN
    /\ worker \in [pc : {"idle", "finalize", "unfinalize", "status"} \cup steps,
                   copy : Resource, report : {"none", "Failed", "Ready"}]
    /\ creates \in 0..MaxCreates /\ edits \in 0..MaxEdits
    /\ faults \in 0..MaxFaults /\ crashes \in 0..MaxCrashes

ManagedInit ==
    /\ cr = Absent /\ cache = Absent /\ synced = TRUE /\ queued = FALSE
    /\ worker = Idle /\ fresh = FALSE /\ gitea = FALSE
    /\ creates = 0 /\ edits = 0 /\ faults = 0 /\ crashes = 0

-----------------------------------------------------------------------------
(* A write the API server accepts; one that changes nothing makes no new    *)
(* version.                                                                 *)
Store(new) == cr' = new /\ synced' = (synced /\ new = cr)

StoredByUser(new) ==
    /\ new # cr /\ Store(new) /\ fresh' = FALSE
    /\ UNCHANGED <<cache, queued, worker, gitea, faults, crashes>>

Create(s) ==
    /\ ~cr.here /\ creates < MaxCreates
    /\ creates' = creates + 1
    /\ StoredByUser(New(creates + 1, s))
    /\ UNCHANGED edits

EditSpec(s) ==
    /\ cr.here /\ ~cr.deleting /\ edits < MaxEdits
    /\ edits' = edits + 1
    /\ StoredByUser([cr EXCEPT !.spec = s])
    /\ UNCHANGED creates

(* A finalizer keeps a deleted resource until the controller removes it.    *)
Delete ==
    /\ cr.here /\ ~cr.deleting
    /\ StoredByUser(IF cr.fin THEN [cr EXCEPT !.deleting = TRUE] ELSE Absent)
    /\ UNCHANGED <<creates, edits>>

(* The informer catches up and the event handler queues a request.          *)
CacheSync ==
    /\ ~synced
    /\ cache' = cr /\ synced' = TRUE /\ queued' = TRUE
    /\ UNCHANGED <<cr, worker, fresh, gitea, counters>>

(* giteaclient.Start retries until the secret is there and gitea answers.   *)
Start ==
    /\ ~gitea /\ gitea' = TRUE
    /\ UNCHANGED <<cr, cache, synced, queued, worker, fresh, counters>>

(* The manager restarts: its cache is filled anew and gitea is looked for.  *)
Crash ==
    /\ crashes < MaxCrashes /\ crashes' = crashes + 1
    /\ worker' = Idle /\ fresh' = FALSE /\ gitea' = FALSE
    /\ cache' = cr /\ synced' = TRUE /\ queued' = cr.here
    /\ UNCHANGED <<cr, creates, edits, faults>>

Environment ==
    \/ \E s \in Desired : Create(s) \/ EditSpec(s)
    \/ Delete \/ CacheSync \/ Start \/ Crash

-----------------------------------------------------------------------------
ReturnDropsRequest(requeue) ==
    worker' = Idle /\ fresh' = FALSE /\ UNCHANGED queued

(* Reconcile returns; a returned error or Requeue puts the request back.    *)
Return(requeue) ==
    worker' = Idle /\ fresh' = FALSE /\ queued' = (queued \/ requeue)

Goto(step) == worker' = At(step, worker.copy, worker.report) /\ UNCHANGED <<fresh, queued>>

(* cr.SetConditions; the status is written in the step that follows.        *)
Report(c) ==
    /\ worker' = At("status", worker.copy, c)
    /\ UNCHANGED <<fresh, queued>>

Get ==
    /\ worker.pc = "idle" /\ queued /\ queued' = FALSE
    /\ fresh' = (synced /\ cache.here)
    /\ worker' =
         IF ~cache.here THEN Idle
         ELSE IF ~gitea THEN At("status", cache, "Failed")
         ELSE IF ~cache.deleting THEN At("finalize", cache, "none")
         ELSE At(IF Policy = "delete" THEN "delete" ELSE "unfinalize", cache, "none")
    /\ UNCHANGED <<cr, cache, synced, gitea, counters>>

AddFinalizerUnchecked(next) ==
    /\ worker.pc = "finalize"
    /\ IF ~worker.copy.fin /\ fresh THEN Store([cr EXCEPT !.fin = TRUE])
       ELSE UNCHANGED <<cr, synced>>
    /\ worker' = At(next, [worker.copy EXCEPT !.fin = TRUE], worker.report) /\ UNCHANGED <<fresh, queued>>
    /\ UNCHANGED <<cache, gitea, counters>>

AddFinalizer(next) ==
    /\ worker.pc = "finalize"
    /\ \/ worker.copy.fin /\ Goto(next) /\ UNCHANGED <<cr, synced>>
       \/ /\ ~worker.copy.fin /\ fresh
          /\ Store([cr EXCEPT !.fin = TRUE])
          /\ worker' = At(next, [worker.copy EXCEPT !.fin = TRUE], worker.report)
          /\ UNCHANGED <<fresh, queued>>
       \/ ~worker.copy.fin /\ ~fresh /\ Report("Failed") /\ UNCHANGED <<cr, synced>>
    /\ UNCHANGED <<cache, gitea, counters>>

RemoveFinalizer ==
    /\ worker.pc = "unfinalize"
    /\ \/ (~worker.copy.fin \/ ~cr.here) /\ Return(FALSE) /\ UNCHANGED <<cr, synced>>
       \/ worker.copy.fin /\ fresh /\ cr.here /\ Store(Absent) /\ Return(FALSE)
       \/ worker.copy.fin /\ ~fresh /\ cr.here /\ Report("Failed") /\ UNCHANGED <<cr, synced>>
    /\ UNCHANGED <<cache, gitea, counters>>

UpdateStatusOfAnyVersion ==
    /\ worker.pc = "status"
    /\ IF cr.here
       THEN /\ Store([cr EXCEPT !.cond = worker.report, !.url = worker.copy.url])
            /\ Return(worker.report = "Failed")
       ELSE Return(TRUE) /\ UNCHANGED <<cr, synced>>
    /\ UNCHANGED <<cache, gitea, counters>>

(* Status().Update at the end of every path but a completed deletion.       *)
UpdateStatus ==
    /\ worker.pc = "status"
    /\ \/ /\ fresh
          /\ Store([cr EXCEPT !.cond = worker.report, !.url = worker.copy.url])
          /\ Return(worker.report = "Failed")
       \/ ~fresh /\ Return(TRUE) /\ UNCHANGED <<cr, synced>>
    /\ UNCHANGED <<cache, gitea, counters>>

(* A call fails: a status that cannot be written is an error of Reconcile,  *)
(* any other failure is reported in the status.                             *)
Fail ==
    /\ faults < MaxFaults /\ faults' = faults + 1
    /\ IF worker.pc = "status" THEN Return(TRUE) ELSE Report("Failed")
    /\ UNCHANGED <<cr, cache, synced, gitea, creates, edits, crashes>>

FinalizerFails ==
    /\ \/ worker.pc = "finalize" /\ ~worker.copy.fin
       \/ worker.pc = "unfinalize" /\ worker.copy.fin
       \/ worker.pc = "status"
    /\ Fail
=============================================================================
