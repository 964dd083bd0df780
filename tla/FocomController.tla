--------------------------- MODULE FocomController ---------------------------
(***************************************************************************)
(* The FOCOM operator: a FocomProvisioningRequest stands for a             *)
(* ProvisioningRequest in the cluster of an O-Cloud.  Reconcile creates    *)
(* the remote request, records its name in the status and polls it until   *)
(* it is done; a finalizer keeps the local one until the remote one is     *)
(* deleted.                                                                *)
(*                                                                         *)
(* Requests come from the watch of the resource, status writes included,   *)
(* and from RequeueAfter.  The local resource is read from the informer    *)
(* cache, which may lag; a write of an old version is refused.  An action  *)
(* is what Reconcile does up to and including its next call.               *)
(***************************************************************************)
EXTENDS Naturals

CONSTANTS
    MaxCreates,   \* bound on how often the resource is created
    MaxEdits,     \* bound on what users do to the resources
    MaxFaults,    \* bound on the calls that fail and on what the O-Cloud does over
    MaxCrashes    \* bound on the restarts of the operator

ASSUME FocomBounds ==
    MaxCreates \in Nat /\ MaxEdits \in Nat /\ MaxFaults \in Nat /\ MaxCrashes \in Nat

VARIABLES
    cr,          \* the FocomProvisioningRequest in the API server
    cache,       \* the same in the informer cache
    synced,      \* the cache has the latest version
    queued,      \* the workqueue holds a request
    later,       \* a request is to be added when its RequeueAfter is over
    worker,      \* Reconcile: where it is and its copy of the resource
    fresh,       \* the resource version of the copy is the latest one
    remote,      \* the ProvisioningRequest in the O-Cloud
    template,    \* the TemplateInfo is there and matches
    ocloud,      \* the OCloud and its secret are there
    creates, edits, faults, crashes

vars == <<cr, cache, synced, queued, later, worker, fresh, remote, template, ocloud,
          creates, edits, faults, crashes>>
counters == <<creates, edits, faults, crashes>>

Phases == {"", "failed", "provisioning", "progressing", "deleting", "Fulfilled",
           "Failed"}

Resource == [here : BOOLEAN, deleting : BOOLEAN, fin : BOOLEAN, remoteName : BOOLEAN,
             phase : Phases]

Absent == [here |-> FALSE, deleting |-> FALSE, fin |-> FALSE, remoteName |-> FALSE, phase |-> ""]

(* What the O-Cloud promises about the remote request.                      *)
Remote == INSTANCE ProvisioningRequest WITH request <- remote

Steps == {"idle", "finalize", "validate", "build", "create", "poll", "status", "record",
          "update", "done", "unremote", "unfinalize"}

At(step, copy) == [pc |-> step, copy |-> copy]
Idle == At("idle", Absent)

TypeOK ==
    /\ cr \in Resource /\ cache \in Resource
    /\ synced \in BOOLEAN /\ queued \in BOOLEAN /\ later \in BOOLEAN /\ fresh \in BOOLEAN
    /\ worker \in [pc : Steps, copy : Resource]
    /\ remote \in [here : BOOLEAN, deleting : BOOLEAN, state : Remote!States]
    /\ template \in BOOLEAN /\ ocloud \in BOOLEAN
    /\ creates \in 0..MaxCreates /\ edits \in 0..MaxEdits
    /\ faults \in 0..MaxFaults /\ crashes \in 0..MaxCrashes

Init ==
    /\ cr = Absent /\ cache = Absent /\ synced = TRUE /\ queued = FALSE /\ later = FALSE
    /\ worker = Idle /\ fresh = FALSE /\ Remote!Init
    /\ template \in BOOLEAN /\ ocloud \in BOOLEAN
    /\ creates = 0 /\ edits = 0 /\ faults = 0 /\ crashes = 0

-----------------------------------------------------------------------------
(* Users, the O-Cloud and the infrastructure of the operator.               *)

Stored(new) ==
    /\ cr' = new /\ synced' = FALSE /\ fresh' = FALSE
    /\ UNCHANGED <<cache, queued, later, worker, remote, template, ocloud, faults, crashes>>

Create ==
    /\ ~cr.here /\ creates < MaxCreates /\ creates' = creates + 1
    /\ Stored([Absent EXCEPT !.here = TRUE])
    /\ UNCHANGED edits

(* An edit of the spec, which makes a new version.                          *)
Edit ==
    /\ cr.here /\ edits < MaxEdits /\ edits' = edits + 1
    /\ Stored(cr)
    /\ UNCHANGED creates

Delete ==
    /\ cr.here /\ ~cr.deleting
    /\ Stored(IF cr.fin THEN [cr EXCEPT !.deleting = TRUE] ELSE Absent)
    /\ UNCHANGED <<creates, edits>>

(* TemplateInfo, OCloud and secrets come and go; they are not watched.      *)
SetInventory ==
    /\ edits < MaxEdits /\ edits' = edits + 1
    /\ \/ template' = ~template /\ UNCHANGED ocloud
       \/ ocloud' = ~ocloud /\ UNCHANGED template
    /\ UNCHANGED <<cr, cache, synced, queued, later, worker, fresh, remote, creates, faults, crashes>>

(* Somebody else deletes the remote request.                                *)
DeleteRemote ==
    /\ Remote!Withdraw /\ edits < MaxEdits /\ edits' = edits + 1
    /\ UNCHANGED <<cr, cache, synced, queued, later, worker, fresh, template, ocloud,
                   creates, faults, crashes>>

(* The O-Cloud works on the remote request, or completes its deletion.      *)
RemoteStep ==
    /\ Remote!Work \/ Remote!Remove
    /\ UNCHANGED <<cr, cache, synced, queued, later, worker, fresh, template, ocloud, counters>>

(* ... or takes up again what it had decided: its operator restarts.        *)
RemoteRestart ==
    /\ Remote!WorkAgain /\ faults < MaxFaults /\ faults' = faults + 1
    /\ UNCHANGED <<cr, cache, synced, queued, later, worker, fresh, template, ocloud,
                   creates, edits, crashes>>

CacheSync ==
    /\ ~synced /\ cache' = cr /\ synced' = TRUE /\ queued' = TRUE
    /\ UNCHANGED <<cr, later, worker, fresh, remote, template, ocloud, counters>>

Due ==
    /\ later /\ later' = FALSE /\ queued' = TRUE
    /\ UNCHANGED <<cr, cache, synced, worker, fresh, remote, template, ocloud, counters>>

Crash ==
    /\ crashes < MaxCrashes /\ crashes' = crashes + 1
    /\ worker' = Idle /\ fresh' = FALSE /\ later' = FALSE
    /\ cache' = cr /\ synced' = TRUE /\ queued' = cr.here
    /\ UNCHANGED <<cr, remote, template, ocloud, creates, edits, faults>>

Environment ==
    \/ Create \/ Edit \/ Delete \/ SetInventory \/ DeleteRemote \/ RemoteStep \/ RemoteRestart
    \/ CacheSync \/ Due \/ Crash

-----------------------------------------------------------------------------
(* The ways on from a step of Reconcile.                                    *)

Quiet == UNCHANGED <<cache, remote, template, ocloud, counters>>

Goto(step) == worker' = At(step, worker.copy) /\ UNCHANGED <<fresh, queued, later>>

Return == worker' = Idle /\ fresh' = FALSE /\ UNCHANGED <<queued, later>>

Requeue == worker' = Idle /\ fresh' = FALSE /\ queued' = TRUE /\ UNCHANGED later

RequeueAfter == worker' = Idle /\ fresh' = FALSE /\ later' = TRUE /\ UNCHANGED queued

(* updateStatus on the copy; the status is written in the step that follows.*)
Report(step, p, named) ==
    /\ worker' = At(step, [worker.copy EXCEPT !.phase = p, !.remoteName = @ \/ named])
    /\ UNCHANGED <<fresh, queued, later>>

(* Status().Update.  The status has a time stamp in seconds: a write that   *)
(* repeats the rest of it makes a new version unless the second is the same.*)
StatusUpdate ==
    /\ cr' = [cr EXCEPT !.phase = worker.copy.phase, !.remoteName = worker.copy.remoteName]
    /\ synced' \in {FALSE, synced /\ cr' = cr}

Get ==
    /\ worker.pc = "idle" /\ queued /\ queued' = FALSE
    /\ worker' =
         IF ~cache.here \/ (cache.deleting /\ ~cache.fin) THEN Idle
         ELSE At(CASE cache.deleting /\ cache.remoteName -> "unremote"
                   [] cache.deleting /\ ~cache.remoteName -> "unfinalize"
                   [] ~cache.deleting /\ ~cache.fin -> "finalize"
                   [] OTHER -> "validate", cache)
    /\ fresh' = (synced /\ worker'.pc # "idle")
    /\ UNCHANGED <<cr, synced, later>> /\ Quiet

ensureFinalizer ==
    /\ worker.pc = "finalize"
    /\ IF fresh THEN cr' = [cr EXCEPT !.fin = TRUE] /\ synced' = FALSE ELSE UNCHANGED <<cr, synced>>
    /\ Requeue /\ Quiet

validateTemplateAlignment ==
    /\ worker.pc = "validate"
    /\ IF template THEN Goto("build") ELSE Report("status", "failed", FALSE)
    /\ UNCHANGED <<cr, synced>> /\ Quiet

buildRemoteClient ==
    /\ worker.pc = "build"
    /\ \/ ocloud /\ Goto(IF worker.copy.remoteName THEN "poll" ELSE "create")
       \/ ~ocloud /\ Report("status", "failed", FALSE)
    /\ UNCHANGED <<cr, synced>> /\ Quiet

(* The remote request has the name of the local one.                        *)
createRemoteProvisioningRequest ==
    /\ worker.pc = "create"
    /\ \/ remote.here /\ Report("status", "failed", FALSE) /\ UNCHANGED remote
       \/ Remote!Submit /\ Report("record", "provisioning", TRUE)
    /\ UNCHANGED <<cr, cache, synced, template, ocloud, counters>>

(* The poll: the phase of the local request, and whether it is done.        *)
pollRemoteProvisioningRequest ==
    /\ worker.pc = "poll"
    /\ CASE ~remote.here -> Report("done", "failed", FALSE)
         [] remote.here /\ remote.state = "none" -> Report("update", "provisioning", FALSE)
         [] remote.here /\ remote.state \in {"progressing", "deleting"} ->
              Report("update", remote.state, FALSE)
         [] remote.here /\ remote.state = "fulfilled" -> Report("done", "Fulfilled", FALSE)
         [] remote.here /\ remote.state = "failed" -> Report("done", "Failed", FALSE)
    /\ UNCHANGED <<cr, synced>> /\ Quiet

WriteStatusOnce ==
    /\ worker.pc \in {"status", "record", "update", "done"}
    /\ IF fresh THEN StatusUpdate ELSE UNCHANGED <<cr, synced>>
    /\ Return /\ Quiet

(* The status is written, and polling goes on; an error of the write is     *)
(* dropped, and no request is queued for it.                                *)
WriteStatus ==
    /\ worker.pc \in {"status", "record", "update", "done"}
    /\ IF fresh THEN StatusUpdate ELSE UNCHANGED <<cr, synced>>
    /\ IF fresh /\ worker.pc \in {"record", "update"} THEN RequeueAfter ELSE Return
    /\ Quiet

(* A delete call; one that finds nothing is no error.                       *)
RemoteDeleted == IF remote.here /\ ~remote.deleting THEN Remote!Withdraw ELSE UNCHANGED remote

deleteRemoteResourceOnce ==
    /\ worker.pc = "unremote"
    /\ \/ ~ocloud /\ Return /\ UNCHANGED remote
       \/ ocloud /\ Goto("unfinalize") /\ RemoteDeleted
    /\ UNCHANGED <<cr, cache, synced, template, ocloud, counters>>

deleteRemoteResourceIfItCan ==
    /\ worker.pc = "unremote" /\ Goto("unfinalize")
    /\ IF ocloud THEN RemoteDeleted ELSE UNCHANGED remote
    /\ UNCHANGED <<cr, cache, synced, template, ocloud, counters>>

deleteRemoteResource ==
    /\ worker.pc = "unremote"
    /\ \/ ~ocloud /\ RequeueAfter /\ UNCHANGED remote
       \/ ocloud /\ Goto("unfinalize") /\ RemoteDeleted
    /\ UNCHANGED <<cr, cache, synced, template, ocloud, counters>>

(* The last finalizer of a deleted resource goes, and the resource with it. *)
RemoveFinalizer ==
    /\ worker.pc = "unfinalize"
    /\ \/ fresh /\ cr' = Absent /\ synced' = FALSE /\ Return
       \/ ~fresh /\ UNCHANGED <<cr, synced>> /\ Requeue
    /\ Quiet

(* A call fails.  An error is returned, and requeues, only where finalizers *)
(* are written; the remote deletion is tried again later; a failed read, or *)
(* creation, is put in the status, and a status that is not written is lost.*)
CallFails ==
    /\ faults < MaxFaults /\ faults' = faults + 1
    /\ \/ worker.pc \in {"finalize", "unfinalize"} /\ Requeue /\ UNCHANGED remote
       \/ worker.pc = "unremote" /\ RequeueAfter /\ UNCHANGED remote
       \/ /\ worker.pc \in {"validate", "build", "poll"}
          /\ Report("status", "failed", FALSE) /\ UNCHANGED remote
       \/ /\ worker.pc = "create" /\ Report("status", "failed", FALSE)
          /\ Remote!Submit \/ UNCHANGED remote
       \/ worker.pc \in {"status", "record", "update", "done"} /\ Return /\ UNCHANGED remote
    /\ UNCHANGED <<cr, cache, synced, template, ocloud, creates, edits, crashes>>

Reconcile ==
    \/ Get \/ ensureFinalizer \/ validateTemplateAlignment \/ buildRemoteClient
    \/ createRemoteProvisioningRequest \/ pollRemoteProvisioningRequest \/ WriteStatus
    \/ deleteRemoteResource \/ RemoveFinalizer

Next == Environment \/ Reconcile \/ CallFails

Spec == Init /\ [][Next]_vars

(* The worker goes on, watches deliver and time passes.  The O-Cloud owes   *)
(* no progress: its operator may give a request up without a word.          *)
FairSpec == Spec /\ WF_vars(Reconcile) /\ WF_vars(CacheSync) /\ WF_vars(Due)

-----------------------------------------------------------------------------
(* A local request whose status names the remote one goes away only when    *)
(* the deletion of the remote one is under way or done, although the status *)
(* that handleDeletion reads may be an old one.                             *)
RecordedRemoteIsDeleted ==
    [][cr.here /\ cr.remoteName /\ ~cr'.here => ~remote.here \/ remote.deleting]_vars

(* The finalizer does not keep a request for ever: a deletion completes,    *)
(* unless the O-Cloud is missing again and again.                           *)
DeletionCompletes == []<>~ocloud \/ (cr.deleting ~> ~cr.deleting)

(* What the O-Cloud reports reaches the local request, whatever users do to *)
(* it and after restarts, as long as the inventory is there, no call fails  *)
(* and the O-Cloud stands by what it has decided: the poll runs again until *)
(* it is done, and never after.                                             *)
FulfilledIsReported ==
    LET named == cr.here /\ ~cr.deleting /\ cr.remoteName
        fulfilled == remote.here /\ remote.state = "fulfilled"
    IN  [](template /\ ocloud /\ faults = 0) =>
          (named /\ fulfilled ~> (named /\ fulfilled => cr.phase = "Fulfilled"))

=============================================================================
