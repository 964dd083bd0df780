--------------------------- MODULE TokenController ---------------------------
(***************************************************************************)
(* The token controller: a Token resource stands for an access token in    *)
(* gitea and a Secret that holds its value.  gitea tells the value only    *)
(* when it creates the token.  The Secret is owned by the Token resource,  *)
(* so Kubernetes collects it when the resource is gone.                    *)
(***************************************************************************)
EXTENDS ManagedResource

VARIABLES
    token,     \* the access token is there in gitea
    secret     \* the Secret: whose value it has and which resource owns it

vars == <<managedVars, token, secret>>

NoSecret == [value |-> "none", owner |-> 0]

Init == ManagedInit /\ token = FALSE /\ secret = NoSecret

-----------------------------------------------------------------------------
Managed(A) == A /\ UNCHANGED <<token, secret>>

(* Replies of gitea change nothing in the API server.                       *)
Call == UNCHANGED <<cr, cache, synced, gitea, counters>>

TokenGoneBlanksSecret == token' = FALSE /\ secret' = [secret EXCEPT !.value = ""]

(* DELETE of the token: a secret with its value is worthless from then on.  *)
TokenGone ==
    /\ token' = FALSE
    /\ secret' = [secret EXCEPT !.value = IF @ = "none" THEN "none" ELSE "stale"]

(* gitea answers the deletion of a token it does not have with an error.    *)
deleteToken ==
    /\ worker.pc = "delete"
    /\ \/ token /\ TokenGone /\ Goto("unfinalize")
       \/ ~token /\ Report("Failed") /\ UNCHANGED <<token, secret>>
    /\ Call

(* createToken: the token is looked up by its name ...                      *)
ListAccessTokens ==
    /\ worker.pc = "list"
    /\ IF token THEN Report("Ready") ELSE Goto("create")
    /\ UNCHANGED <<token, secret>>
    /\ Call

(* ... created when it is not found ...                                     *)
CreateAccessToken ==
    /\ worker.pc = "create"
    /\ token' = TRUE
    /\ Goto("apply")
    /\ UNCHANGED secret
    /\ Call

ApplyIfMissing ==
    /\ worker.pc = "apply"
    /\ secret' = IF secret.value = "none"
                 THEN [value |-> "current", owner |-> worker.copy.uid] ELSE secret
    /\ Report("Ready")
    /\ UNCHANGED token
    /\ Call

(* ... and its value is written to the Secret, a new or an existing one.    *)
Apply ==
    /\ worker.pc = "apply"
    /\ secret' = [value |-> "current", owner |-> worker.copy.uid]
    /\ Report("Ready")
    /\ UNCHANGED token
    /\ Call

(* A call fails, before or after gitea has done what it was asked for.      *)
CallFails ==
    /\ worker.pc \in {"delete", "list", "create", "apply"}
    /\ Fail
    /\ \/ UNCHANGED <<token, secret>>
       \/ worker.pc = "delete" /\ token /\ TokenGone
       \/ worker.pc = "create" /\ token' = TRUE /\ UNCHANGED secret

Reconcile ==
    \/ Managed(Get) \/ Managed(AddFinalizer("list")) \/ Managed(RemoveFinalizer)
    \/ Managed(UpdateStatus)
    \/ deleteToken \/ ListAccessTokens \/ CreateAccessToken \/ Apply

(* The garbage collector of Kubernetes.                                     *)
CollectSecret ==
    /\ secret # NoSecret /\ (~cr.here \/ cr.uid # secret.owner)
    /\ secret' = NoSecret
    /\ UNCHANGED <<managedVars, token>>

Next ==
    \/ Managed(Environment) \/ CollectSecret
    \/ Reconcile
    \/ Managed(FinalizerFails) \/ CallFails

Spec == Init /\ [][Next]_vars

(* The worker goes on while it has something to do, the watch of the        *)
(* informer delivers, and Start keeps trying.                               *)
FairSpec ==
    /\ Spec
    /\ WF_vars(Reconcile)
    /\ WF_vars(Managed(CacheSync)) /\ WF_vars(Managed(Start))

-----------------------------------------------------------------------------
TypeOK ==
    /\ ManagedTypeOK({"delete", "list", "create", "apply"})
    /\ token \in BOOLEAN
    /\ secret \in [value : {"none", "current", "stale"}, owner : 0..MaxCreates]

(* The finalizer is there "to avoid deleting the token w/o it being deleted *)
(* from the git server": as long as gitea has the token, the resource is    *)
(* there with its finalizer, however reads lag, calls fail, users delete    *)
(* the resource and the manager restarts.                                   *)
NoOrphanedToken == Policy = "delete" /\ token => cr.here /\ cr.fin

(* While no call fails and the manager does not restart, a Token that is    *)
(* Ready has a Secret with the value of the token, even when the Token is   *)
(* deleted and created again before the old Secret is collected.            *)
ReadyHasSecretUnlessFault ==
    Policy = "delete" /\ faults = 0 /\ crashes = 0 /\ cr.cond = "Ready" /\ ~cr.deleting =>
        secret = [value |-> "current", owner |-> cr.uid]

(* Whatever failed before, a Token that is not deleted becomes Ready and    *)
(* stays so once the failures stop: every failure is retried.               *)
EventuallyReady == <>[](cr.here /\ ~cr.deleting => cr.cond = "Ready")
=============================================================================
