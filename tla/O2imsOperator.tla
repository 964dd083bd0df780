---------------------------- MODULE O2imsOperator ----------------------------
(***************************************************************************)
(* The O2IMS operator of an O-Cloud: create_fn turns a ProvisioningRequest *)
(* into a PackageVariant and waits for the cluster of Cluster API that     *)
(* comes out of it.                                                        *)
(*                                                                         *)
(* kopf calls create_fn for a new request, and for every request there is  *)
(* when the operator starts (resume).  It runs one subhandler in a cycle   *)
(* and then create_fn from its beginning again; what a cycle has put in    *)
(* its patch (status, and the progress in annotations) is written at its   *)
(* end.  There is no handler for changes and none for deletion, so there   *)
(* is no finalizer, and a cycle goes on when its request is deleted.       *)
(***************************************************************************)
EXTENDS Naturals

CONSTANTS
    RenderTimeout,    \* polls of the PackageVariant before it is given up
    CreationTimeout,  \* polls of the cluster before the request fails
    MaxEdits,         \* bound on what users and Porch do against the operator
    MaxFaults         \* bound on the calls that fail and on the restarts

VARIABLES
    pr,        \* the ProvisioningRequest; valid: its parameters have a clusterName
    done,      \* the subhandlers its annotations call done
    handled,   \* its annotations say that create_fn is over
    resume,    \* the operator has started and not handled it since
    pv,        \* the PackageVariant: none, new, rendered (last condition True) or error
    cluster,   \* the cluster has reached the phase Provisioned
    op,        \* create_fn: where it is, its timer and its patch
    edits, faults

vars == <<pr, done, handled, resume, pv, cluster, op, edits, faults>>

NoPr == [here |-> FALSE, state |-> "none", valid |-> TRUE]
States == {"none", "progressing", "fulfilled", "failed"}
Subhandlers == {"sub_validations", "sub_creation", "check_c_status"}

(* over: create_fn has failed for good.  A patch of "none" leaves the state.*)
NoPatch == [state |-> "none", done |-> {}, over |-> FALSE]
Idle == [pc |-> "idle", timer |-> 0, patch |-> NoPatch]

TypeOK ==
    /\ pr \in [here : BOOLEAN, state : States, valid : BOOLEAN]
    /\ done \subseteq Subhandlers /\ handled \in BOOLEAN /\ resume \in BOOLEAN
    /\ pv \in {"none", "new", "rendered", "error"} /\ cluster \in BOOLEAN
    /\ op \in [pc : {"idle", "get", "post", "render", "sub", "wait", "patch"},
               timer : 0..(RenderTimeout + CreationTimeout),
               patch : [state : States, done : SUBSET Subhandlers, over : BOOLEAN]]
    /\ edits \in 0..MaxEdits /\ faults \in 0..MaxFaults

(* A PackageVariant, and its cluster, may have been made by hand.           *)
Init ==
    /\ pr = NoPr /\ done = {} /\ handled = FALSE /\ resume = FALSE
    /\ pv \in {"none", "new", "rendered"} /\ cluster \in {FALSE, pv = "rendered"}
    /\ op = Idle /\ edits = 0 /\ faults = 0

-----------------------------------------------------------------------------
(* Users, Porch, Cluster API.                                               *)

Edit == edits < MaxEdits /\ edits' = edits + 1

(* A request of the same name is made again when the cycle of the old one   *)
(* is over.                                                                 *)
Submit ==
    /\ ~pr.here /\ op = Idle /\ Edit
    /\ \E v \in BOOLEAN : pr' = [NoPr EXCEPT !.here = TRUE, !.valid = v]
    /\ UNCHANGED <<done, handled, resume, pv, cluster, op, faults>>

Withdraw ==
    /\ pr.here /\ Edit /\ pr' = NoPr /\ done' = {} /\ handled' = FALSE /\ resume' = FALSE
    /\ UNCHANGED <<pv, cluster, op, faults>>

EditPackageVariant ==
    /\ Edit /\ pv' \in {"none", "new"} /\ pv' # pv
    /\ UNCHANGED <<pr, done, handled, resume, cluster, op, faults>>

Render ==
    /\ \/ pv \in {"new", "error"} /\ pv' = "rendered" /\ UNCHANGED edits
       \/ pv \in {"new", "rendered"} /\ pv' = "error" /\ Edit
    /\ UNCHANGED <<pr, done, handled, resume, cluster, op, faults>>

Provision ==
    /\ \/ ~cluster /\ pv = "rendered" /\ cluster' = TRUE /\ UNCHANGED edits
       \/ cluster /\ cluster' = FALSE /\ Edit
    /\ UNCHANGED <<pr, done, handled, resume, pv, op, faults>>

Restart ==
    /\ faults < MaxFaults /\ faults' = faults + 1
    /\ op' = Idle /\ resume' = pr.here
    /\ UNCHANGED <<pr, done, handled, pv, cluster, edits>>

-----------------------------------------------------------------------------
(* create_fn.                                                               *)

Outside == UNCHANGED <<pr, done, handled, resume, cluster, edits>>

Goto(step, t) == op' = [op EXCEPT !.pc = step, !.timer = t]

Patch(s, subs, over) ==
    op' = [pc |-> "patch", timer |-> 0, patch |-> [state |-> s, done |-> subs, over |-> over]]

(* cluster_creation_request says "failed": kopf.PermanentError, and nothing *)
(* about it in the status.                                                  *)
GiveUp == Patch("none", {}, TRUE)

create_fnOnEveryChange ==
    /\ op.pc = "idle" /\ pr.here
    /\ IF pr.valid THEN Goto("get", 0) ELSE Patch("failed", {}, FALSE)
    /\ UNCHANGED <<pv, faults>> /\ Outside

(* The check for a PackageVariant that was made by hand asks for the list   *)
(* of the requests; the answer has no status of its own and lets every      *)
(* request pass.  A request that is not valid fails, and create_fn, which   *)
(* ends in a TypeError, is called again later.                              *)
create_fn ==
    /\ op.pc = "idle" /\ pr.here /\ (~handled \/ resume)
    /\ IF pr.valid THEN Goto("get", 0) ELSE Patch("failed", {}, FALSE)
    /\ UNCHANGED <<pv, faults>> /\ Outside

(* create_package_variant: one that exists is taken for the operator's own. *)
get_package_variant ==
    /\ op.pc = "get" /\ Goto(IF pv = "none" THEN "post" ELSE "render", 0)
    /\ UNCHANGED <<pv, faults>> /\ Outside

(* The API server refuses the PackageVariant if there is one by now: the    *)
(* loop of cluster_creation_request is skipped, and create_fn goes on.      *)
create_package_variant ==
    /\ op.pc = "post"
    /\ IF pv = "none" THEN pv' = "new" /\ Goto("render", 0) ELSE Goto("sub", 0) /\ UNCHANGED pv
    /\ UNCHANGED faults /\ Outside

RenderWithoutTimeout ==
    /\ op.pc = "render"
    /\ \/ pv = "rendered" /\ Goto("sub", 0)
       \/ pv \in {"error", "none"} /\ GiveUp
       \/ pv = "new" /\ Goto("render", 0)
    /\ UNCHANGED <<pv, faults>> /\ Outside

(* The loop of cluster_creation_request.                                    *)
cluster_creation_request ==
    /\ op.pc = "render"
    /\ \/ pv = "rendered" /\ Goto("sub", 0)
       \/ pv \in {"error", "none"} /\ GiveUp
       \/ pv = "new" /\ op.timer < RenderTimeout /\ Goto("render", op.timer + 1)
       \/ pv = "new" /\ op.timer >= RenderTimeout /\ GiveUp
    /\ UNCHANGED <<pv, faults>> /\ Outside

subhandlersUnordered ==
    /\ op.pc = "sub"
    /\ \/ "sub_validations" \notin done /\ Patch("progressing", {"sub_validations"}, FALSE)
       \/ "sub_creation" \notin done /\ Patch("progressing", {"sub_creation"}, FALSE)
       \/ "check_c_status" \notin done /\ Goto("wait", 0)
    /\ UNCHANGED <<pv, faults>> /\ Outside

(* The subhandler whose turn it is: they are registered in this order.      *)
subhandlers ==
    /\ op.pc = "sub"
    /\ \/ "sub_validations" \notin done /\ Patch("progressing", {"sub_validations"}, FALSE)
       \/ /\ "sub_validations" \in done /\ "sub_creation" \notin done
          /\ Patch("progressing", {"sub_creation"}, FALSE)
       \/ {"sub_validations", "sub_creation"} \subseteq done /\ Goto("wait", 0)
    /\ UNCHANGED <<pv, faults>> /\ Outside

(* check_c_status.                                                          *)
cluster_creation_status ==
    /\ op.pc = "wait"
    /\ \/ cluster /\ Patch("fulfilled", {"check_c_status"}, FALSE)
       \/ ~cluster /\ op.timer < CreationTimeout /\ Goto("wait", op.timer + 1)
       \/ ~cluster /\ op.timer >= CreationTimeout /\ Patch("failed", {"check_c_status"}, FALSE)
    /\ UNCHANGED <<pv, faults>> /\ Outside

(* kopf writes the patch.  create_fn is over when it has failed or all the  *)
(* subhandlers are done; its progress is then removed.                      *)
WritePatch ==
    /\ op.pc = "patch" /\ op' = Idle
    /\ LET p == op.patch
           all == done \union p.done
           over == p.over \/ all = Subhandlers IN
       IF pr.here
       THEN /\ pr' = [pr EXCEPT !.state = IF p.state = "none" THEN @ ELSE p.state]
            /\ done' = IF over THEN {} ELSE all
            /\ handled' = (handled \/ over) /\ resume' = (resume /\ ~over)
       ELSE UNCHANGED <<pr, done, handled, resume>>
    /\ UNCHANGED <<pv, cluster, edits, faults>>

(* Calls that fail.  An answer that is an error makes cluster_creation_     *)
(* request go on as if there was nothing to wait for; an exception, or an   *)
(* error while it waits, ends it.  The cluster is just asked for again,     *)
(* unless the answer makes no sense or the subhandler has waited so long in *)
(* earlier cycles that kopf ends it.                                        *)
CallFails ==
    /\ faults < MaxFaults /\ faults' = faults + 1
    /\ \/ op.pc \in {"get", "post"} /\ Goto("sub", 0) /\ UNCHANGED pv
       \/ op.pc = "post" /\ GiveUp /\ pv' \in {pv, IF pv = "none" THEN "new" ELSE pv}
       \/ op.pc = "render" /\ GiveUp /\ UNCHANGED pv
       \/ op.pc = "wait" /\ op.timer < CreationTimeout /\ Goto("wait", op.timer + 1) /\ UNCHANGED pv
       \/ op.pc = "wait" /\ Patch("none", {}, FALSE) /\ UNCHANGED pv
       \/ op.pc = "wait" /\ op.timer = 0 /\ Patch("none", {"check_c_status"}, FALSE) /\ UNCHANGED pv
    /\ Outside

Handler ==
    \/ create_fn \/ get_package_variant \/ create_package_variant \/ cluster_creation_request
    \/ subhandlers \/ cluster_creation_status \/ WritePatch

Next ==
    \/ Submit \/ Withdraw \/ EditPackageVariant \/ Render \/ Provision \/ Restart
    \/ Handler \/ CallFails

Spec == Init /\ [][Next]_vars

(* The operator goes on.  Nothing is assumed of Porch and Cluster API.      *)
FairSpec == Spec /\ WF_vars(Handler)

-----------------------------------------------------------------------------
(* The status follows the lifecycle that clients of the O2IMS interface     *)
(* such as FOCOM rely on: no request is fulfilled or failed by a cluster    *)
(* that was not reported as progressing first, through restarts, repeated   *)
(* cycles and deletions in the middle of one.                               *)
Lifecycle ==
    INSTANCE ProvisioningRequest
    WITH request <- [here |-> pr.here, deleting |-> FALSE, state |-> pr.state]

ImplementsRequest == Lifecycle!Spec

(* A request that is decided is worked on again only after a restart of the *)
(* operator, for which it is resumed; otherwise its decision stands,        *)
(* whatever becomes of the PackageVariant and the cluster.                  *)
DecisionStands ==
    [][pr.state \in {"fulfilled", "failed"} /\ pr'.here => pr'.state = pr.state \/ resume]_vars

(* The timeouts end every wait: a request is over in the end, or has been   *)
(* refused, whether or not anything is rendered and provisioned.            *)
EventuallyOver == pr.here ~> ~pr.here \/ (handled /\ ~resume) \/ pr.state = "failed"
==============================================================================
