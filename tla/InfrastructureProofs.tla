------------------------ MODULE InfrastructureProofs -------------------------
(***************************************************************************)
(* What is proved about the controllers of the infrastructure, for any     *)
(* number of edits, faults, restarts and polls: the FOCOM operator, which  *)
(* submits a ProvisioningRequest to an O-Cloud and must not leave it       *)
(* behind; the O2IMS operator of an O-Cloud, which keeps what              *)
(* ProvisioningRequest promises to FOCOM; and the network controller,      *)
(* which configures the devices of a topology.                             *)
(***************************************************************************)
EXTENDS FocomController, RequestOperator, NetworkConfiguration, TLAPS

-----------------------------------------------------------------------------
(* FOCOM: the copy a Reconcile works on, and what it is worth as long as it *)
(* is of the latest version.                                                *)

RemoteType == [here : BOOLEAN, deleting : BOOLEAN, state : Remote!States]

(* The deletion of the remote request is under way or done.                 *)
Gone == ~remote.here \/ remote.deleting

(* The steps of a Reconcile that serves a request that is to stay.          *)
Serving == {"validate", "build", "create", "poll", "status", "record", "update", "done"}

(* RecordedRemoteIsDeleted is about the last step of a long path.  On it    *)
(* the finalizer was there before the remote name was, a copy of the latest *)
(* version says whether there is a remote name, and nobody submits the      *)
(* remote request again after its deletion.                                 *)
FocomInv ==
    /\ cr \in Resource /\ cache \in Resource /\ worker \in [pc : Steps, copy : Resource]
    /\ synced \in BOOLEAN /\ fresh \in BOOLEAN /\ remote \in RemoteType
    /\ synced => cache = cr
    /\ fresh => cr.fin = worker.copy.fin
    /\ worker.pc \in Serving => worker.copy.fin
    /\ worker.pc = "unfinalize" /\ fresh => ~cr.remoteName \/ Gone
    /\ cr.remoteName => cr.fin

(* What RecordedRemoteIsDeleted asks of a step.                             *)
LeavesNothing == cr.here /\ cr.remoteName /\ ~cr'.here => Gone

LEMMA IdleFocom ==
    /\ Absent \in Resource /\ ~Absent.here /\ ~Absent.remoteName /\ ~Absent.fin
    /\ Idle \in [pc : Steps, copy : Resource] /\ Idle.pc = "idle"
BY DEF Absent, Resource, Phases, Idle, At, Steps

(* What others do to the remote request does not bring it back.             *)
LEMMA RemoteMoves ==
    ASSUME remote \in RemoteType,
           Remote!Work \/ Remote!WorkAgain \/ Remote!Withdraw \/ Remote!Remove \/ UNCHANGED remote
    PROVE  remote' \in RemoteType /\ (Gone => Gone')
<1>1. Remote!NoRequest \in RemoteType /\ ~Remote!NoRequest.here
  BY DEF Remote!NoRequest, RemoteType, Remote!States
<1>2. ASSUME NEW s \in Remote!States, remote' = [remote EXCEPT !.state = s]
      PROVE  remote' \in RemoteType /\ (Gone => Gone')
  BY <1>2 DEF RemoteType, Gone
<1>3. CASE remote' = Remote!NoRequest
  BY <1>1, <1>3 DEF Gone
<1>4. CASE remote' = [remote EXCEPT !.deleting = TRUE]
  BY Zenon, <1>4 DEF RemoteType, Gone
<1>5. CASE UNCHANGED remote
  BY <1>5 DEF Gone
<1> QED BY <1>2, <1>3, <1>4, <1>5
        DEF Remote!Work, Remote!WorkAgain, Remote!Withdraw, Remote!Remove, Remote!States

LEMMA RemoteSubmitted ==
    ASSUME Remote!Submit
    PROVE  remote' \in RemoteType
BY Zenon DEF Remote!Submit, Remote!NewRequest, Remote!NoRequest, RemoteType, Remote!States

(* A Reconcile returns, whatever it has written.                            *)
LEMMA FocomReturned ==
    ASSUME FocomInv, worker' = Idle, fresh' = FALSE, remote' \in RemoteType,
           cr' \in Resource, cr'.remoteName => cr'.fin, cache' \in Resource,
           synced' \in BOOLEAN, synced' => cache' = cr'
    PROVE  FocomInv'
BY Zenon, IdleFocom DEF FocomInv, Serving

(* A Reconcile that serves a request goes on to another of these steps.     *)
LEMMA FocomServes ==
    ASSUME FocomInv, UNCHANGED <<cr, cache, synced, fresh>>, remote' \in RemoteType,
           worker' \in [pc : Steps, copy : Resource], worker.pc \in Serving,
           worker'.pc \in Serving, worker'.copy.fin = worker.copy.fin
    PROVE  FocomInv'
BY DEF FocomInv, Serving

LEMMA FocomReports ==
    ASSUME FocomInv, UNCHANGED <<cr, cache, synced>>, remote' \in RemoteType,
           worker.pc \in Serving, NEW s \in Serving, NEW p \in Phases, NEW n \in BOOLEAN,
           Report(s, p, n)
    PROVE  FocomInv'
<1>1. /\ worker.copy \in Resource /\ fresh' = fresh /\ s \in Steps
      /\ worker' = At(s, [worker.copy EXCEPT !.phase = p, !.remoteName = @ \/ n])
  BY DEF FocomInv, Report, Serving, Steps
<1>2. /\ worker' \in [pc : Steps, copy : Resource] /\ worker'.pc = s
      /\ worker'.copy.fin = worker.copy.fin
  BY Zenon, <1>1 DEF At, Resource
<1> QED BY Zenon, <1>1, <1>2, FocomServes

(* The API server stores what users do; every copy is then an old one.      *)
LEMMA FocomStored ==
    ASSUME FocomInv, NEW new \in Resource, Stored(new), new.remoteName => new.fin
    PROVE  FocomInv'
BY Zenon DEF FocomInv, Stored, Gone

LEMMA FocomUsers ==
    ASSUME FocomInv, Create \/ Edit \/ Delete
    PROVE  FocomInv' /\ LeavesNothing
<1>1. CASE Create
  <2>1. PICK new \in Resource : new = [Absent EXCEPT !.here = TRUE]
    BY Zenon DEF Absent, Resource, Phases
  <2>2. new.here /\ ~new.remoteName
    BY Zenon, <2>1 DEF Absent
  <2> QED BY Zenon, <1>1, <2>1, <2>2, FocomStored DEF Create, Stored, LeavesNothing
<1>2. CASE Edit
  <2>1. PICK new \in Resource : new = cr
    BY DEF FocomInv
  <2> QED BY Zenon, <1>2, <2>1, FocomStored DEF Edit, Stored, LeavesNothing, FocomInv
<1>3. CASE Delete
  <2>1. CASE cr.fin
    <3>1. PICK new \in Resource : new = [cr EXCEPT !.deleting = TRUE]
      BY Zenon DEF FocomInv, Resource
    <3>2. new.here = cr.here /\ new.fin
      BY <2>1, <3>1 DEF FocomInv, Resource
    <3>3. Stored(new)
      BY Zenon, <1>3, <2>1, <3>1 DEF Delete
    <3> QED BY Zenon, <3>2, <3>3, FocomStored DEF Stored, LeavesNothing
  <2>2. CASE ~cr.fin
    <3>1. PICK new \in Resource : new = Absent
      BY IdleFocom
    <3>2. Stored(new)
      BY <1>3, <2>2, <3>1 DEF Delete
    <3> QED BY Zenon, <2>2, <3>1, <3>2, FocomStored, IdleFocom DEF FocomInv, LeavesNothing
  <2> QED BY <2>1, <2>2
<1> QED BY <1>1, <1>2, <1>3

LEMMA FocomInfrastructure ==
    ASSUME FocomInv,
           SetInventory \/ DeleteRemote \/ RemoteStep \/ RemoteRestart \/ CacheSync \/ Due \/ Crash
    PROVE  FocomInv' /\ LeavesNothing
<1>1. CASE SetInventory \/ Due
  BY <1>1 DEF SetInventory, Due, FocomInv, Gone, LeavesNothing
<1>2. CASE DeleteRemote \/ RemoteStep \/ RemoteRestart
  <2>1. UNCHANGED <<cr, cache, synced, worker, fresh>>
    BY Zenon, <1>2 DEF DeleteRemote, RemoteStep, RemoteRestart
  <2>2. remote' \in RemoteType /\ (Gone => Gone')
    BY <1>2, RemoteMoves DEF DeleteRemote, RemoteStep, RemoteRestart, FocomInv
  <2> QED BY Zenon, <2>1, <2>2 DEF FocomInv, LeavesNothing
<1>3. CASE CacheSync
  BY Zenon, <1>3 DEF CacheSync, FocomInv, Gone, LeavesNothing
<1>4. CASE Crash
  BY Zenon, <1>4, FocomReturned DEF Crash, FocomInv, LeavesNothing
<1> QED BY Zenon, <1>1, <1>2, <1>3, <1>4

-----------------------------------------------------------------------------
(* Reconcile, step by step.                                                 *)
LEMMA FocomGet ==
    ASSUME FocomInv, Get
    PROVE  FocomInv' /\ LeavesNothing
<1>1. UNCHANGED <<cr, cache, synced, remote>> /\ fresh' = (synced /\ worker'.pc # "idle")
  BY DEF Get, Quiet
<1>2. CASE worker' = Idle
  <2>1. fresh' = FALSE
    BY Zenon, <1>1, <1>2, IdleFocom
  <2> QED BY Zenon, <1>1, <1>2, <2>1, FocomReturned DEF FocomInv, LeavesNothing
<1>3. CASE worker' # Idle
  <2>1. PICK s \in Steps :
          /\ worker' = At(s, cache)
          /\ s = "unfinalize" => ~cache.remoteName
          /\ s \in Serving => cache.fin
    <3> DEFINE s == CASE cache.deleting /\ cache.remoteName -> "unremote"
                      [] cache.deleting /\ ~cache.remoteName -> "unfinalize"
                      [] ~cache.deleting /\ ~cache.fin -> "finalize"
                      [] OTHER -> "validate"
    <3>1. worker' = At(s, cache)
      BY <1>3 DEF Get
    <3>2. s \in Steps /\ (s = "unfinalize" => ~cache.remoteName)
      BY DEF Steps
    <3>3. s \in Serving => cache.fin
      BY Zenon DEF Serving
    <3> QED BY Zenon, <3>1, <3>2, <3>3
  <2>2. /\ worker' \in [pc : Steps, copy : Resource] /\ worker'.pc = s /\ worker'.copy = cache
        /\ fresh' \in BOOLEAN /\ (fresh' => synced)
    BY Zenon, <1>1, <2>1 DEF At, FocomInv
  <2> QED BY Zenon, <1>1, <2>1, <2>2 DEF FocomInv, Gone, LeavesNothing
<1> QED BY Zenon, <1>2, <1>3

LEMMA FocomServing ==
    ASSUME FocomInv,
           validateTemplateAlignment \/ buildRemoteClient \/ createRemoteProvisioningRequest
             \/ pollRemoteProvisioningRequest
    PROVE  FocomInv' /\ LeavesNothing
<1>1. /\ UNCHANGED <<cr, cache, synced>> /\ worker.pc \in Serving /\ remote' \in RemoteType
  BY Zenon, RemoteSubmitted
     DEF validateTemplateAlignment, buildRemoteClient, createRemoteProvisioningRequest,
         pollRemoteProvisioningRequest, Quiet, Serving, FocomInv
<1>2. LeavesNothing
  BY <1>1 DEF LeavesNothing
<1>3. \/ \E s \in Serving : Goto(s)
      \/ \E s \in Serving, p \in Phases, n \in BOOLEAN : Report(s, p, n)
  <2>1. CASE validateTemplateAlignment
    BY Zenon, <2>1 DEF validateTemplateAlignment, Serving, Phases
  <2>2. CASE buildRemoteClient
    BY Zenon, <2>2 DEF buildRemoteClient, Serving, Phases
  <2>3. CASE createRemoteProvisioningRequest
    BY Zenon, <2>3 DEF createRemoteProvisioningRequest, Serving, Phases
  <2>4. CASE pollRemoteProvisioningRequest
    <3>1. remote.state \in {"none", "progressing", "deleting", "fulfilled", "failed"}
      BY DEF FocomInv, RemoteType, Remote!States
    <3> QED BY Zenon, <2>4, <3>1 DEF pollRemoteProvisioningRequest, Serving, Phases
  <2> QED BY <2>1, <2>2, <2>3, <2>4
<1>4. ASSUME NEW s \in Serving, Goto(s) PROVE FocomInv'
  <2>1. /\ worker' \in [pc : Steps, copy : Resource] /\ worker'.pc = s
        /\ worker'.copy = worker.copy /\ fresh' = fresh
    BY <1>4 DEF Goto, At, FocomInv, Serving, Steps
  <2> QED BY Zenon, <1>1, <2>1, FocomServes
<1> QED BY Zenon, <1>1, <1>2, <1>3, <1>4, FocomReports

LEMMA FocomWrites ==
    ASSUME FocomInv, ensureFinalizer \/ WriteStatus
    PROVE  FocomInv' /\ LeavesNothing
<1>1. worker' = Idle /\ fresh' = FALSE /\ UNCHANGED <<cache, remote>>
  BY DEF ensureFinalizer, WriteStatus, Requeue, RequeueAfter, Return, Quiet
<1>2. CASE UNCHANGED <<cr, synced>>
  BY Zenon, <1>1, <1>2, FocomReturned DEF FocomInv, LeavesNothing
<1>3. CASE cr' = [cr EXCEPT !.fin = TRUE] /\ synced' = FALSE
  <2>1. cr' \in Resource /\ cr'.fin /\ cr'.here = cr.here
    BY Zenon, <1>3 DEF FocomInv, Resource
  <2> QED BY Zenon, <1>1, <1>3, <2>1, FocomReturned DEF FocomInv, LeavesNothing
<1>4. CASE fresh /\ StatusUpdate /\ worker.pc \in Serving
  <2>1. cr.fin
    BY <1>4 DEF FocomInv
  <2>2. cr' \in Resource /\ cr'.fin = cr.fin /\ cr'.here = cr.here
    BY Zenon, <1>4 DEF FocomInv, StatusUpdate, Resource
  <2>3. synced' \in BOOLEAN /\ (synced' => synced /\ cr' = cr)
    BY Zenon, <1>4 DEF StatusUpdate, FocomInv
  <2> QED BY Zenon, <1>1, <2>1, <2>2, <2>3, FocomReturned DEF FocomInv, LeavesNothing
<1> QED BY Zenon, <1>2, <1>3, <1>4 DEF ensureFinalizer, WriteStatus, Serving

LEMMA FocomDeletes ==
    ASSUME FocomInv, deleteRemoteResource \/ RemoveFinalizer
    PROVE  FocomInv' /\ LeavesNothing
<1>1. CASE deleteRemoteResource /\ RequeueAfter /\ UNCHANGED remote
  BY Zenon, <1>1, FocomReturned DEF deleteRemoteResource, RequeueAfter, FocomInv, LeavesNothing
<1>2. CASE deleteRemoteResource /\ Goto("unfinalize") /\ RemoteDeleted
  <2>1. /\ UNCHANGED <<cr, cache, synced, fresh>> /\ worker'.pc = "unfinalize"
        /\ worker' \in [pc : Steps, copy : Resource] /\ worker'.copy = worker.copy
    BY Zenon, <1>2 DEF deleteRemoteResource, Goto, At, FocomInv, Steps
  <2>2. remote' \in RemoteType
    BY <1>2, RemoteMoves DEF RemoteDeleted, FocomInv
  <2>3. Gone'
    <3>1. CASE remote.here /\ ~remote.deleting
      BY <1>2, <3>1
         DEF RemoteDeleted, Remote!Withdraw, Remote!NoRequest, Gone, FocomInv, RemoteType
    <3>2. CASE ~(remote.here /\ ~remote.deleting)
      BY <1>2, <3>2 DEF RemoteDeleted, Gone
    <3> QED BY Zenon, <3>1, <3>2
  <2> QED BY Zenon, <2>1, <2>2, <2>3 DEF FocomInv, Serving, LeavesNothing
<1>3. CASE RemoveFinalizer
  <2>1. worker' = Idle /\ fresh' = FALSE /\ UNCHANGED <<cache, remote>>
    BY Zenon, <1>3 DEF RemoveFinalizer, Return, Requeue, Quiet
  <2>2. CASE UNCHANGED <<cr, synced>>
    BY <2>1, <2>2, FocomReturned DEF FocomInv, LeavesNothing
  <2>3. CASE fresh /\ cr' = Absent /\ synced' = FALSE
    <3>1. LeavesNothing
      BY <1>3, <2>3 DEF RemoveFinalizer, FocomInv, LeavesNothing
    <3> QED BY Zenon, <2>1, <2>3, <3>1, FocomReturned, IdleFocom DEF FocomInv
  <2> QED BY Zenon, <1>3, <2>2, <2>3 DEF RemoveFinalizer
<1> QED BY <1>1, <1>2, <1>3 DEF deleteRemoteResource

LEMMA FocomFails ==
    ASSUME FocomInv, CallFails
    PROVE  FocomInv' /\ LeavesNothing
<1>1. UNCHANGED <<cr, cache, synced>> /\ LeavesNothing
  BY DEF CallFails, LeavesNothing
<1>2. remote' \in RemoteType
  BY Zenon, RemoteSubmitted DEF CallFails, FocomInv
<1>3. CASE worker' = Idle /\ fresh' = FALSE
  BY Zenon, <1>1, <1>2, <1>3, FocomReturned DEF FocomInv
<1>4. CASE worker.pc \in Serving /\ Report("status", "failed", FALSE)
  BY Zenon, <1>1, <1>2, <1>4, FocomReports DEF Serving, Phases
<1> QED BY Zenon, <1>1, <1>3, <1>4 DEF CallFails, Requeue, RequeueAfter, Return, Serving

LEMMA FocomStep ==
    ASSUME FocomInv, [Next]_vars
    PROVE  FocomInv' /\ LeavesNothing
<1>1. CASE Environment
  BY <1>1, FocomUsers, FocomInfrastructure DEF Environment
<1>2. CASE Reconcile
  BY <1>2, FocomGet, FocomServing, FocomWrites, FocomDeletes DEF Reconcile
<1>3. CASE CallFails
  BY Zenon, <1>3, FocomFails
<1>4. CASE UNCHANGED vars
  BY <1>4 DEF vars, FocomInv, Gone, LeavesNothing
<1> QED BY <1>1, <1>2, <1>3, <1>4 DEF Next

(* A FocomProvisioningRequest whose status names the remote request goes    *)
(* only when the remote one is deleted or on its way out, for any number of *)
(* creations, edits, lost calls, restarts and old copies of the status.     *)
THEOREM RemoteNotForgotten == Spec => RecordedRemoteIsDeleted
<1>1. Init => FocomInv
  <2>1. Init => remote \in RemoteType
    BY DEF Init, Remote!Init, Remote!NoRequest, RemoteType, Remote!States
  <2> QED BY Zenon, <2>1, IdleFocom DEF Init, FocomInv, Serving
<1>2. FocomInv /\ [Next]_vars => FocomInv'
  BY Zenon, FocomStep
<1>3. FocomInv /\ [Next]_vars =>
        [cr.here /\ cr.remoteName /\ ~cr'.here => ~remote.here \/ remote.deleting]_vars
  BY Zenon, FocomStep DEF LeavesNothing, Gone
<1> QED BY <1>1, <1>2, <1>3, PTL DEF Spec, RecordedRemoteIsDeleted

-----------------------------------------------------------------------------
(* The O2IMS operator of an O-Cloud.                                        *)

PrType == [here : BOOLEAN, state : {"none", "progressing", "fulfilled", "failed"}, valid : BOOLEAN]

OpType == [pc : {"idle", "get", "post", "render", "sub", "wait", "patch"}, timer : Nat,
           patch : [state : {"none", "progressing", "fulfilled", "failed"},
                    done : SUBSET {"sub_validations", "sub_creation", "check_c_status"},
                    over : BOOLEAN]]

(* The subhandlers that come before check_c_status.                         *)
Accepting == {"sub_validations", "sub_creation"}

(* The patch of a cycle for a valid request: a subhandler reports progress, *)
(* check_c_status has the last word, or nothing is said.                    *)
ValidPatch(patch) ==
    \/ patch.state = "progressing" /\ patch.done \subseteq Accepting
    \/ patch.state = "none" /\ patch.done = {}
    \/ /\ patch.state # "progressing" /\ patch.done = {"check_c_status"}
       /\ Accepting \subseteq done

InCycle ==
    /\ pr.valid => ~handled \/ resume
    /\ ~pr.valid => op.pc = "patch" /\ op.patch.state = "failed" /\ op.patch.done = {}
    /\ op.pc = "wait" => Accepting \subseteq done
    /\ op.pc = "patch" /\ pr.valid => ValidPatch(op.patch)

(* The status alone does not say which patch may come next: that rests on   *)
(* the progress in the annotations, which a restart keeps, and on the       *)
(* reason for which a cycle was begun, which a decision must have ended.    *)
OperatorInv ==
    /\ pr \in PrType /\ op \in OpType /\ handled \in BOOLEAN /\ resume \in BOOLEAN
    /\ done \in SUBSET {"sub_validations", "sub_creation", "check_c_status"}
    /\ ~pr.here => pr.valid /\ pr.state = "none" /\ done = {}
    /\ done # {} => pr.state = "progressing" /\ pr.valid
    /\ ~pr.valid => pr.state \in {"none", "failed"}
    /\ pr.state \in {"fulfilled", "failed"} /\ pr.valid => handled
    /\ pr.here /\ op.pc # "idle" => InCycle

(* What the two properties ask of a step.                                   *)
Follows ==
    \/ pr' = pr
    \/ ~pr.here /\ pr'.here /\ pr'.state = "none" /\ pr.state = "none"
    \/ pr.here /\ ~pr'.here /\ pr'.state = "none"
    \/ /\ pr.here /\ pr'.here
       /\ \/ pr'.state = pr.state \/ pr'.state = "progressing"
          \/ pr'.state = "failed" /\ pr.state \in {"none", "progressing"}
          \/ pr'.state = "fulfilled" /\ pr.state = "progressing"

Stands ==
    pr.state \in {"fulfilled", "failed"} /\ pr'.here => pr'.state = pr.state \/ resume

LEMMA IdleOperator ==
    /\ Operator!Idle \in OpType /\ Operator!Idle.pc = "idle"
    /\ Operator!NoPr \in PrType /\ ~Operator!NoPr.here /\ Operator!NoPr.valid
    /\ Operator!NoPr.state = "none"
BY Zenon DEF Operator!Idle, Operator!NoPatch, Operator!NoPr, OpType, PrType

LEMMA OperatorIdles ==
    ASSUME OperatorInv, UNCHANGED <<pr, done, handled, resume, op>>
    PROVE  OperatorInv' /\ Follows /\ Stands
BY DEF OperatorInv, InCycle, ValidPatch, Follows, Stands

(* Users, Porch, Cluster API and restarts.                                  *)
LEMMA OperatorEnvironment ==
    ASSUME OperatorInv,
           Operator!Submit \/ Operator!Withdraw \/ Operator!EditPackageVariant
             \/ Operator!Render \/ Operator!Provision \/ Operator!Restart
    PROVE  OperatorInv' /\ Follows /\ Stands
<1>1. CASE Operator!Submit
  <2>1. PICK v \in BOOLEAN : pr' = [Operator!NoPr EXCEPT !.here = TRUE, !.valid = v]
    BY Zenon, <1>1 DEF Operator!Submit
  <2>2. pr' \in PrType /\ pr'.here /\ pr'.state = "none"
    BY Zenon, <2>1 DEF Operator!NoPr, PrType
  <2>3. ~pr.here /\ op = Operator!Idle /\ UNCHANGED <<done, handled, resume, op>>
    BY Zenon, <1>1 DEF Operator!Submit
  <2> QED BY Zenon, <2>2, <2>3, IdleOperator DEF OperatorInv, Follows, Stands
<1>2. CASE Operator!Withdraw
  <2>1. /\ pr.here /\ pr' = Operator!NoPr /\ done' = {} /\ handled' = FALSE /\ resume' = FALSE
        /\ op' = op
    BY Zenon, <1>2 DEF Operator!Withdraw
  <2>2. /\ pr' \in PrType /\ ~pr'.here /\ pr'.valid /\ pr'.state = "none"
    BY <2>1, IdleOperator
  <2>3. OperatorInv'
    BY Zenon, <2>1, <2>2 DEF OperatorInv
  <2> QED BY Zenon, <2>1, <2>2, <2>3 DEF Follows, Stands
<1>3. CASE Operator!EditPackageVariant \/ Operator!Render \/ Operator!Provision
  <2>1. UNCHANGED <<pr, done, handled, resume, op>>
    BY Zenon, <1>3 DEF Operator!EditPackageVariant, Operator!Render, Operator!Provision
  <2> QED BY Zenon, <2>1, OperatorIdles
<1>4. CASE Operator!Restart
  <2>1. op' = Operator!Idle /\ resume' = pr.here /\ UNCHANGED <<pr, done, handled>>
    BY Zenon, <1>4 DEF Operator!Restart
  <2>2. resume' \in BOOLEAN
    BY Zenon, <2>1 DEF OperatorInv, PrType
  <2> QED BY Zenon, <2>1, <2>2, IdleOperator DEF OperatorInv, Follows, Stands
<1> QED BY Zenon, <1>1, <1>2, <1>3, <1>4

(* A step of a cycle before its patch is written.                           *)
LEMMA CycleGoes ==
    ASSUME OperatorInv, UNCHANGED <<pr, done, handled, resume>>, op' \in OpType,
           pr.here /\ op'.pc # "idle" => InCycle'
    PROVE  OperatorInv' /\ Follows /\ Stands
BY Zenon DEF OperatorInv, Follows, Stands

LEMMA CycleTypes ==
    ASSUME OperatorInv
    PROVE  /\ \A q \in {"get", "post", "render", "sub", "wait"}, t \in Nat : Operator!Goto(q, t) =>
                op' \in OpType /\ op'.pc = q /\ op'.patch = op.patch
           /\ \A q \in {"none", "progressing", "fulfilled", "failed"},
                 d \in SUBSET {"sub_validations", "sub_creation", "check_c_status"},
                 o \in BOOLEAN : Operator!Patch(q, d, o) =>
                op' \in OpType /\ op'.pc = "patch" /\ op'.patch.state = q /\ op'.patch.done = d
<1>1. ASSUME NEW q \in {"get", "post", "render", "sub", "wait"}, NEW t \in Nat, Operator!Goto(q, t)
      PROVE  op' \in OpType /\ op'.pc = q /\ op'.patch = op.patch
  BY Zenon, <1>1 DEF Operator!Goto, OperatorInv, OpType
<1>2. ASSUME NEW q \in {"none", "progressing", "fulfilled", "failed"},
             NEW d \in SUBSET {"sub_validations", "sub_creation", "check_c_status"},
             NEW o \in BOOLEAN, Operator!Patch(q, d, o)
      PROVE  op' \in OpType /\ op'.pc = "patch" /\ op'.patch.state = q /\ op'.patch.done = d
  BY Zenon, <1>2 DEF Operator!Patch, OpType
<1> QED BY <1>1, <1>2

(* A cycle begins: for a valid request because it is not handled yet or is  *)
(* resumed.                                                                 *)
LEMMA CycleBegins ==
    ASSUME OperatorInv, Operator!create_fn
    PROVE  OperatorInv' /\ Follows /\ Stands
<1>1. /\ UNCHANGED <<pr, done, handled, resume>> /\ pr.here /\ (~handled \/ resume)
      /\ IF pr.valid THEN Operator!Goto("get", 0) ELSE Operator!Patch("failed", {}, FALSE)
  BY Zenon DEF Operator!create_fn, Operator!Outside
<1>2. CASE pr.valid
  <2>1. op' \in OpType /\ op'.pc = "get"
    BY Zenon, <1>1, <1>2, CycleTypes
  <2> QED BY Zenon, <1>1, <1>2, <2>1, CycleGoes DEF InCycle
<1>3. CASE ~pr.valid
  <2>1. op' \in OpType /\ op'.pc = "patch" /\ op'.patch.state = "failed" /\ op'.patch.done = {}
    BY Zenon, <1>1, <1>3, CycleTypes
  <2> QED BY Zenon, <1>1, <1>3, <2>1, CycleGoes DEF InCycle
<1> QED BY <1>2, <1>3

(* The middle of a cycle, with the calls that fail there.                   *)
LEMMA CycleMiddle ==
    ASSUME OperatorInv,
           Operator!get_package_variant \/ Operator!create_package_variant
             \/ Operator!cluster_creation_request \/ Operator!subhandlers
             \/ Operator!cluster_creation_status \/ Operator!CallFails
    PROVE  OperatorInv' /\ Follows /\ Stands
<1>1. UNCHANGED <<pr, done, handled, resume>> /\ op.pc \notin {"idle", "patch"}
  BY Zenon DEF Operator!get_package_variant, Operator!create_package_variant,
         Operator!cluster_creation_request, Operator!subhandlers,
         Operator!cluster_creation_status, Operator!CallFails, Operator!Outside
<1>2. pr.here => pr.valid /\ (~handled \/ resume) /\ (op.pc = "wait" => Accepting \subseteq done)
  BY <1>1 DEF OperatorInv, InCycle
<1>3. \/ \E t \in Nat : \E q \in {"get", "post", "render", "sub"} : Operator!Goto(q, t)
      \/ \E t \in Nat : Operator!Goto("wait", t) /\ (op.pc = "wait" \/ Accepting \subseteq done)
      \/ \E o \in BOOLEAN : Operator!Patch("none", {}, o)
      \/ \E d \in SUBSET Accepting : Operator!Patch("progressing", d, FALSE)
      \/ /\ op.pc = "wait"
         /\ \E q \in {"none", "fulfilled", "failed"} : Operator!Patch(q, {"check_c_status"}, FALSE)
  <2>0. op.timer + 1 \in Nat
    BY DEF OperatorInv, OpType
  <2>1. CASE Operator!get_package_variant \/ Operator!create_package_variant
    BY Zenon, <2>1 DEF Operator!get_package_variant, Operator!create_package_variant
  <2>2. CASE Operator!cluster_creation_request
    BY Zenon, <2>0, <2>2 DEF Operator!cluster_creation_request, Operator!GiveUp
  <2>3. CASE Operator!subhandlers
    BY Zenon, <2>3 DEF Operator!subhandlers, Accepting
  <2>4. CASE Operator!cluster_creation_status
    BY Zenon, <2>0, <2>4 DEF Operator!cluster_creation_status
  <2>5. CASE Operator!CallFails
    BY Zenon, <2>0, <2>5 DEF Operator!CallFails, Operator!GiveUp
  <2> QED BY Zenon, <2>1, <2>2, <2>3, <2>4, <2>5
<1>4. op' \in OpType
  BY Zenon, <1>3, CycleTypes DEF Accepting
<1>5. ASSUME pr.here PROVE InCycle'
  <2>1. ASSUME NEW t \in Nat, NEW q \in {"get", "post", "render", "sub"}, Operator!Goto(q, t)
        PROVE  InCycle'
    BY Zenon, <1>1, <1>2, <1>5, <2>1, CycleTypes DEF InCycle
  <2>2. ASSUME NEW t \in Nat, Operator!Goto("wait", t), op.pc = "wait" \/ Accepting \subseteq done
        PROVE  InCycle'
    BY Zenon, <1>1, <1>2, <1>5, <2>2, CycleTypes DEF InCycle
  <2>3. ASSUME NEW o \in BOOLEAN, Operator!Patch("none", {}, o)
        PROVE  InCycle'
    BY Zenon, <1>1, <1>2, <1>5, <2>3, CycleTypes DEF InCycle, ValidPatch
  <2>4. ASSUME NEW d \in SUBSET Accepting, Operator!Patch("progressing", d, FALSE)
        PROVE  InCycle'
    BY Zenon, <1>1, <1>2, <1>5, <2>4, CycleTypes DEF InCycle, ValidPatch, Accepting
  <2>5. ASSUME op.pc = "wait", NEW q \in {"none", "fulfilled", "failed"},
               Operator!Patch(q, {"check_c_status"}, FALSE)
        PROVE  InCycle'
    BY Zenon, <1>1, <1>2, <1>5, <2>5, CycleTypes DEF InCycle, ValidPatch
  <2> QED BY Zenon, <1>3, <2>1, <2>2, <2>3, <2>4, <2>5
<1> QED BY Zenon, <1>1, <1>4, <1>5, CycleGoes

(* kopf writes the patch of a cycle.                                        *)
LEMMA CycleEnds ==
    ASSUME OperatorInv, Operator!WritePatch
    PROVE  OperatorInv' /\ Follows /\ Stands
<1> DEFINE all == done \union op.patch.done
           over == op.patch.over \/ all = Operator!Subhandlers
<1>0. /\ op' = Operator!Idle /\ op' \in OpType /\ op'.pc = "idle" /\ op.pc = "patch"
      /\ pr \in PrType /\ op.patch.over \in BOOLEAN
      /\ op.patch.state \in {"none", "progressing", "fulfilled", "failed"}
      /\ op.patch.done \in SUBSET {"sub_validations", "sub_creation", "check_c_status"}
      /\ done \in SUBSET {"sub_validations", "sub_creation", "check_c_status"}
  BY Zenon, IdleOperator DEF Operator!WritePatch, OperatorInv, OpType
<1>1. CASE ~pr.here
  BY Zenon, <1>0, <1>1 DEF Operator!WritePatch, OperatorInv, Follows, Stands
<1>2. CASE pr.here
  <2>1. /\ pr' = [pr EXCEPT !.state = IF op.patch.state = "none" THEN @ ELSE op.patch.state]
        /\ done' = IF over THEN {} ELSE all
        /\ handled' = (handled \/ over) /\ resume' = (resume /\ ~over)
    BY Zenon, <1>2 DEF Operator!WritePatch
  <2>2. /\ pr' \in PrType /\ pr'.here = pr.here /\ pr'.valid = pr.valid
        /\ pr'.state = IF op.patch.state = "none" THEN pr.state ELSE op.patch.state
    BY Zenon, <1>0, <2>1 DEF PrType
  <2>3. handled' \in BOOLEAN /\ resume' \in BOOLEAN
    BY Zenon, <2>1
  <2>4. done' \in SUBSET {"sub_validations", "sub_creation", "check_c_status"}
    BY <1>0, <2>1
  <2>5. InCycle
    BY Zenon, <1>0, <1>2 DEF OperatorInv
  <2>6. CASE ~pr.valid
    <3>1. done = {} /\ op.patch.state = "failed" /\ op.patch.done = {}
      BY Zenon, <1>0, <2>5, <2>6 DEF InCycle, OperatorInv
    <3>2. done' = {} /\ pr'.state = "failed" /\ pr.state \in {"none", "failed"}
      BY Zenon, <2>1, <2>2, <2>6, <3>1 DEF OperatorInv
    <3> QED BY Zenon, <1>0, <1>2, <2>2, <2>3, <2>4, <2>6, <3>2 DEF OperatorInv, Follows, Stands
  <2>7. CASE pr.valid
    <3>1. (~handled \/ resume) /\ ValidPatch(op.patch)
      BY <1>0, <2>5, <2>7 DEF InCycle
    <3>2. Stands
      BY Zenon, <2>7, <3>1 DEF Stands, OperatorInv
    <3>3. CASE op.patch.state = "progressing"
      BY Zenon, <1>0, <1>2, <2>2, <2>3, <2>4, <2>7, <3>2, <3>3 DEF OperatorInv, Follows
    <3>4. CASE op.patch.state = "none" /\ op.patch.done = {}
      <4>1. pr'.state = pr.state /\ (done' = done \/ done' = {}) /\ (handled => handled')
        BY Zenon, <2>1, <2>2, <3>4
      <4> QED BY Zenon, <1>0, <1>2, <2>2, <2>3, <2>4, <2>7, <3>2, <4>1 DEF OperatorInv, Follows
    <3>5. CASE /\ op.patch.state # "progressing" /\ op.patch.done = {"check_c_status"}
               /\ Accepting \subseteq done
      <4>1. all = Operator!Subhandlers
        BY Zenon, <1>0, <3>5 DEF Accepting, Operator!Subhandlers
      <4>2. done' = {} /\ handled'
        BY Zenon, <2>1, <4>1
      <4>3. pr.state = "progressing"
        BY <3>5 DEF Accepting, OperatorInv
      <4> QED BY Zenon, <1>0, <1>2, <2>2, <2>3, <2>4, <2>7, <3>2, <3>5, <4>2, <4>3
              DEF OperatorInv, Follows
    <3> QED BY Zenon, <3>1, <3>3, <3>4, <3>5 DEF ValidPatch
  <2> QED BY Zenon, <2>6, <2>7
<1> QED BY Zenon, <1>1, <1>2

LEMMA OperatorStep ==
    ASSUME OperatorInv, [Operator!Next]_(Operator!vars)
    PROVE  OperatorInv' /\ Follows /\ Stands
<1>1. CASE UNCHANGED Operator!vars
  BY <1>1, OperatorIdles DEF Operator!vars
<1> QED BY <1>1, OperatorEnvironment, CycleBegins, CycleMiddle, CycleEnds
        DEF Operator!Next, Operator!Handler

LEMMA OperatorInitial == Operator!Init => OperatorInv
BY Zenon, IdleOperator DEF Operator!Init, OperatorInv

(* The records of the request that exists, by the value of its state.       *)
LEMMA RequestRecords ==
    /\ Operator!Lifecycle!NewRequest = [here |-> TRUE, deleting |-> FALSE, state |-> "none"]
    /\ \A q, r : [here |-> TRUE, deleting |-> FALSE, state |-> r]
                  = [[here |-> TRUE, deleting |-> FALSE, state |-> q] EXCEPT !.state = r]
<1>1. PICK t, f : t = TRUE /\ f = FALSE
  OBVIOUS
<1>2. [[here |-> f, deleting |-> f, state |-> "none"] EXCEPT !.here = t]
        = [here |-> t, deleting |-> f, state |-> "none"]
  OBVIOUS
<1>3. Operator!Lifecycle!NewRequest = [here |-> TRUE, deleting |-> FALSE, state |-> "none"]
  BY Zenon, <1>1, <1>2 DEF Operator!Lifecycle!NewRequest, Operator!Lifecycle!NoRequest
<1>4. ASSUME NEW q, NEW r
      PROVE  [here |-> TRUE, deleting |-> FALSE, state |-> r]
               = [[here |-> TRUE, deleting |-> FALSE, state |-> q] EXCEPT !.state = r]
  <2>1. [here |-> t, deleting |-> f, state |-> r]
          = [[here |-> t, deleting |-> f, state |-> q] EXCEPT !.state = r]
    OBVIOUS
  <2> QED BY Zenon, <1>1, <2>1
<1> QED BY Zenon, <1>3, <1>4

(* What Follows says of the resource is a step of the abstract request.     *)
LEMMA RequestSteps ==
    ASSUME OperatorInv, OperatorInv', Follows
    PROVE  [Operator!Lifecycle!Next]_[here |-> pr.here, deleting |-> FALSE, state |-> pr.state]
<1> DEFINE request == [here |-> pr.here, deleting |-> FALSE, state |-> pr.state]
<1>0. pr \in PrType /\ pr' \in PrType
  BY Zenon DEF OperatorInv
<1>1. CASE ~pr.here /\ pr'.here /\ pr'.state = "none" /\ pr.state = "none"
  <2>1. pr'.here = TRUE /\ pr'.state = "none" /\ ~request.here
    BY <1>0, <1>1 DEF PrType
  <2>2. request' = Operator!Lifecycle!NewRequest
    <3>1. request' = [here |-> TRUE, deleting |-> FALSE, state |-> "none"]
      BY Zenon, <2>1
    <3> QED BY Zenon, <3>1, RequestRecords
  <2>3. Operator!Lifecycle!Submit
    BY Zenon, <2>1, <2>2 DEF Operator!Lifecycle!Submit
  <2> QED BY Zenon, <2>3 DEF Operator!Lifecycle!Next
<1>2. CASE pr.here /\ ~pr'.here /\ pr'.state = "none"
  <2>1. pr.here = TRUE /\ pr'.here = FALSE /\ pr'.state = "none"
    BY <1>0, <1>2 DEF PrType
  <2>2. request' = Operator!Lifecycle!NoRequest /\ request.here /\ ~request.deleting
    BY Zenon, <2>1 DEF Operator!Lifecycle!NoRequest
  <2>3. Operator!Lifecycle!Withdraw
    BY Zenon, <2>2 DEF Operator!Lifecycle!Withdraw
  <2> QED BY Zenon, <2>3 DEF Operator!Lifecycle!Next
<1>3. CASE pr' = pr
  BY Zenon, <1>3
<1>4. CASE pr.here /\ pr'.here
  <2>0. /\ request.here /\ ~request.deleting
        /\ request' = [request EXCEPT !.state = pr'.state]
    <3>1. pr.here = TRUE /\ pr'.here = TRUE
      BY <1>0, <1>4 DEF PrType
    <3>2. request = [here |-> TRUE, deleting |-> FALSE, state |-> pr.state]
      BY Zenon, <3>1
    <3>3. request' = [here |-> TRUE, deleting |-> FALSE, state |-> pr'.state]
      BY Zenon, <3>1
    <3>4. PICK q, r : q = pr.state /\ r = pr'.state
      OBVIOUS
    <3>5. [here |-> TRUE, deleting |-> FALSE, state |-> r]
            = [[here |-> TRUE, deleting |-> FALSE, state |-> q] EXCEPT !.state = r]
      BY Zenon, RequestRecords
    <3> HIDE DEF request
    <3>6. request' = [request EXCEPT !.state = pr'.state]
      BY Zenon, <3>2, <3>3, <3>4, <3>5
    <3>7. request.here /\ ~request.deleting
      BY Zenon, <3>2
    <3> QED BY Zenon, <3>6, <3>7
  <2>1. CASE pr'.state = pr.state
    BY Zenon, <1>0, <1>4, <2>1 DEF PrType
  <2>2. CASE pr'.state = "progressing" /\ pr.state \in {"fulfilled", "failed"}
    <3>1. Operator!Lifecycle!WorkAgain
      BY Zenon, <2>0, <2>2 DEF Operator!Lifecycle!WorkAgain, Operator!Lifecycle!Decided
    <3> QED BY Zenon, <3>1 DEF Operator!Lifecycle!Next
  <2>3. CASE \/ pr'.state \in {"progressing", "failed"} /\ pr.state = "none"
             \/ pr'.state \in {"fulfilled", "failed"} /\ pr.state = "progressing"
    <3>1. /\ <<pr.state, pr'.state>> \in Operator!Lifecycle!Moves
          /\ pr'.state \in Operator!Lifecycle!States
      BY <2>3 DEF Operator!Lifecycle!Moves, Operator!Lifecycle!Decided, Operator!Lifecycle!States
    <3>2. Operator!Lifecycle!Work
      BY Zenon, <2>0, <3>1 DEF Operator!Lifecycle!Work
    <3> QED BY Zenon, <3>2 DEF Operator!Lifecycle!Next
  <2> QED BY <1>0, <1>4, <2>1, <2>2, <2>3 DEF Follows, PrType
<1> QED BY <1>1, <1>2, <1>3, <1>4 DEF Follows

(* The O2IMS operator implements ProvisioningRequest, on which FOCOM        *)
(* relies: for any timeouts, with cycles that are repeated, cut off by a    *)
(* restart or overtaken by the deletion of their request, the status takes  *)
(* no step that is not in the lifecycle.                                    *)
THEOREM OperatorImplementsRequest == Operator!Spec => ImplementsRequest
<1>1. Operator!Init => Operator!Lifecycle!Init
  BY DEF Operator!Init, Operator!NoPr, Operator!Lifecycle!Init, Operator!Lifecycle!NoRequest
<1>2. OperatorInv /\ [Operator!Next]_(Operator!vars) => OperatorInv'
  BY Zenon, OperatorStep
<1>3. OperatorInv /\ [Operator!Next]_(Operator!vars) =>
        [Operator!Lifecycle!Next]_[here |-> pr.here, deleting |-> FALSE, state |-> pr.state]
  BY OperatorStep, RequestSteps
<1> QED BY OperatorInitial, <1>1, <1>2, <1>3, PTL
        DEF Operator!Spec, ImplementsRequest, Operator!ImplementsRequest, Operator!Lifecycle!Spec

(* A decision about a request stands until the operator is restarted, what- *)
(* ever becomes of the PackageVariant and of the cluster.                   *)
THEOREM OperatorStandsByDecision == Operator!Spec => DecisionStands
<1>1. OperatorInv /\ [Operator!Next]_(Operator!vars) => OperatorInv'
  BY OperatorStep
<1>2. OperatorInv /\ [Operator!Next]_(Operator!vars) =>
        [pr.state \in {"fulfilled", "failed"} /\ pr'.here =>
           pr'.state = pr.state \/ resume]_(Operator!vars)
  BY OperatorStep DEF Stands
<1> QED BY OperatorInitial, <1>1, <1>2, PTL
        DEF Operator!Spec, DecisionStands, Operator!DecisionStands

-----------------------------------------------------------------------------
(* The network controller.                                                  *)

NetworkType == [here : BOOLEAN, deleting : BOOLEAN, fin : BOOLEAN,
                cond : {"none", "Failed", "Ready"}]
NetworkSeen == [here : BOOLEAN, deleting : BOOLEAN, fin : BOOLEAN]
NetWorkerType == [pc : Net!Steps, net : Networks \union {"none"}, fin : BOOLEAN,
                  eps : SUBSET Endpoints, nodes : SUBSET Nodes,
                  report : {"none", "Failed", "Ready"}]

NetTypes ==
    /\ net \in [Networks -> NetworkType] /\ netCache \in [Networks -> NetworkSeen]
    /\ config \in [Networks -> [Nodes -> Net!Config]] /\ netWorker \in NetWorkerType

Kept(n) == net[n].here /\ net[n].fin

(* A Network that the cache shows with its finalizer and not deleted still  *)
(* has it: only Reconcile takes a finalizer away, and only from a Network   *)
(* that the cache shows as deleted.                                         *)
CacheInv ==
    \A n \in Networks :
      /\ n \in netSynced => netCache[n] = Net!Seen(n)
      /\ netCache[n].here /\ netCache[n].fin /\ ~netCache[n].deleting => Kept(n)

(* How far Reconcile, r, has come with its Network.                         *)
Progress(r, latest) ==
    /\ r.pc # "idle" => r.net \in Networks
    /\ r.pc \in {"finalize", "unfinalize"} /\ latest => r.net \in netSynced
    /\ r.pc = "finalize" => \/ r.fin /\ Kept(r.net)
                            \/ ~r.fin /\ (latest => net[r.net].here)
    /\ r.pc = "unfinalize" /\ latest => net[r.net].deleting
    /\ r.pc \in {"endpoints", "nodes", "initial", "apply"} => Kept(r.net)
    /\ r.pc = "status" /\ r.report = "Ready" => Kept(r.net) /\ Net!Complete(r.net)

NetInv == NetTypes /\ CacheInv /\ Progress(netWorker, netFresh)

(* What ConfiguredWhileKept and ReadyIsComplete say of a step.              *)
KeptAndComplete ==
    \A n \in Networks :
      /\ Net!Configured(n) => net[n].here /\ net[n].fin
      /\ net'[n].cond = "Ready" /\ net[n].cond # "Ready" => Net!Complete(n)

LEMMA IdleNetwork ==
    /\ Net!Idle \in NetWorkerType /\ Net!Idle.pc = "idle"
    /\ Net!Absent \in NetworkType /\ Net!New \in NetworkType
    /\ ~Net!Absent.here /\ ~Net!New.fin /\ Net!Absent.cond = "none" /\ Net!New.cond = "none"
    /\ Net!NoConfig \in Net!Config /\ ~Net!NoConfig.here
BY Zenon
DEF Net!Idle, Net!Absent, Net!New, Net!NoConfig, Net!Config, NetWorkerType, NetworkType, Net!Steps

LEMMA SeenNetwork ==
    ASSUME NetTypes, NEW n \in Networks
    PROVE  /\ net[n] \in NetworkType /\ Net!Seen(n) \in NetworkSeen
           /\ Net!Seen(n).here = net[n].here /\ Net!Seen(n).deleting = net[n].deleting
           /\ Net!Seen(n).fin = net[n].fin
<1>1. net[n] \in NetworkType
  BY Zenon DEF NetTypes
<1> QED BY Zenon, <1>1 DEF Net!Seen, NetworkType, NetworkSeen

LEMMA NetInitial == Net!Init => NetInv
<1> SUFFICES ASSUME Net!Init PROVE NetInv
  OBVIOUS
<1>1. /\ net \in [Networks -> NetworkType]
      /\ \A n \in Networks : net[n] = Net!Absent \/ net[n] = Net!New
  BY Zenon, IdleNetwork DEF Net!Init
<1>2. /\ netCache = [n \in Networks |-> Net!Seen(n)] /\ netWorker = Net!Idle
      /\ config = [n \in Networks |-> [d \in Nodes |-> Net!NoConfig]]
  BY DEF Net!Init
<1>3. \A n \in Networks :
        /\ Net!Seen(n) \in NetworkSeen
        /\ Net!Seen(n).here = net[n].here /\ Net!Seen(n).fin = net[n].fin
  BY Zenon, <1>1 DEF Net!Seen, NetworkType, NetworkSeen
<1>4. NetTypes
  BY Zenon, <1>1, <1>2, <1>3, IdleNetwork DEF NetTypes
<1>5. CacheInv
  BY <1>2, <1>3 DEF CacheInv, Kept
<1> QED BY Zenon, <1>2, <1>4, <1>5, IdleNetwork DEF NetInv, Progress

(* Steps that change neither a Network nor a configuration do no harm.      *)
LEMMA NoNetworkChanged ==
    ASSUME net' = net, config' = config
    PROVE  KeptAndComplete
BY Zenon DEF KeptAndComplete, Net!Configured

LEMMA NetUndisturbed ==
    ASSUME NetInv, net' = net, config' = config, netCache' = netCache, netSynced' = netSynced,
           netWorker' = netWorker, netFresh' = netFresh
    PROVE  NetInv' /\ KeptAndComplete
BY Zenon, NoNetworkChanged
DEF NetInv, NetTypes, CacheInv, Progress, Kept, Net!Complete, Net!Seen

(* The worker goes on, and nothing else that matters changes.               *)
LEMMA WorkerGoes ==
    ASSUME NetInv, net' = net, config' = config, netCache' = netCache, netSynced' = netSynced,
           netWorker' \in NetWorkerType, Progress(netWorker, netFresh)'
    PROVE  NetInv' /\ KeptAndComplete
BY Zenon, NoNetworkChanged DEF NetInv, NetTypes, CacheInv, Kept, Net!Seen

LEMMA IdleProgress ==
    ASSUME netWorker' = Net!Idle
    PROVE  netWorker' \in NetWorkerType /\ Progress(netWorker, netFresh)'
BY Zenon, IdleNetwork DEF Progress

(* A write of Network n.                                                    *)
LEMMA NetworkStored ==
    ASSUME NetInv, NEW n \in Networks, NEW new \in NetworkType, Net!Store(n, new)
    PROVE  /\ net' \in [Networks -> NetworkType] /\ net'[n] = new
           /\ \A m \in Networks \ {n} : net'[m] = net[m]
           /\ netSynced' \subseteq netSynced /\ netSynced \ {n} \subseteq netSynced'
           /\ n \in netSynced' => new = net[n]
BY Zenon DEF Net!Store, NetInv, NetTypes

(* ... keeps what the cache may rely on if it keeps a Network that the      *)
(* cache shows with its finalizer and not deleted.                          *)
LEMMA StoreKeepsCache ==
    ASSUME NetInv, NEW n \in Networks, NEW new \in NetworkType, Net!Store(n, new),
           netCache' = netCache,
           netCache[n].here /\ netCache[n].fin /\ ~netCache[n].deleting => new.here /\ new.fin
    PROVE  CacheInv'
<1>1. ASSUME NEW m \in Networks, m \in netSynced'
      PROVE  netCache'[m] = Net!Seen(m)'
  <2>1. m \in netSynced /\ net'[m] = net[m]
    BY Zenon, <1>1, NetworkStored
  <2> QED BY Zenon, <1>1, <2>1 DEF NetInv, CacheInv, Net!Seen
<1>2. \A m \in Networks : netCache[m].here /\ netCache[m].fin /\ ~netCache[m].deleting => Kept(m)'
  BY NetworkStored DEF NetInv, CacheInv, Kept
<1> QED BY Zenon, <1>1, <1>2 DEF CacheInv

LEMMA NetworkEdited ==
    ASSUME NetInv, NEW n \in Networks, Net!EditNetwork(n)
    PROVE  NetInv' /\ KeptAndComplete
<1>0. /\ config' = config /\ netWorker' = netWorker /\ netCache' = netCache
      /\ netFresh' => netFresh /\ netWorker.net # n
  BY Zenon DEF Net!EditNetwork, Net!Edit
<1>1. net[n] \in NetworkType
  BY Zenon, SeenNetwork DEF NetInv
<1>2. PICK new \in NetworkType :
        /\ Net!Store(n, new)
        /\ new.cond = "Ready" => net[n].cond = "Ready"
        /\ Kept(n) => new.here /\ new.fin
  <2>1. CASE ~net[n].here /\ Net!Store(n, Net!New)
    BY Zenon, <2>1, IdleNetwork DEF Kept
  <2>2. CASE net[n].here /\ net[n].fin /\ Net!Store(n, [net[n] EXCEPT !.deleting = TRUE])
    <3>1. PICK old \in NetworkType : old = net[n]
      BY <1>1
    <3>2. /\ [old EXCEPT !.deleting = TRUE] \in NetworkType
          /\ [old EXCEPT !.deleting = TRUE].cond = old.cond
          /\ [old EXCEPT !.deleting = TRUE].here = old.here
          /\ [old EXCEPT !.deleting = TRUE].fin = old.fin
      BY Zenon DEF NetworkType
    <3> QED BY Zenon, <2>2, <3>1, <3>2 DEF Kept
  <2>3. CASE ~net[n].fin /\ Net!Store(n, Net!Absent)
    BY Zenon, <2>3, IdleNetwork DEF Kept
  <2> QED BY Zenon, <2>1, <2>2, <2>3 DEF Net!EditNetwork
<1>3. /\ net' \in [Networks -> NetworkType] /\ net'[n] = new
      /\ \A m \in Networks \ {n} : net'[m] = net[m]
      /\ netSynced' \subseteq netSynced /\ netSynced \ {n} \subseteq netSynced'
  BY Zenon, <1>2, NetworkStored
<1>4. CacheInv'
  BY Zenon, <1>0, <1>2, StoreKeepsCache DEF NetInv, CacheInv
<1>5. \A m \in Networks : Kept(m) => Kept(m)'
  BY Zenon, <1>2, <1>3 DEF Kept
<1>6. Progress(netWorker, netFresh)'
  BY Zenon, <1>0, <1>3, <1>5 DEF NetInv, Progress, Net!Complete
<1>7. KeptAndComplete
  BY Zenon, <1>0, <1>2, <1>3 DEF KeptAndComplete, Net!Configured
<1> QED BY Zenon, <1>0, <1>3, <1>4, <1>6, <1>7 DEF NetInv, NetTypes

LEMMA NetworkSeenAnew ==
    ASSUME NetInv, NEW n \in Networks, Net!NetworkEvent(n)
    PROVE  NetInv' /\ KeptAndComplete
<1>1. /\ net' = net /\ config' = config /\ netWorker' = netWorker /\ netFresh' = netFresh
      /\ netSynced' = netSynced \union {n}
      /\ netCache' = [netCache EXCEPT ![n] = Net!Seen(n)]
  BY Zenon DEF Net!NetworkEvent
<1>2. /\ netCache' \in [Networks -> NetworkSeen] /\ netCache'[n] = Net!Seen(n)
      /\ \A m \in Networks \ {n} : netCache'[m] = netCache[m]
  BY Zenon, <1>1, SeenNetwork DEF NetInv, NetTypes
<1>3. Net!Seen(n).here /\ Net!Seen(n).fin => Kept(n)
  BY Zenon, SeenNetwork DEF NetInv, Kept
<1>4. CacheInv'
  BY Zenon, <1>1, <1>2, <1>3 DEF NetInv, CacheInv, Kept, Net!Seen
<1>5. Progress(netWorker, netFresh)'
  BY Zenon, <1>1 DEF NetInv, Progress, Kept, Net!Complete
<1> QED BY Zenon, <1>1, <1>2, <1>4, <1>5, NoNetworkChanged DEF NetInv, NetTypes

(* A step that changes configurations of Network n only.                    *)
LEMMA ConfigurationChanged ==
    ASSUME NetInv, NEW n \in Networks, NEW ds, NEW es \in SUBSET Endpoints, NEW ns,
           Net!Configure(n, ds, es, ns)
    PROVE  /\ config' \in [Networks -> [Nodes -> Net!Config]]
           /\ \A m \in Networks \ {n} : config'[m] = config[m]
           /\ \A d \in Nodes : config'[n][d] =
                IF d \notin ds THEN config[n][d]
                ELSE IF d \in ns THEN [here |-> TRUE, eps |-> es] ELSE Net!NoConfig
<1>1. [here |-> TRUE, eps |-> es] \in Net!Config
  BY Zenon DEF Net!Config
<1> QED BY Zenon, <1>1, IdleNetwork DEF Net!Configure, NetInv, NetTypes

Applied(n, es, ns) ==
    \A d \in Nodes :
      config[n][d] = IF d \in ns THEN [here |-> TRUE, eps |-> es] ELSE Net!NoConfig

LEMMA ConfigurationComplete ==
    ASSUME NetInv, NEW n \in Networks, NEW es \in SUBSET Endpoints, NEW ns,
           Net!Configure(n, Nodes, es, ns)
    PROVE  /\ config' \in [Networks -> [Nodes -> Net!Config]]
           /\ \A m \in Networks \ {n} : config'[m] = config[m]
           /\ Applied(n, es, ns)'
<1>1. PICK ds : ds = Nodes
  BY Zenon
<1>2. Net!Configure(n, ds, es, ns)
  BY Zenon, <1>1
<1>3. /\ config' \in [Networks -> [Nodes -> Net!Config]]
      /\ \A m \in Networks \ {n} : config'[m] = config[m]
  BY Zenon, <1>2, ConfigurationChanged
<1> QED BY Zenon, <1>3 DEF Net!Configure, NetInv, NetTypes, Applied

LEMMA ConfigurationRemoved ==
    ASSUME NetInv, NEW n \in Networks, Net!Configure(n, Nodes, {}, {})
    PROVE  /\ config' \in [Networks -> [Nodes -> Net!Config]]
           /\ \A m \in Networks \ {n} : config'[m] = config[m]
           /\ \A d \in Nodes : config'[n][d] = Net!NoConfig
BY Zenon, IdleNetwork DEF Net!Configure, NetInv, NetTypes

LEMMA GarbageCollected ==
    ASSUME NetInv, NEW n \in Networks, Net!CollectGarbage(n)
    PROVE  NetInv' /\ KeptAndComplete
<1>1. /\ net' = net /\ netCache' = netCache /\ netSynced' = netSynced /\ netWorker' = netWorker
      /\ netFresh' = netFresh /\ ~net[n].here /\ Net!Configure(n, Nodes, {}, {})
  BY Zenon DEF Net!CollectGarbage, Net!inventory
<1>2. /\ config' \in [Networks -> [Nodes -> Net!Config]]
      /\ \A m \in Networks \ {n} : config'[m] = config[m]
      /\ \A d \in Nodes : config'[n][d] = Net!NoConfig
  BY Zenon, <1>1, ConfigurationRemoved
<1>3. Progress(netWorker, netFresh)'
  BY Zenon, <1>1, <1>2 DEF NetInv, Progress, Kept, Net!Complete
<1>4. KeptAndComplete
  BY Zenon, <1>1, <1>2, IdleNetwork DEF KeptAndComplete, Net!Configured
<1> QED BY Zenon, <1>1, <1>2, <1>3, <1>4 DEF NetInv, NetTypes, CacheInv, Kept, Net!Seen

LEMMA NetRestarted ==
    ASSUME NetInv, Net!Restart
    PROVE  NetInv' /\ KeptAndComplete
<1>1. /\ net' = net /\ config' = config /\ netWorker' = Net!Idle
      /\ netCache' = [n \in Networks |-> Net!Seen(n)]
  BY Zenon DEF Net!Restart
<1>2. netCache' \in [Networks -> NetworkSeen]
  BY Zenon, <1>1, SeenNetwork DEF NetInv
<1>3. CacheInv'
  BY Zenon, <1>1, SeenNetwork DEF NetInv, CacheInv, Kept, Net!Seen
<1> QED BY Zenon, <1>1, <1>2, <1>3, IdleProgress, NoNetworkChanged DEF NetInv, NetTypes

(* The Network as the cache shows it, with or without its finalizer.        *)
LEMMA NetworkTaken ==
    ASSUME NetInv, NEW n \in Networks, Net!GetNetwork(n)
    PROVE  NetInv' /\ KeptAndComplete
<1>1. /\ net' = net /\ config' = config /\ netCache' = netCache /\ netSynced' = netSynced
      /\ netFresh' => n \in netSynced
  BY Zenon DEF Net!GetNetwork, Net!Keeps
<1>2. CASE ~netCache[n].here
  BY Zenon, <1>1, <1>2, IdleProgress, WorkerGoes DEF Net!GetNetwork
<1>3. CASE netCache[n].here
  <2>1. netCache[n] \in NetworkSeen
    BY DEF NetInv, NetTypes
  <2>2. PICK step \in {"unfinalize", "finalize"} :
          /\ step = IF netCache[n].deleting THEN "unfinalize" ELSE "finalize"
          /\ netWorker' = [Net!Idle EXCEPT !.pc = step, !.net = n, !.fin = netCache[n].fin]
    BY Zenon, <1>3 DEF Net!GetNetwork
  <2>3. /\ netWorker' \in NetWorkerType /\ netWorker'.pc = step /\ netWorker'.net = n
        /\ netWorker'.fin = netCache[n].fin
    BY Zenon, <2>1, <2>2, IdleNetwork DEF NetWorkerType, NetworkSeen, Net!Steps
  <2>4. n \in netSynced => /\ netCache[n].here => net[n].here
                           /\ netCache[n].deleting => net[n].deleting
    BY Zenon, SeenNetwork DEF NetInv, CacheInv
  <2>5. Progress(netWorker, netFresh)'
    <3>1. CASE netCache[n].deleting
      <4>1. step = "unfinalize" /\ (netFresh' => n \in netSynced' /\ net'[n].deleting)
        BY Zenon, <1>1, <2>2, <2>4, <3>1
      <4> QED BY Zenon, <2>3, <4>1 DEF Progress
    <3>2. CASE ~netCache[n].deleting
      <4>1. netCache[n].fin => Kept(n)'
        BY Zenon, <1>1, <1>3, <3>2 DEF NetInv, CacheInv, Kept
      <4>2. step = "finalize" /\ (netFresh' => net'[n].here)
        BY Zenon, <1>1, <1>3, <2>2, <2>4, <3>2
      <4> QED BY Zenon, <1>1, <2>1, <2>3, <4>1, <4>2 DEF Progress, NetworkSeen
    <3> QED BY Zenon, <3>1, <3>2
  <2> QED BY Zenon, <1>1, <2>3, <2>5, WorkerGoes
<1> QED BY <1>2, <1>3

LEMMA WorkerReports ==
    ASSUME NetInv, netWorker.pc # "idle", Net!Report("Failed")
    PROVE  netWorker' \in NetWorkerType /\ Progress(netWorker, netFresh)'
<1>1. /\ netWorker' \in NetWorkerType /\ netWorker'.pc = "status" /\ netWorker'.report = "Failed"
      /\ netWorker'.net = netWorker.net
  BY Zenon DEF Net!Report, NetInv, NetTypes, NetWorkerType, Net!Steps
<1> QED BY Zenon, <1>1 DEF NetInv, Progress

LEMMA FinalizerRemoved ==
    ASSUME NetInv, Net!RemoveFinalizer
    PROVE  NetInv' /\ KeptAndComplete
<1>0. /\ netWorker.pc = "unfinalize" /\ config' = config /\ netCache' = netCache
  BY DEF Net!RemoveFinalizer, Net!Keeps
<1>1. CASE net' = net /\ netSynced' = netSynced /\ (Net!Return \/ Net!Report("Failed"))
  BY Zenon, <1>0, <1>1, IdleProgress, WorkerReports, WorkerGoes DEF Net!Return
<1>2. CASE netFresh /\ Net!Store(netWorker.net, Net!Absent) /\ Net!Return
  <2>1. PICK n \in Networks : n = netWorker.net
    BY Zenon, <1>0 DEF NetInv, Progress
  <2>2. n \in netSynced /\ net[n].deleting
    BY Zenon, <1>0, <1>2, <2>1 DEF NetInv, Progress
  <2>3. netCache[n].deleting
    BY Zenon, <2>2, SeenNetwork DEF NetInv, CacheInv
  <2>4. CacheInv'
    BY Zenon, <1>0, <1>2, <2>1, <2>3, StoreKeepsCache, IdleNetwork
  <2>5. /\ net' \in [Networks -> NetworkType] /\ net'[n] = Net!Absent
        /\ \A m \in Networks \ {n} : net'[m] = net[m]
    BY Zenon, <1>2, <2>1, NetworkStored, IdleNetwork
  <2>6. KeptAndComplete
    BY Zenon, <1>0, <2>5, IdleNetwork DEF KeptAndComplete, Net!Configured
  <2> QED BY Zenon, <1>0, <1>2, <2>4, <2>5, <2>6, IdleProgress DEF NetInv, NetTypes, Net!Return
<1> QED BY Zenon, <1>1, <1>2 DEF Net!RemoveFinalizer

LEMMA WorkerAt ==
    ASSUME NetInv, NEW step \in Net!Steps, Net!Goto(step)
    PROVE  /\ netWorker' \in NetWorkerType /\ netWorker'.pc = step /\ netWorker'.net = netWorker.net
           /\ netWorker'.eps = netWorker.eps /\ netWorker'.nodes = netWorker.nodes
BY Zenon DEF Net!Goto, NetInv, NetTypes, NetWorkerType

LEMMA FinalizerAdded ==
    ASSUME NetInv, Net!AddFinalizer
    PROVE  NetInv' /\ KeptAndComplete
<1>0. /\ netWorker.pc = "finalize" /\ config' = config
      /\ netCache' = netCache /\ netFresh' = netFresh
  BY Zenon DEF Net!AddFinalizer, Net!Keeps
<1>1. CASE net' = net /\ netSynced' = netSynced /\ Net!Report("Failed")
  BY Zenon, <1>0, <1>1, WorkerReports, WorkerGoes
<1>2. CASE net' = net /\ netSynced' = netSynced /\ netWorker.fin /\ Net!Goto("endpoints")
  <2>1. /\ netWorker' \in NetWorkerType /\ netWorker'.pc = "endpoints"
        /\ netWorker'.net = netWorker.net
    BY Zenon, <1>2, WorkerAt DEF Net!Steps
  <2>2. Progress(netWorker, netFresh)'
    BY Zenon, <1>0, <1>2, <2>1 DEF NetInv, Progress, Kept
  <2> QED BY Zenon, <1>0, <1>2, <2>1, <2>2, WorkerGoes
<1>3. CASE /\ ~netWorker.fin /\ netFresh /\ Net!Goto("endpoints")
           /\ Net!Store(netWorker.net, [net[netWorker.net] EXCEPT !.fin = TRUE])
  <2>1. PICK n \in Networks : n = netWorker.net
    BY Zenon, <1>0 DEF NetInv, Progress
  <2>2. net[n].here
    BY Zenon, <1>0, <1>3, <2>1 DEF NetInv, Progress
  <2>0. PICK old \in NetworkType : old = net[n]
    BY Zenon, SeenNetwork DEF NetInv
  <2>3. PICK new : old = net[n] /\ new = [old EXCEPT !.fin = TRUE]
    BY Zenon, <2>0
  <2>4. new \in NetworkType /\ new.fin = TRUE /\ new.here = old.here /\ new.cond = old.cond
    BY Zenon, <2>3 DEF NetworkType
  <2>5. Net!Store(n, new)
    BY Zenon, <1>3, <2>1, <2>3
  <2>6. CacheInv'
    BY Zenon, <1>0, <2>2, <2>3, <2>4, <2>5, StoreKeepsCache
  <2>7. /\ net' \in [Networks -> NetworkType] /\ net'[n] = new
        /\ \A m \in Networks \ {n} : net'[m] = net[m]
    BY <2>4, <2>5, NetworkStored
  <2>8. netWorker' \in NetWorkerType /\ netWorker'.pc = "endpoints" /\ netWorker'.net = n
    BY <1>3, <2>1, WorkerAt DEF Net!Steps
  <2>9. Progress(netWorker, netFresh)'
    BY Zenon, <2>2, <2>3, <2>4, <2>7, <2>8 DEF Progress, Kept
  <2>10. KeptAndComplete
    <3>1. \A m \in Networks : net'[m].cond = net[m].cond
      BY Zenon, <2>3, <2>4, <2>7
    <3> QED BY <1>0, <3>1 DEF KeptAndComplete, Net!Configured
  <2> QED BY Zenon, <1>0, <2>6, <2>7, <2>8, <2>9, <2>10 DEF NetInv, NetTypes
<1> QED BY Zenon, <1>1, <1>2, <1>3 DEF Net!AddFinalizer

LEMMA InventoryRead ==
    ASSUME NetInv, Net!getProviderEndpoints \/ Net!getProviderNodes
    PROVE  NetInv' /\ KeptAndComplete
<1>1. /\ net' = net /\ config' = config /\ netCache' = netCache /\ netSynced' = netSynced
      /\ netWorker.pc \in {"endpoints", "nodes"}
  BY DEF Net!getProviderEndpoints, Net!getProviderNodes, Net!Keeps
<1>2. PICK es \in SUBSET Endpoints, ns \in SUBSET Nodes :
        \/ netWorker' = [netWorker EXCEPT !.pc = "nodes", !.eps = es]
        \/ netWorker' = [netWorker EXCEPT !.pc = "initial", !.nodes = ns]
  BY Zenon DEF Net!getProviderEndpoints, Net!getProviderNodes
<1>3. /\ netWorker' \in NetWorkerType /\ netWorker'.pc \in {"nodes", "initial"}
      /\ netWorker'.net = netWorker.net
  BY Zenon, <1>2 DEF NetInv, NetTypes, NetWorkerType, Net!Steps
<1>4. Progress(netWorker, netFresh)'
  BY Zenon, <1>1, <1>3 DEF NetInv, Progress, Kept
<1> QED BY Zenon, <1>1, <1>3, <1>4, WorkerGoes

(* A step of Reconcile that changes the configurations of its Network only. *)
LEMMA WorkerConfigures ==
    ASSUME NetInv, NEW n \in Networks, n = netWorker.net, Kept(n),
           net' = net, netCache' = netCache, netSynced' = netSynced,
           config' \in [Networks -> [Nodes -> Net!Config]],
           \A m \in Networks \ {n} : config'[m] = config[m],
           netWorker' \in NetWorkerType, Progress(netWorker, netFresh)'
    PROVE  NetInv' /\ KeptAndComplete
<1>1. KeptAndComplete
  BY Zenon DEF KeptAndComplete, Net!Configured, Kept
<1> QED BY <1>1 DEF NetInv, NetTypes, CacheInv, Kept, Net!Seen

LEMMA InitialApplied ==
    ASSUME NetInv, Net!applyInitialresources
    PROVE  NetInv' /\ KeptAndComplete
<1>1. /\ net' = net /\ netCache' = netCache /\ netSynced' = netSynced
      /\ netWorker.pc = "initial" /\ Net!Goto("apply")
  BY DEF Net!applyInitialresources, Net!Keeps
<1>2. netWorker' \in NetWorkerType /\ netWorker'.pc = "apply" /\ netWorker'.net = netWorker.net
  BY Zenon, <1>1, WorkerAt DEF Net!Steps
<1>3. PICK n \in Networks : n = netWorker.net /\ Kept(n)
  BY Zenon, <1>1 DEF NetInv, Progress
<1>4. Progress(netWorker, netFresh)'
  BY Zenon, <1>1, <1>2, <1>3 DEF Progress, Kept
<1>5. CASE config' = config
  BY Zenon, <1>1, <1>2, <1>4, <1>5, WorkerGoes
<1>6. CASE Net!Configure(n, Nodes, {}, {})
  BY Zenon, <1>1, <1>2, <1>3, <1>4, <1>6, ConfigurationRemoved, WorkerConfigures
<1> QED BY Zenon, <1>3, <1>5, <1>6 DEF Net!applyInitialresources

(* All the devices, the ones to prune included, are brought to what the     *)
(* Endpoints and Nodes ask for.                                             *)
LEMMA AllApplied ==
    ASSUME NetInv, Net!APIApply
    PROVE  NetInv' /\ KeptAndComplete
<1>1. /\ net' = net /\ netCache' = netCache /\ netSynced' = netSynced
      /\ netWorker.pc = "apply" /\ Net!Report("Ready")
      /\ Net!Configure(netWorker.net, Nodes, netWorker.eps, netWorker.nodes)
  BY DEF Net!APIApply, Net!Keeps
<1>2. /\ netWorker' \in NetWorkerType /\ netWorker'.pc = "status" /\ netWorker'.net = netWorker.net
      /\ netWorker'.eps = netWorker.eps /\ netWorker'.nodes = netWorker.nodes
  BY Zenon, <1>1 DEF Net!Report, NetInv, NetTypes, NetWorkerType, Net!Steps
<1>3. PICK n \in Networks : n = netWorker.net /\ Kept(n)
  BY Zenon, <1>1 DEF NetInv, Progress
<1>4. PICK es \in SUBSET Endpoints, ns \in SUBSET Nodes : es = netWorker.eps /\ ns = netWorker.nodes
  BY Zenon DEF NetInv, NetTypes, NetWorkerType
<1>5. Net!Configure(n, Nodes, es, ns)
  BY Zenon, <1>1, <1>3, <1>4
<1>6. /\ config' \in [Networks -> [Nodes -> Net!Config]]
      /\ \A m \in Networks \ {n} : config'[m] = config[m]
  BY Zenon, <1>5, ConfigurationComplete
<1>7. Net!Complete(n)'
  <2>1. Applied(n, es, ns)'
    BY Zenon, <1>5, ConfigurationComplete
  <2>2. es = netWorker'.eps /\ ns = netWorker'.nodes
    BY Zenon, <1>2, <1>4
  <2> QED BY Zenon, <2>1, <2>2 DEF Net!Complete, Applied
<1>8. Progress(netWorker, netFresh)'
  BY Zenon, <1>1, <1>2, <1>3, <1>7 DEF Progress, Kept
<1> QED BY Zenon, <1>1, <1>2, <1>3, <1>6, <1>8, WorkerConfigures

LEMMA StatusWritten ==
    ASSUME NetInv, Net!UpdateStatus
    PROVE  NetInv' /\ KeptAndComplete
<1>1. /\ config' = config /\ netCache' = netCache /\ netWorker.pc = "status"
      /\ netWorker' = Net!Idle
  BY DEF Net!UpdateStatus, Net!Keeps, Net!Return, Net!Requeue
<1>2. CASE net' = net /\ netSynced' = netSynced
  BY Zenon, <1>1, <1>2, IdleProgress, WorkerGoes
<1>3. CASE Net!Store(netWorker.net, [net[netWorker.net] EXCEPT !.cond = netWorker.report])
  <2>1. PICK n \in Networks : n = netWorker.net
    BY Zenon, <1>1 DEF NetInv, Progress
  <2>2. PICK old \in NetworkType : old = net[n]
    BY SeenNetwork DEF NetInv
  <2>3. PICK c \in {"none", "Failed", "Ready"} : c = netWorker.report
    BY DEF NetInv, NetTypes, NetWorkerType
  <2>4. PICK new : new = [old EXCEPT !.cond = c]
    OBVIOUS
  <2>5. new \in NetworkType /\ new.fin = old.fin /\ new.here = old.here /\ new.cond = c
    BY <2>4 DEF NetworkType
  <2>6. Net!Store(n, new)
    BY <1>3, <2>1, <2>2, <2>3, <2>4
  <2>7. CacheInv'
    BY Zenon, <1>1, <2>2, <2>5, <2>6, StoreKeepsCache DEF NetInv, CacheInv, Kept
  <2>8. /\ net' \in [Networks -> NetworkType] /\ net'[n] = new
        /\ \A m \in Networks \ {n} : net'[m] = net[m]
    BY Zenon, <2>5, <2>6, NetworkStored
  <2>9. c = "Ready" => Net!Complete(n)
    BY Zenon, <1>1, <2>1, <2>3 DEF NetInv, Progress
  <2>10. KeptAndComplete
    BY Zenon, <1>1, <2>5, <2>8, <2>9 DEF KeptAndComplete, Net!Configured
  <2> QED BY Zenon, <1>1, <2>7, <2>8, <2>10, IdleProgress DEF NetInv, NetTypes
<1> QED BY Zenon, <1>2, <1>3 DEF Net!UpdateStatus

LEMMA NetCallFailed ==
    ASSUME NetInv, Net!CallFails
    PROVE  NetInv' /\ KeptAndComplete
<1>1. net' = net /\ netCache' = netCache /\ netSynced' = netSynced
  BY DEF Net!CallFails
<1>2. CASE netWorker.pc # "idle" /\ Net!Report("Failed") /\ config' = config
  BY Zenon, <1>1, <1>2, WorkerReports, WorkerGoes
<1>3. CASE netWorker' = Net!Idle /\ config' = config
  BY Zenon, <1>1, <1>3, IdleProgress, WorkerGoes
<1>4. CASE /\ netWorker.pc = "apply" /\ Net!Report("Failed")
           /\ \E ds \in SUBSET Nodes :
                Net!Configure(netWorker.net, ds, netWorker.eps, netWorker.nodes)
  <2>1. PICK n \in Networks : n = netWorker.net /\ Kept(n)
    BY Zenon, <1>4 DEF NetInv, Progress
  <2>2. PICK es \in SUBSET Endpoints, ns \in SUBSET Nodes :
          es = netWorker.eps /\ ns = netWorker.nodes
    BY DEF NetInv, NetTypes, NetWorkerType
  <2>3. PICK ds \in SUBSET Nodes : Net!Configure(n, ds, es, ns)
    BY Zenon, <1>4, <2>1, <2>2
  <2>4. /\ config' \in [Networks -> [Nodes -> Net!Config]]
        /\ \A m \in Networks \ {n} : config'[m] = config[m]
    BY Zenon, <2>3, ConfigurationChanged
  <2>5. netWorker' \in NetWorkerType /\ Progress(netWorker, netFresh)'
    BY Zenon, <1>4, WorkerReports
  <2> QED BY Zenon, <1>1, <2>1, <2>4, <2>5, WorkerConfigures
<1> QED BY Zenon, <1>2, <1>3, <1>4 DEF Net!CallFails, Net!Requeue, Net!Return

(* Endpoints, Nodes and their caches are not part of the invariant.         *)
LEMMA InventoryChanges ==
    ASSUME NetInv,
           \/ \E e \in Endpoints : \/ \E t \in Net!Labels : Net!EditEndpoint(e, t)
                                  \/ Net!EndpointEvent(e) \/ Net!EndpointEventDropped(e)
           \/ \E d \in Nodes : \/ \E t \in Net!Labels : Net!EditNode(d, t)
                              \/ Net!NodeEvent(d)
    PROVE  NetInv' /\ KeptAndComplete
<1>1. /\ net' = net /\ config' = config /\ netCache' = netCache /\ netSynced' = netSynced
      /\ netWorker' = netWorker /\ netFresh' = netFresh
  BY Zenon DEF Net!EditEndpoint, Net!EndpointEvent, Net!EndpointEventDropped, Net!EditNode,
         Net!NodeEvent, Net!Edit
<1> QED BY Zenon, <1>1, NetUndisturbed

LEMMA NetStep ==
    ASSUME NetInv, [Net!Next]_(Net!vars)
    PROVE  NetInv' /\ KeptAndComplete
<1>1. CASE UNCHANGED Net!vars
  BY Zenon, <1>1, NetUndisturbed DEF Net!vars
<1>2. CASE Net!Reconcile
  BY Zenon, <1>2, NetworkTaken, FinalizerRemoved, FinalizerAdded, InventoryRead, InitialApplied,
     AllApplied, StatusWritten DEF Net!Reconcile
<1> QED BY Zenon, <1>1, <1>2, NetworkEdited, NetworkSeenAnew, GarbageCollected, NetRestarted,
           InventoryChanges, NetCallFailed DEF Net!Next

(* The network controller configures devices only for a Network that is     *)
(* there and is kept by its finalizer, for any Networks and devices, with   *)
(* caches that lag, failures and restarts.                                  *)
THEOREM NoStrayConfiguration == Net!Spec => ConfiguredWhileKept
<1>1. NetInv /\ [Net!Next]_(Net!vars) => NetInv'
  BY NetStep
<1>2. NetInv /\ [Net!Next]_(Net!vars) =>
        [\A n \in Networks : Net!Configured(n) => net[n].here /\ net[n].fin]_(Net!vars)
  BY Zenon, NetStep DEF KeptAndComplete
<1> QED BY <1>1, <1>2, NetInitial, PTL DEF Net!Spec, ConfiguredWhileKept, Net!ConfiguredWhileKept

(* A Network becomes Ready only when all its devices are configured, with   *)
(* the same Endpoints, whatever earlier calls of Reconcile left behind.     *)
THEOREM ReadyNetworkComplete == Net!Spec => ReadyIsComplete
<1>1. NetInv /\ [Net!Next]_(Net!vars) => NetInv'
  BY NetStep
<1>2. NetInv /\ [Net!Next]_(Net!vars) =>
        [\A n \in Networks : net'[n].cond = "Ready" /\ net[n].cond # "Ready" =>
                               Net!Complete(n)]_(Net!vars)
  BY NetStep DEF KeptAndComplete
<1> QED BY <1>1, <1>2, NetInitial, PTL DEF Net!Spec, ReadyIsComplete, Net!ReadyIsComplete
=============================================================================
