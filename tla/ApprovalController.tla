------------------------- MODULE ApprovalController -------------------------
(***************************************************************************)
(* The approval controller: it takes the revisions of one package from     *)
(* Draft to Proposed and to Published, as the policy in their annotations  *)
(* says.  Every read goes to the API server (apiReader); a write that      *)
(* carries an old resource version is refused.  Between two calls of       *)
(* Reconcile users and Porch change the revisions.  An action is what      *)
(* Reconcile does up to and including its next call.                       *)
(***************************************************************************)
EXTENDS Integers, FiniteSets

CONSTANTS
    Rev,              \* the revisions of a package, in one repository
    Variants,         \* the annotations of revisions (policy, "" for none, and delay
                      \* in ticks) and whether a PackageVariant owns them
    PVStates,         \* what the PackageVariant may be like
    RequeueDuration,  \* cfg.ApprovalRequeueDuration, in ticks
    MaxAge,           \* up to which time is counted: longer than every delay
    MaxEdits,         \* bound on what users and Porch do
    MaxFaults,        \* bound on the calls that fail
    MaxCrashes        \* bound on the restarts of the controller manager

NoDelay == -1         \* no delay annotation
BadDelay == -2        \* one that does not parse, or is negative
Delays == {v.delay : v \in Variants}
Policies == {v.policy : v \in Variants}

ASSUME ApprovalAssumption ==
    /\ \A v \in Variants : /\ v.delay \in Nat \cup {NoDelay, BadDelay}
                           /\ v.delay < MaxAge /\ v.owned \in BOOLEAN
    /\ PVStates \subseteq {"ready", "notReady", "missing"}
    /\ RequeueDuration \in Nat \ {0} /\ MaxAge \in Nat
    /\ MaxEdits \in Nat /\ MaxFaults \in Nat /\ MaxCrashes \in Nat

VARIABLES
    pr,        \* the PackageRevisions
    age,       \* time since their creation; grows up to MaxAge
    pv,        \* the PackageVariant that owns revisions: its Ready condition
    queued,    \* the requests in the workqueue
    timer,     \* time until a delayed request is added to it; Never is none
    w,         \* Reconcile: where it is, for which revision, its copy of it, which
               \* tells how old the revision is
    fresh,     \* the resource version of the copy is the latest one
    manual,    \* the revisions that users have approved
    edits, faults, crashes

vars == <<pr, age, pv, queued, timer, w, fresh, manual, edits, faults, crashes>>

Never == 0
MaxWait == IF MaxAge > RequeueDuration THEN MaxAge ELSE RequeueDuration

Lifecycles == {"Draft", "Proposed", "Published", "DeletionProposed"}

PackageRevision == [life : Lifecycles \cup {"absent"}, policy : Policies \cup {""},
                    gates : BOOLEAN, delay : Delays \cup {NoDelay}, owned : BOOLEAN]

Absent == [life |-> "absent", policy |-> "", gates |-> FALSE, delay |-> NoDelay,
           owned |-> FALSE]

NoRev == "none"
Idle == [pc |-> "idle", rev |-> NoRev, copy |-> Absent, age |-> 0]

TypeOK ==
    /\ pr \in [Rev -> PackageRevision] /\ age \in [Rev -> 0..MaxAge] /\ pv \in PVStates
    /\ queued \subseteq Rev /\ timer \in [Rev -> 0..MaxWait]
    /\ w \in [pc : {"idle", "pv", "list", "write", "put"}, rev : Rev \cup {NoRev},
              copy : PackageRevision, age : 0..MaxAge]
    /\ fresh \in BOOLEAN /\ manual \subseteq Rev
    /\ edits \in 0..MaxEdits /\ faults \in 0..MaxFaults /\ crashes \in 0..MaxCrashes

Init ==
    /\ pr = [r \in Rev |-> Absent] /\ age = [r \in Rev |-> 0] /\ pv \in PVStates \ {"missing"}
    /\ queued = {} /\ timer = [r \in Rev |-> Never]
    /\ w = Idle /\ fresh = FALSE /\ manual = {}
    /\ edits = 0 /\ faults = 0 /\ crashes = 0

-----------------------------------------------------------------------------
(* Users, Porch and the PackageVariant controller.                          *)

(* The watch of PackageRevisions queues a request.                          *)
Stored(r, new) == pr' = [pr EXCEPT ![r] = new] /\ queued' = queued \cup {r}

Edit(r, new) ==
    /\ edits < MaxEdits /\ edits' = edits + 1
    /\ Stored(r, new) /\ fresh' = (fresh /\ r # w.rev)
    /\ UNCHANGED <<pv, timer, w, faults, crashes>>

Create(r) ==
    /\ pr[r].life = "absent"
    /\ \E v \in Variants, g \in BOOLEAN :
          Edit(r, [life |-> "Draft", policy |-> v.policy, gates |-> g, delay |-> v.delay,
                   owned |-> v.owned])
    /\ age' = [age EXCEPT ![r] = 0] /\ UNCHANGED manual

(* The conditions of a package change only while it is a Draft.             *)
SetGates(r) ==
    /\ pr[r].life = "Draft" /\ Edit(r, [pr[r] EXCEPT !.gates = ~@])
    /\ UNCHANGED <<age, manual>>

UserLifecycle ==
    {<<"Draft", "Proposed">>, <<"Proposed", "Draft">>, <<"Proposed", "Published">>,
     <<"Published", "DeletionProposed">>, <<"DeletionProposed", "Published">>}

SetLifecycle(r) ==
    /\ \E t \in UserLifecycle : pr[r].life = t[1] /\ Edit(r, [pr[r] EXCEPT !.life = t[2]])
    /\ manual' = IF pr[r].life = "Proposed" /\ pr'[r].life = "Published"
                 THEN manual \cup {r} ELSE manual
    /\ UNCHANGED age

Delete(r) ==
    /\ pr[r].life \in {"Draft", "Proposed", "DeletionProposed"} /\ Edit(r, Absent)
    /\ manual' = manual \ {r}
    /\ UNCHANGED age

(* No request is queued for what happens to a PackageVariant.               *)
SetPackageVariant ==
    /\ edits < MaxEdits /\ edits' = edits + 1
    /\ pv' \in PVStates \ {pv}
    /\ UNCHANGED <<pr, age, queued, timer, w, fresh, manual, faults, crashes>>

Older(a) == IF a = MaxAge THEN a ELSE a + 1

(* Time passes; the delayed requests that are due enter the workqueue.      *)
Tick ==
    /\ age' = [r \in Rev |-> IF pr[r].life = "absent" THEN age[r] ELSE Older(age[r])]
    /\ w' = IF w.pc = "idle" THEN w ELSE [w EXCEPT !.age = Older(@)]
    /\ queued' = queued \cup {r \in Rev : timer[r] = 1}
    /\ timer' = [r \in Rev |-> IF timer[r] = Never THEN Never ELSE timer[r] - 1]
    /\ UNCHANGED <<pr, pv, fresh, manual, edits, faults, crashes>>

(* The manager restarts and gets an event for every revision there is.      *)
Crash ==
    /\ crashes < MaxCrashes /\ crashes' = crashes + 1
    /\ w' = Idle /\ fresh' = FALSE
    /\ queued' = {r \in Rev : pr[r].life # "absent"} /\ timer' = [r \in Rev |-> Never]
    /\ UNCHANGED <<pr, age, pv, manual, edits, faults>>

Environment ==
    \/ \E r \in Rev : Create(r) \/ SetGates(r) \/ SetLifecycle(r) \/ Delete(r)
    \/ SetPackageVariant \/ Tick \/ Crash

-----------------------------------------------------------------------------
LifecycleIsPublished(life) == life \in {"Published", "DeletionProposed"}

(* An absent revision stands for the NotFound of the first Get.             *)
shouldProcess(p) == p.life # "absent" /\ ~LifecycleIsPublished(p.life) /\ p.policy # ""

(* How long to wait; a whole delay again when it is not over.               *)
manageDelay(v) == IF v.copy.delay = NoDelay \/ v.age > v.copy.delay THEN 0 ELSE v.copy.delay

(* The ways on from a step of Reconcile that has v.                         *)
Done == w' = Idle /\ UNCHANGED timer

RequeueAfter(r, d) ==
    /\ w' = Idle
    /\ timer' = [timer EXCEPT ![r] = IF @ = Never \/ d < @ THEN d ELSE @]

Goto(step, v) == w' = [v EXCEPT !.pc = step] /\ UNCHANGED timer

Delayed(v) ==
    \/ v.copy.delay = BadDelay /\ Done
    \/ /\ v.copy.delay # BadDelay
       /\ IF manageDelay(v) > 0 THEN RequeueAfter(v.rev, manageDelay(v)) ELSE Goto("write", v)

(* The readiness gates and the switch on the policy.                        *)
PackageRevisionIsReady(v) ==
    \/ ~v.copy.gates /\ RequeueAfter(v.rev, RequeueDuration)
    \/ v.copy.gates /\ v.copy.policy = "initial" /\ Goto("list", v)
    \/ v.copy.gates /\ v.copy.policy = "always" /\ Delayed(v)
    \/ v.copy.gates /\ v.copy.policy \notin {"initial", "always"} /\ Done

Get(r) ==
    LET v == [pc |-> "get", rev |-> r, copy |-> pr[r], age |-> age[r]] IN
    /\ w.pc = "idle" /\ r \in queued /\ queued' = queued \ {r}
    /\ \/ ~shouldProcess(pr[r]) /\ Done
       \/ shouldProcess(pr[r]) /\ pr[r].owned /\ Goto("pv", v)
       \/ shouldProcess(pr[r]) /\ ~pr[r].owned /\ PackageRevisionIsReady(v)
    /\ fresh' = (w'.pc # "idle")
    /\ UNCHANGED <<pr, age, pv, manual, edits, faults, crashes>>

PackageVariantReadyOnce ==
    /\ w.pc = "pv"
    /\ \/ pv # "ready" /\ Done
       \/ pv = "ready" /\ PackageRevisionIsReady(w)
    /\ fresh' = (fresh /\ w'.pc # "idle")
    /\ UNCHANGED <<pr, age, pv, queued, manual, edits, faults, crashes>>

(* An error, NotFound included, is dropped: no request is queued.           *)
PackageVariantReady ==
    /\ w.pc = "pv"
    /\ \/ pv = "missing" /\ Done
       \/ pv = "notReady" /\ RequeueAfter(w.rev, RequeueDuration)
       \/ pv = "ready" /\ PackageRevisionIsReady(w)
    /\ fresh' = (fresh /\ w'.pc # "idle")
    /\ UNCHANGED <<pr, age, pv, queued, manual, edits, faults, crashes>>

policyInitialUnchecked ==
    /\ w.pc = "list"
    /\ Delayed(w)
    /\ fresh' = (fresh /\ w'.pc # "idle")
    /\ UNCHANGED <<pr, age, pv, queued, manual, edits, faults, crashes>>

policyInitial ==
    /\ w.pc = "list"
    /\ IF \E r \in Rev : LifecycleIsPublished(pr[r].life)
       THEN RequeueAfter(w.rev, RequeueDuration)
       ELSE Delayed(w)
    /\ fresh' = (fresh /\ w'.pc # "idle")
    /\ UNCHANGED <<pr, age, pv, queued, manual, edits, faults, crashes>>

-----------------------------------------------------------------------------
(* Writes.  The error of a refused one is returned, and requeues.           *)
Write(r, life) ==
    /\ \/ fresh /\ Stored(r, [pr[r] EXCEPT !.life = life])
       \/ ~fresh /\ queued' = queued \cup {r} /\ UNCHANGED pr
    /\ Done /\ fresh' = FALSE
    /\ UNCHANGED <<age, pv, manual, edits, faults, crashes>>

UpdateAnyVersion ==
    /\ w.pc = "write" /\ w.copy.life = "Draft"
    /\ \/ pr[w.rev].life # "absent" /\ Stored(w.rev, [pr[w.rev] EXCEPT !.life = "Proposed"])
       \/ pr[w.rev].life = "absent" /\ queued' = queued \cup {w.rev} /\ UNCHANGED pr
    /\ Done /\ fresh' = FALSE
    /\ UNCHANGED <<age, pv, manual, edits, faults, crashes>>

Update == w.pc = "write" /\ w.copy.life = "Draft" /\ Write(w.rev, "Proposed")

(* UpdatePackageRevisionApproval reads the revision anew, into a copy of    *)
(* its own of which it looks at the lifecycle ...                           *)
GetForApproval ==
    /\ w.pc = "write" /\ w.copy.life = "Proposed"
    /\ LET now == pr[w.rev] IN
          \/ now.life = "Proposed" /\ Goto("put", w) /\ fresh' = TRUE /\ UNCHANGED queued
          \/ now.life = "Published" /\ Done /\ fresh' = FALSE /\ UNCHANGED queued
          \/ /\ now.life \notin {"Proposed", "Published"}
             /\ Done /\ fresh' = FALSE /\ queued' = queued \cup {w.rev}
    /\ UNCHANGED <<pr, age, pv, manual, edits, faults, crashes>>

(* ... and writes that version.                                             *)
PutApproval == w.pc = "put" /\ Write(w.rev, "Published")

(* A call fails.  The error of a write is returned, that of a read of the   *)
(* PackageVariant or of the list is only recorded as an event.              *)
CallFails ==
    /\ w.pc # "idle" /\ faults < MaxFaults /\ faults' = faults + 1
    /\ Done /\ fresh' = FALSE
    /\ queued' = IF w.pc \in {"write", "put"} THEN queued \cup {w.rev} ELSE queued
    /\ UNCHANGED <<pr, age, pv, manual, edits, crashes>>

Step == PackageVariantReady \/ policyInitial \/ Update \/ GetForApproval \/ PutApproval

Next == Environment \/ (\E r \in Rev : Get(r)) \/ Step \/ CallFails

Spec == Init /\ [][Next]_vars

(* A running Reconcile goes on; the workqueue is served in order, so every  *)
(* request is taken in the end; time passes.                                *)
FairSpec ==
    /\ Spec /\ WF_vars(Step) /\ WF_vars(Tick)
    /\ \A r \in Rev : SF_vars(Get(r))

-----------------------------------------------------------------------------
(* Steps of Reconcile that the API server accepts.                          *)
Proposes(r) == Update /\ w.rev = r /\ pr'[r] # pr[r]
Publishes(r) == PutApproval /\ w.rev = r /\ pr'[r] # pr[r]

Proposable(r) ==
    /\ pr[r].life = "Draft" /\ pr[r].gates /\ pr[r].policy \in {"initial", "always"}
    /\ pr[r].delay # BadDelay /\ (pr[r].delay <= 0 \/ age[r] > pr[r].delay)

NonePublished ==
    \A s \in Rev \ manual : ~(pr[s].life \in {"Published", "DeletionProposed"})

(* What Reconcile proposes meets its readiness gates, policy and delay at   *)
(* that moment, although it checked them some calls earlier: a change in    *)
(* between makes the Update fail.                                           *)
ProposedAsChecked == [][\A r \in Rev : Proposes(r) => Proposable(r)]_vars

(* What Reconcile read with policy initial it publishes only when no        *)
(* revision of the package is, except one that a user has just approved: of *)
(* two revisions that the controller approves side by side one stays        *)
(* Proposed.                                                                *)
InitialPublishesFirst ==
    [][\A r \in Rev : Publishes(r) /\ w.copy.policy = "initial" => NonePublished]_vars

(* A revision for which everything holds that the policy asks for.          *)
Approvable(r) ==
    /\ pr[r].life \in {"Draft", "Proposed"} /\ pr[r].gates
    /\ pr[r].delay # BadDelay /\ (pr[r].owned => pv = "ready")
    /\ \/ pr[r].policy = "always"
       \/ /\ pr[r].policy = "initial"
          /\ \A s \in Rev : ~(pr[s].life \in {"Published", "DeletionProposed"})

(* While no call fails and the PackageVariant is found, a revision does not *)
(* stay approvable for ever: it is published, although nothing tells the    *)
(* controller when a PackageVariant becomes ready, when another revision    *)
(* goes away or when a delay is over.                                       *)
ApprovableIsPublished ==
    [](faults = 0 /\ pv # "missing") => \A r \in Rev : Approvable(r) ~> ~Approvable(r)
=============================================================================
