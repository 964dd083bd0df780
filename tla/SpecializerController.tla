------------------------ MODULE SpecializerController ------------------------
(***************************************************************************)
(* The controllers that run claim functions on a package in Porch: the     *)
(* generic specializer, which runs ipam-fn, vlan-fn and configinject-fn,   *)
(* and the specializers for one function each.  A run of a function is     *)
(* not atomic here, as it is in Choreography: a controller reads the       *)
(* PackageRevision, its PackageVariant and its PackageRevisionResources,   *)
(* works on its copy and writes the copy back, while users, Porch and the  *)
(* other controllers go on.                                                *)
(*                                                                         *)
(* PackageRevision and PackageRevisionResources are two views of a package *)
(* in Porch.  Porch refuses to write an old version or a published         *)
(* package; after a write it runs the pipeline of the package, which sets  *)
(* the condition that the readiness gate asks for.  A condition of a kind  *)
(* stands for all the claims of that kind.                                 *)
(***************************************************************************)
EXTENDS Naturals

CONSTANTS
    Kinds,        \* the kinds of claims the functions answer for
    Workers,      \* the controllers that are enabled
    Generic,      \* those that follow the generic specializer
    Serves,       \* the kinds whose function a controller runs
    MaxEdits,     \* bound on what users and the PackageVariant do
    MaxFaults,    \* bound on the calls and the functions that fail
    MaxCrashes    \* bound on the restarts of the manager

ASSUME SpecializerConstants ==
    /\ Generic \subseteq Workers /\ Serves \in [Workers -> SUBSET Kinds]
    /\ MaxEdits \in Nat /\ MaxFaults \in Nat /\ MaxCrashes \in Nat

VARIABLES
    pkg,       \* the package in Porch
    pv,        \* its PackageVariant
    cache,     \* the package in the informer cache
    synced,    \* the cache has the latest version
    queue,     \* the controllers with a request, now or after RequeueAfter
    worker,    \* where each Reconcile is, and what it read
    fresh,     \* the controllers whose copy has the latest version
    edits, faults, fnFaults, crashes

vars == <<pkg, pv, cache, synced, queue, worker, fresh, edits, faults, fnFaults, crashes>>
counters == <<edits, faults, fnFaults, crashes>>

Status == {"none", "False", "True"}

(* gate: "none" without a readiness gate, else the condition it asks for;   *)
(* text: all that no function touches.                                      *)
Package == [here : BOOLEAN, published : BOOLEAN, cond : [Kinds -> Status], gate : Status,
            text : {"old", "new"}]

Absent == [here |-> FALSE, published |-> FALSE, cond |-> [k \in Kinds |-> "none"],
           gate |-> "none", text |-> "old"]

(* What the controllers look at in a PackageRevision.                       *)
Revision(p) == [here |-> p.here, published |-> p.published, gated |-> p.gate # "none",
                conds |-> {k \in Kinds : p.cond[k] # "none"}]

(* The kinds a controller is to handle, from the status of the revision.    *)
HasSpecificTypeConditions(w, pr) == Serves[w] \intersect pr.conds

(* What a controller keeps of the PackageRevision it has read.              *)
Seen(w, pr) == [wanted |-> HasSpecificTypeConditions(w, pr),
                published |-> w \in Generic /\ pr.published,
                gated |-> w \in Generic /\ pr.gated]

Nothing == [wanted |-> {}, published |-> FALSE, gated |-> FALSE]
Idle == [pc |-> "idle", seen |-> Nothing, copy |-> Absent]

TypeOK ==
    /\ pkg \in Package /\ synced \in BOOLEAN
    /\ cache \in [here : BOOLEAN, published : BOOLEAN, gated : BOOLEAN, conds : SUBSET Kinds]
    /\ pv \in {"none", "ready", "notReady", "missing"}
    /\ queue \subseteq Workers /\ fresh \subseteq Workers
    /\ worker \in [Workers -> [pc : {"idle", "variant", "read", "process", "update"},
                               seen : [wanted : SUBSET Kinds, published : BOOLEAN,
                                       gated : BOOLEAN],
                               copy : Package]]
    /\ edits \in 0..MaxEdits /\ faults \in 0..MaxFaults
    /\ fnFaults \in 0..MaxFaults /\ crashes \in 0..MaxCrashes

(* The pipeline of the package: see Choreography for how it comes to this.  *)
Rendered(p) ==
    IF p.gate = "none" THEN p
    ELSE [p EXCEPT !.gate = IF \A k \in Kinds : p.cond[k] # "False" THEN "True" ELSE "False"]

NewPackages ==
    {Rendered(p) : p \in {q \in Package : /\ q.here /\ ~q.published /\ q.text = "old"
                                          /\ \A k \in Kinds : q.cond[k] # "True"}}

Init ==
    /\ pkg \in NewPackages /\ cache = Revision(Absent) /\ synced = FALSE
    /\ pv \in {"none", "notReady"}
    /\ queue = {} /\ fresh = {}
    /\ worker = [w \in Workers |-> Idle]
    /\ edits = 0 /\ faults = 0 /\ fnFaults = 0 /\ crashes = 0

-----------------------------------------------------------------------------
(* Porch, its users and the manager.                                        *)

Edit(new) ==
    /\ edits < MaxEdits /\ edits' = edits + 1
    /\ pkg' = new /\ synced' = FALSE /\ fresh' = {}
    /\ UNCHANGED <<pv, cache, queue, worker, faults, fnFaults, crashes>>

EditText == pkg.here /\ ~pkg.published /\ Edit([pkg EXCEPT !.text = "new"])

(* A claim is asked for, or asked for anew.                                 *)
EditSpec ==
    /\ pkg.here /\ ~pkg.published
    /\ \E k \in Kinds : Edit(Rendered([pkg EXCEPT !.cond[k] = "False"]))

Publish == pkg.here /\ ~pkg.published /\ Edit([pkg EXCEPT !.published = TRUE])

Delete == pkg.here /\ Edit(Absent)

Create == ~pkg.here /\ \E p \in NewPackages : Edit(p)

(* No event tells the controllers.                                          *)
SetPackageVariant ==
    /\ edits < MaxEdits /\ edits' = edits + 1
    /\ pv # "none" /\ pv' \in {"ready", "notReady", "missing"} \ {pv}
    /\ UNCHANGED <<pkg, cache, synced, queue, worker, fresh, faults, fnFaults, crashes>>

CacheSync ==
    /\ ~synced /\ cache' = Revision(pkg) /\ synced' = TRUE /\ queue' = Workers
    /\ UNCHANGED <<pkg, pv, worker, fresh, counters>>

Crash ==
    /\ crashes < MaxCrashes /\ crashes' = crashes + 1
    /\ worker' = [w \in Workers |-> Idle] /\ fresh' = {}
    /\ cache' = Revision(pkg) /\ synced' = TRUE /\ queue' = IF pkg.here THEN Workers ELSE {}
    /\ UNCHANGED <<pkg, pv, edits, faults, fnFaults>>

-----------------------------------------------------------------------------
(* The ways on from a step of Reconcile.                                    *)

Porch == UNCHANGED <<pkg, pv, cache, synced>>

Goto(w, step, seen, copy) ==
    worker' = [worker EXCEPT ![w] = [pc |-> step, seen |-> seen, copy |-> copy]]

Leave(w) == worker' = [worker EXCEPT ![w] = Idle] /\ fresh' = fresh \ {w}

Return(w) == Leave(w) /\ UNCHANGED queue

Requeue(w) == Leave(w) /\ queue' = queue \union {w}

(* The generic specializer reads from the API server, the others from the   *)
(* cache.                                                                   *)
Get(w) ==
    LET pr == IF w \in Generic THEN Revision(pkg) ELSE cache
        step == IF w \in Generic THEN "variant"
                ELSE IF HasSpecificTypeConditions(w, pr) # {} THEN "read" ELSE "idle" IN
    /\ worker[w].pc = "idle" /\ w \in queue /\ queue' = queue \ {w}
    /\ IF pr.here /\ step # "idle" THEN Goto(w, step, Seen(w, pr), Absent) ELSE UNCHANGED worker
    /\ UNCHANGED <<fresh, counters>> /\ Porch

PackageVariantReadyOnce(w) ==
    LET seen == worker[w].seen IN
    /\ worker[w].pc = "variant"
    /\ \/ /\ pv \in {"none", "ready"} /\ seen.wanted # {}
          /\ Goto(w, "read", seen, Absent) /\ UNCHANGED <<queue, fresh>>
       \/ pv # "missing" /\ (seen.wanted = {} \/ pv = "notReady") /\ Return(w)
       \/ pv = "missing" /\ Requeue(w)
    /\ UNCHANGED counters /\ Porch

PackageVariantReady(w) ==
    LET seen == worker[w].seen IN
    /\ worker[w].pc = "variant"
    /\ \/ /\ pv \in {"none", "ready"} /\ seen.wanted # {}
          /\ Goto(w, "read", seen, Absent) /\ UNCHANGED <<queue, fresh>>
       \/ pv \in {"none", "ready"} /\ seen.wanted = {} /\ Return(w)
       \/ pv \in {"notReady", "missing"} /\ Requeue(w)
    /\ UNCHANGED counters /\ Porch

(* The PackageRevisionResources, possibly of a later version than the       *)
(* PackageRevision.                                                         *)
GetResources(w) ==
    /\ worker[w].pc = "read"
    /\ \/ ~pkg.here /\ Requeue(w)
       \/ /\ pkg.here /\ Goto(w, "process", worker[w].seen, pkg)
          /\ fresh' = fresh \union {w} /\ UNCHANGED queue
    /\ UNCHANGED counters /\ Porch

(* The functions for the kinds ks; the backends of the kinds down fail.     *)
Processed(p, ks, down) ==
    [p EXCEPT !.cond = [k \in Kinds |-> IF k \notin ks \/ p.cond[k] = "none" THEN p.cond[k]
                                        ELSE IF k \in down THEN "False" ELSE "True"]]

PackageRevisionIsReadyByClaims(seen, p) == \A k \in Kinds : p.cond[k] # "False"

(* The gates of the PackageRevision, the conditions of the new Kptfile.     *)
PackageRevisionIsReady(seen, p) == ~seen.gated \/ p.gate = "True"

(* The generic specializer goes no further when the package is published    *)
(* or meets its gates.                                                      *)
Persist(w, p) ==
    IF w \in Generic /\ (worker[w].seen.published \/ PackageRevisionIsReady(worker[w].seen, p))
    THEN Return(w)
    ELSE Goto(w, "update", worker[w].seen, p) /\ UNCHANGED <<queue, fresh>>

Process(w) ==
    LET ks == worker[w].seen.wanted IN
    /\ worker[w].pc = "process"
    /\ \E down \in SUBSET ks :
         /\ down # {} => faults + fnFaults < MaxFaults
         /\ fnFaults' = IF down = {} THEN fnFaults ELSE fnFaults + 1
         /\ Persist(w, Processed(worker[w].copy, ks, down))
    /\ UNCHANGED <<edits, faults, crashes>> /\ Porch

(* A function returns an error.  The generic specializer drops it, and the  *)
(* results of the others with it; the others go on with what there is.      *)
ProcessFails(w) ==
    /\ worker[w].pc = "process" /\ faults + fnFaults < MaxFaults /\ fnFaults' = fnFaults + 1
    /\ IF w \in Generic THEN Return(w) ELSE Persist(w, worker[w].copy)
    /\ UNCHANGED <<edits, faults, crashes>> /\ Porch

UpdateAnyVersion(w) ==
    /\ worker[w].pc = "update"
    /\ pkg' = Rendered(worker[w].copy) /\ synced' = FALSE
    /\ worker' = [worker EXCEPT ![w] = Idle] /\ fresh' = {} /\ UNCHANGED queue
    /\ UNCHANGED <<pv, cache, counters>>

(* A write that changes nothing may or may not make a new version.          *)
Update(w) ==
    /\ worker[w].pc = "update"
    /\ \/ /\ w \in fresh /\ ~pkg.published
          /\ pkg' = Rendered(worker[w].copy)
          /\ \/ synced' = FALSE /\ fresh' = {}
             \/ pkg' = pkg /\ synced' = synced /\ fresh' = fresh \ {w}
          /\ worker' = [worker EXCEPT ![w] = Idle] /\ UNCHANGED queue
       \/ (w \notin fresh \/ pkg.published) /\ Requeue(w) /\ UNCHANGED <<pkg, synced>>
    /\ UNCHANGED <<pv, cache, counters>>

(* A read or the write fails; every such error is returned.                 *)
CallFails(w) ==
    /\ worker[w].pc \in {"variant", "read", "update"}
    /\ faults + fnFaults < MaxFaults /\ faults' = faults + 1 /\ Requeue(w)
    /\ UNCHANGED <<edits, fnFaults, crashes>> /\ Porch

Reconcile(w) ==
    Get(w) \/ PackageVariantReady(w) \/ GetResources(w) \/ Process(w) \/ Update(w)

Environment ==
    \/ EditText \/ EditSpec \/ Publish \/ Delete \/ Create \/ SetPackageVariant
    \/ CacheSync \/ Crash

Next ==
    \/ Environment
    \/ \E w \in Workers : Reconcile(w) \/ ProcessFails(w) \/ CallFails(w)

Spec == Init /\ [][Next]_vars

(* Events arrive, and a queued request is worked on.                        *)
FairSpec ==
    /\ Spec /\ WF_vars(CacheSync)
    /\ \A w \in Workers : WF_vars(Reconcile(w))

-----------------------------------------------------------------------------

Writes(w) == worker[w].pc = "update" /\ worker'[w].pc = "idle" /\ pkg' # pkg /\ pkg'.here

WritesOwnOnly(w) ==
    Writes(w) => /\ pkg.here /\ pkg'.text = pkg.text /\ pkg'.published = pkg.published
                 /\ \A k \in Kinds \ Serves[w] : pkg'.cond[k] = pkg.cond[k]

(* The Update writes back the whole package as it was read before the       *)
(* functions ran; still no edit by a user and no result of another          *)
(* specializer is lost: only the conditions of the writer's own kinds       *)
(* change, and the gate.                                                    *)
EditsKept == [][\A w \in Workers : WritesOwnOnly(w)]_vars

WritesUnready(w) == Writes(w) => pkg.gate # "True"

(* The generic specializer runs its functions again on a package that meets *)
(* its gate, to refresh the claims; it never writes such a package, so a    *)
(* refresh that fails does not take back what an approval relies on.        *)
ReadyIsKept == [][\A w \in Generic : WritesUnready(w)]_vars

(* An Update that Porch accepts and that changes nothing.                   *)
Rewrites(w) == w \in fresh /\ ~pkg.published /\ Update(w) /\ pkg' = pkg

(* As long as no function fails, every claim of a package with a gate is    *)
(* answered in the end, whatever calls fail, whoever writes in between and  *)
(* however long the PackageVariant takes, unless it stays not ready.  The   *)
(* specializers for one function write after every event: if each such      *)
(* write made a version, and so an event, they could keep the others out    *)
(* with conflicts for ever, which the second premise leaves out.            *)
EventuallyAnswered ==
    /\ [](fnFaults = 0)
    /\ <>[][\A w \in Workers : ~Rewrites(w)]_vars
    => <>[](pkg.here /\ ~pkg.published /\ pkg.gate # "none" /\ pv \in {"none", "ready"} =>
              \A w \in Workers : \A k \in Serves[w] : pkg.cond[k] # "False")
==============================================================================
