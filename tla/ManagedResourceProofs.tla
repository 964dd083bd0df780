----------------------- MODULE ManagedResourceProofs -----------------------
(***************************************************************************)
(* The inductive invariant that the token and the repository controller    *)
(* have in common: what a cache that lags behind, and a copy taken from    *)
(* it, still say about the finalizer of the resource.                      *)
(***************************************************************************)
EXTENDS ManagedResource, TLAPS

Kept == cr.here /\ cr.fin

(* S: the steps of Reconcile after AddFinalizer; the deletion steps are     *)
(* "delete" and "unfinalize".                                               *)
MInv(S) ==
    /\ cache.fin /\ ~cache.deleting => Kept
    /\ cache.deleting => (cr.fin => cr.deleting)
    /\ worker.pc = "finalize" =>
          /\ ~worker.copy.deleting
          /\ worker.copy.fin => Kept
          /\ fresh => cache = cr
    /\ worker.pc \in S => Kept
    /\ worker.pc \in {"delete", "unfinalize"} =>
          (cache.fin => cache.deleting) /\ (cr.fin => cr.deleting)
    /\ worker.pc # "idle" => worker.copy.here /\ worker.copy.spec \in Desired
    /\ cr.here => cr.spec \in Desired
    /\ cache.here => cache.spec \in Desired
    /\ worker.pc # "idle" /\ fresh => cr.here /\ cr.spec = worker.copy.spec
    /\ cr.fin => cr.here
    /\ synced => cache = cr

(* Steps that may be used as the steps of a controller: S after the         *)
(* finalizer is there, T all of them.                                       *)
Steps(S, T) ==
    /\ S \subseteq T
    /\ S \cap {"idle", "finalize", "delete", "unfinalize", "status"} = {}
    /\ "delete" \in T

(* A controller starts in a state of the invariant.                         *)
LEMMA ManagedInitial ==
    ASSUME NEW S, NEW T, Steps(S, T), ManagedInit
    PROVE  ManagedTypeOK(T) /\ MInv(S)
<1>1. ManagedTypeOK(T)
  <2>1. Absent \in Resource
    BY ManagedBounds DEF Resource, Absent
  <2>2. worker \in [pc : {"idle", "finalize", "unfinalize", "status"} \cup T,
                    copy : Resource, report : {"none", "Failed", "Ready"}]
    BY <2>1 DEF ManagedInit, Idle, At
  <2>3. /\ creates \in 0..MaxCreates /\ edits \in 0..MaxEdits
        /\ faults \in 0..MaxFaults /\ crashes \in 0..MaxCrashes
    BY ManagedBounds DEF ManagedInit
  <2>4. cr = Absent /\ cache = Absent
    BY DEF ManagedInit
  <2>5. synced \in BOOLEAN /\ queued \in BOOLEAN /\ fresh \in BOOLEAN /\ gitea \in BOOLEAN
    BY DEF ManagedInit
  <2> QED BY <2>1, <2>2, <2>3, <2>4, <2>5 DEF ManagedTypeOK
<1>2. MInv(S)
  BY DEF Steps, ManagedInit, MInv, Kept, Absent, Idle, At
<1> QED BY <1>1, <1>2

(* A record of the resource with some fields replaced.                      *)
LEMMA ResourceFields ==
    ASSUME NEW r \in Resource
    PROVE  /\ [r EXCEPT !.fin = TRUE] \in Resource
           /\ [r EXCEPT !.deleting = TRUE] \in Resource
           /\ [r EXCEPT !.url = TRUE] \in Resource
           /\ \A s \in Desired : [r EXCEPT !.spec = s] \in Resource
           /\ Absent \in Resource /\ Idle.pc = "idle" /\ Idle.copy = Absent /\ Idle.report = "none"
<1>1. [r EXCEPT !.fin = TRUE] \in Resource /\ [r EXCEPT !.deleting = TRUE] \in Resource
  BY DEF Resource
<1>2. [r EXCEPT !.url = TRUE] \in Resource /\ \A s \in Desired : [r EXCEPT !.spec = s] \in Resource
  BY DEF Resource
<1>3. Absent \in Resource
  BY ManagedBounds DEF Resource, Absent
<1>4. Idle.pc = "idle" /\ Idle.copy = Absent /\ Idle.report = "none"
  BY DEF Idle, At
<1> QED BY <1>1, <1>2, <1>3, <1>4

(* The state of the worker in a type-correct state.                         *)
LEMMA WorkerType ==
    ASSUME NEW T, ManagedTypeOK(T), NEW p, NEW c, NEW o,
           p \in {"idle", "finalize", "unfinalize", "status"} \cup T,
           c \in Resource, o \in {"none", "Failed", "Ready"}
    PROVE  /\ At(p, c, o) \in [pc : {"idle", "finalize", "unfinalize", "status"} \cup T,
                               copy : Resource, report : {"none", "Failed", "Ready"}]
           /\ At(p, c, o).pc = p /\ At(p, c, o).copy = c /\ At(p, c, o).report = o
BY DEF At

(* What users do to the resource keeps the invariant: the copy of the       *)
(* worker is not fresh afterwards, and a finalizer keeps the resource.      *)
LEMMA UserStep ==
    ASSUME NEW S, NEW T, Steps(S, T), ManagedTypeOK(T), MInv(S),
           NEW new \in Resource, StoredByUser(new),
           creates' \in 0..MaxCreates, edits' \in 0..MaxEdits,
           new.fin = cr.fin, cr.fin => new.here, cr.deleting /\ cr.fin => new.deleting,
           new.fin => new.here, new.here => new.spec \in Desired
    PROVE  ManagedTypeOK(T)' /\ MInv(S)' /\ worker' = worker /\ (Kept => Kept')
<1>1. /\ cr' = new /\ synced' = FALSE /\ fresh' = FALSE
      /\ UNCHANGED <<cache, queued, worker, gitea, faults, crashes>>
  BY DEF StoredByUser, Store
<1>2. ManagedTypeOK(T)'
  BY <1>1 DEF ManagedTypeOK
<1>3. MInv(S)'
  BY <1>1 DEF MInv, Kept
<1> QED BY <1>1, <1>2, <1>3 DEF Kept

(* What users do to the resource, the informer, Start and a restart.        *)
LEMMA EnvironmentStep ==
    ASSUME NEW S, NEW T, Steps(S, T), ManagedTypeOK(T), MInv(S), Environment
    PROVE  /\ ManagedTypeOK(T)' /\ MInv(S)'
           /\ worker' = worker \/ worker' = Idle
           /\ Kept => Kept'
<1>0. cr \in Resource /\ Absent \in Resource /\ (cr.fin => cr.here)
  BY ResourceFields DEF ManagedTypeOK, MInv
<1>1. ASSUME NEW s \in Desired, Create(s)
      PROVE  ManagedTypeOK(T)' /\ MInv(S)' /\ worker' = worker /\ (Kept => Kept')
  <2>1. New(creates + 1, s) \in Resource /\ creates' \in 0..MaxCreates /\ edits' \in 0..MaxEdits
    BY <1>1, ManagedBounds DEF Create, ManagedTypeOK, New, Resource
  <2>2. ~cr.here /\ ~New(creates + 1, s).fin
    BY <1>1 DEF Create, New
  <2>3. StoredByUser(New(creates + 1, s))
    BY <1>1 DEF Create
  <2>4. New(creates + 1, s).fin = cr.fin
    BY <1>0, <2>1, <2>2 DEF Resource
  <2>5. New(creates + 1, s).spec \in Desired
    BY <1>1 DEF New
  <2> QED BY <1>0, <2>1, <2>2, <2>3, <2>4, <2>5, UserStep
<1>2. ASSUME NEW s \in Desired, EditSpec(s)
      PROVE  ManagedTypeOK(T)' /\ MInv(S)' /\ worker' = worker /\ (Kept => Kept')
  <2> DEFINE new == [cr EXCEPT !.spec = s]
  <2>1. /\ new \in Resource /\ new.fin = cr.fin /\ new.here = cr.here /\ new.deleting = cr.deleting
        /\ new.spec \in Desired
    BY <1>0, <1>2 DEF Resource
  <2>2. creates' \in 0..MaxCreates /\ edits' \in 0..MaxEdits /\ StoredByUser(new)
    BY <1>2, ManagedBounds DEF EditSpec, ManagedTypeOK
  <2> HIDE DEF new
  <2> QED BY <1>0, <2>1, <2>2, UserStep
<1>3. ASSUME Delete
      PROVE  ManagedTypeOK(T)' /\ MInv(S)' /\ worker' = worker /\ (Kept => Kept')
  <2> DEFINE new == IF cr.fin THEN [cr EXCEPT !.deleting = TRUE] ELSE Absent
  <2>1. /\ new \in Resource /\ (cr.fin => new.fin /\ new.here /\ new.deleting)
        /\ (~cr.fin => ~new.fin)
    BY <1>0 DEF Resource, Absent
  <2>4. new.here => new.spec \in Desired
    BY <1>0 DEF Resource, Absent, MInv
  <2>2. creates' \in 0..MaxCreates /\ edits' \in 0..MaxEdits /\ StoredByUser(new)
    BY <1>3 DEF Delete, ManagedTypeOK
  <2> HIDE DEF new
  <2>3. new.fin = cr.fin
    BY <1>0, <2>1 DEF Resource
  <2> QED BY <1>0, <2>1, <2>2, <2>3, <2>4, UserStep
<1>4. ASSUME CacheSync PROVE ManagedTypeOK(T)' /\ MInv(S)' /\ worker' = worker /\ (Kept => Kept')
  <2>1. /\ cache' = cr /\ synced' /\ queued' = TRUE /\ synced' = TRUE
        /\ UNCHANGED <<cr, worker, fresh, gitea, creates, edits, faults, crashes>>
    BY <1>4 DEF CacheSync, counters
  <2>2. ManagedTypeOK(T)'
    BY <2>1 DEF ManagedTypeOK
  <2>3. MInv(S)'
    BY <2>1 DEF MInv, Kept
  <2> QED BY <2>1, <2>2, <2>3 DEF Kept
<1>5. ASSUME Start PROVE ManagedTypeOK(T)' /\ MInv(S)' /\ worker' = worker /\ (Kept => Kept')
  <2>1. /\ gitea' = TRUE
        /\ UNCHANGED <<cr, cache, synced, queued, worker, fresh, creates, edits, faults, crashes>>
    BY <1>5 DEF Start, counters
  <2>2. ManagedTypeOK(T)'
    BY <2>1 DEF ManagedTypeOK
  <2>3. MInv(S)'
    BY <2>1 DEF MInv, Kept
  <2> QED BY <2>1, <2>2, <2>3 DEF Kept
<1>6. ASSUME Crash PROVE ManagedTypeOK(T)' /\ MInv(S)' /\ worker' = Idle /\ (Kept => Kept')
  <2>1. /\ worker' = Idle /\ fresh' = FALSE /\ gitea' = FALSE /\ cache' = cr /\ synced' = TRUE
        /\ queued' = cr.here /\ crashes' \in 0..MaxCrashes
        /\ UNCHANGED <<cr, creates, edits, faults>>
    BY <1>6, ManagedBounds DEF Crash, ManagedTypeOK
  <2>2. ManagedTypeOK(T)'
    <3>1. queued' \in BOOLEAN
      BY <1>0, <2>1 DEF Resource
    <3>2. worker' \in [pc : {"idle", "finalize", "unfinalize", "status"} \cup T,
                       copy : Resource, report : {"none", "Failed", "Ready"}]
      BY <1>0, <2>1, WorkerType DEF Idle
    <3> QED BY <2>1, <3>1, <3>2 DEF ManagedTypeOK
  <2>3. worker'.pc = "idle"
    BY <2>1 DEF Idle, At
  <2>4. MInv(S)'
    BY <2>1, <2>3 DEF MInv, Kept, Steps
  <2> QED BY <2>1, <2>2, <2>4 DEF Kept
<1> QED BY <1>1, <1>2, <1>3, <1>4, <1>5, <1>6 DEF Environment

-----------------------------------------------------------------------------
(* Reconcile begins: what it reads from the cache is what the cache says.   *)
LEMMA GetStep ==
    ASSUME NEW S, NEW T, Steps(S, T), ManagedTypeOK(T), MInv(S), Get
    PROVE  /\ ManagedTypeOK(T)' /\ MInv(S)' /\ (Kept => Kept')
           /\ worker'.pc \notin S
           /\ worker'.pc = "unfinalize" => Policy # "delete"
           /\ worker'.pc = "status" => worker'.report = "Failed"
<1> DEFINE W == [pc : {"idle", "finalize", "unfinalize", "status"} \cup T,
                 copy : Resource, report : {"none", "Failed", "Ready"}]
<1>0. /\ queued' = FALSE /\ fresh' = (synced /\ cache.here)
      /\ UNCHANGED <<cr, cache, synced, gitea, creates, edits, faults, crashes>>
      /\ cache \in Resource /\ Absent \in Resource /\ "delete" \in T
      /\ synced \in BOOLEAN /\ gitea \in BOOLEAN
  BY ResourceFields DEF Get, counters, ManagedTypeOK, Steps
<1>1. fresh' \in BOOLEAN
  BY <1>0 DEF Resource
<1>2. CASE ~cache.here
  <2>1. worker' = Idle
    BY <1>2 DEF Get
  <2>2. worker' \in W /\ worker'.pc = "idle"
    BY <1>0, <2>1 DEF Idle, At
  <2>3. ManagedTypeOK(T)'
    BY <1>0, <1>1, <2>2 DEF ManagedTypeOK
  <2>4. MInv(S)'
    BY <1>0, <2>2 DEF MInv, Kept, Steps
  <2> QED BY <1>0, <2>2, <2>3, <2>4 DEF Kept, Steps
<1>3. ASSUME cache.here, NEW p \in {"status", "finalize", "delete", "unfinalize"},
             NEW o \in {"none", "Failed"}, worker' = At(p, cache, o),
             p = "finalize" => ~cache.deleting,
             p \in {"delete", "unfinalize"} => cache.deleting
      PROVE  ManagedTypeOK(T)' /\ MInv(S)' /\ worker'.pc = p /\ worker'.report = o
  <2>1. worker' \in W /\ worker'.pc = p /\ worker'.copy = cache /\ worker'.report = o
    BY <1>0, <1>3 DEF At
  <2>2. ManagedTypeOK(T)'
    BY <1>0, <1>1, <2>1 DEF ManagedTypeOK
  <2>3. MInv(S)'
    BY <1>0, <1>3, <2>1 DEF MInv, Kept, Steps
  <2> QED BY <2>1, <2>2, <2>3
<1>4. CASE cache.here /\ ~gitea
  <2>1. worker' = At("status", cache, "Failed")
    BY <1>4 DEF Get
  <2> QED BY <1>0, <1>3, <1>4, <2>1 DEF Kept, Steps
<1>5. CASE cache.here /\ gitea /\ ~cache.deleting
  <2>1. worker' = At("finalize", cache, "none")
    BY <1>5 DEF Get
  <2> QED BY <1>0, <1>3, <1>5, <2>1 DEF Kept, Steps
<1>6. CASE cache.here /\ gitea /\ cache.deleting
  <2>1. worker' = At(IF Policy = "delete" THEN "delete" ELSE "unfinalize", cache, "none")
    BY <1>6 DEF Get
  <2>2. CASE Policy = "delete"
    BY <1>0, <1>3, <1>6, <2>1, <2>2 DEF Kept, Steps
  <2>3. CASE Policy # "delete"
    BY <1>0, <1>3, <1>6, <2>1, <2>3 DEF Kept, Steps
  <2> QED BY <2>2, <2>3
<1> QED BY <1>2, <1>4, <1>5, <1>6

(* A step of Reconcile that leaves the API server alone and stays on the    *)
(* path it is on, or goes to the status update.                             *)
LEMMA CallStep ==
    ASSUME NEW S, NEW T, Steps(S, T), ManagedTypeOK(T), MInv(S), worker.pc # "idle",
           UNCHANGED <<cr, cache, synced, gitea, creates, edits, crashes, fresh, queued>>,
           faults' \in 0..MaxFaults,
           NEW p, NEW c \in Resource, NEW o \in {"none", "Failed", "Ready"},
           worker' = At(p, c, o), c.here = worker.copy.here, c.spec = worker.copy.spec,
           \/ p = "status"
           \/ p \in S /\ (worker.pc \in S \/ (worker.pc = "finalize" /\ worker.copy.fin))
           \/ p = "unfinalize" /\ worker.pc = "delete"
    PROVE  ManagedTypeOK(T)' /\ MInv(S)' /\ (Kept => Kept')
<1>1. p \in {"idle", "finalize", "unfinalize", "status"} \cup T
  BY DEF Steps
<1>2. /\ worker' \in [pc : {"idle", "finalize", "unfinalize", "status"} \cup T,
                      copy : Resource, report : {"none", "Failed", "Ready"}]
      /\ worker'.pc = p /\ worker'.copy = c
  BY <1>1 DEF At
<1>3. ManagedTypeOK(T)'
  BY <1>2 DEF ManagedTypeOK
<1>4. MInv(S)'
  BY <1>2 DEF MInv, Kept, Steps
<1> QED BY <1>3, <1>4 DEF Kept

(* Reconcile goes on to another step that needs the finalizer.              *)
LEMMA GotoStep ==
    ASSUME NEW S, NEW T, Steps(S, T), ManagedTypeOK(T), MInv(S), worker.pc \in S,
           NEW next \in S, Goto(next), faults' \in 0..MaxFaults,
           UNCHANGED <<cr, cache, synced, gitea, creates, edits, crashes>>
    PROVE  ManagedTypeOK(T)' /\ MInv(S)' /\ (Kept => Kept') /\ worker'.pc = next
<1>1. /\ worker' = At(next, worker.copy, worker.report) /\ worker'.pc = next
      /\ UNCHANGED <<fresh, queued>>
  BY DEF Goto, At
<1>2. worker.pc # "idle" /\ worker.copy \in Resource /\ worker.report \in {"none", "Failed", "Ready"}
  BY DEF Steps, ManagedTypeOK
<1> QED BY <1>1, <1>2, CallStep

(* Reconcile returns.                                                       *)
LEMMA ReturnStep ==
    ASSUME NEW S, NEW T, Steps(S, T), ManagedTypeOK(T), MInv(S), NEW q \in BOOLEAN, Return(q),
           cr' \in Resource, synced' \in BOOLEAN, synced' => cache = cr',
           UNCHANGED <<cache, gitea, creates, edits, crashes>>, faults' \in 0..MaxFaults,
           cr'.fin => cr'.here, cr'.here => cr'.spec \in Desired, cache.fin /\ ~cache.deleting => Kept',
           cache.deleting => (cr'.fin => cr'.deleting)
    PROVE  ManagedTypeOK(T)' /\ MInv(S)' /\ worker'.pc = "idle"
<1>1. /\ worker' = Idle /\ fresh' = FALSE /\ queued' = (queued \/ q)
  BY DEF Return
<1>2. /\ worker' \in [pc : {"idle", "finalize", "unfinalize", "status"} \cup T,
                      copy : Resource, report : {"none", "Failed", "Ready"}]
      /\ worker'.pc = "idle"
  <2>1. Absent \in Resource
    BY ResourceFields DEF ManagedTypeOK
  <2> QED BY <1>1, <2>1 DEF Idle, At
<1>3. queued' \in BOOLEAN
  BY <1>1 DEF ManagedTypeOK
<1>4. ManagedTypeOK(T)'
  BY <1>1, <1>2, <1>3 DEF ManagedTypeOK
<1>5. MInv(S)'
  BY <1>1, <1>2 DEF MInv, Kept, Steps
<1> QED BY <1>2, <1>4, <1>5

(* Reconcile returns without a write.                                       *)
LEMMA ReturnOnlyStep ==
    ASSUME NEW S, NEW T, Steps(S, T), ManagedTypeOK(T), MInv(S), NEW q \in BOOLEAN, Return(q),
           UNCHANGED <<cr, cache, synced, gitea, creates, edits, crashes>>,
           faults' \in 0..MaxFaults
    PROVE  ManagedTypeOK(T)' /\ MInv(S)' /\ (Kept => Kept') /\ worker'.pc = "idle"
<1>1. cr' \in Resource /\ synced' \in BOOLEAN
  BY DEF ManagedTypeOK
<1>2. /\ synced => cache = cr
      /\ cr.fin => cr.here
      /\ cr.here => cr.spec \in Desired
      /\ cache.fin /\ ~cache.deleting => Kept
      /\ cache.deleting => (cr.fin => cr.deleting)
  BY DEF MInv
<1>3. Kept' = Kept
  BY DEF Kept
<1>4. /\ synced' => cache = cr'
      /\ cr'.fin => cr'.here
      /\ cr'.here => cr'.spec \in Desired
      /\ cache.fin /\ ~cache.deleting => Kept'
      /\ cache.deleting => (cr'.fin => cr'.deleting)
  BY <1>2, <1>3
<1> QED BY <1>1, <1>3, <1>4, ReturnStep

(* AddFinalizer: after it the resource has the finalizer, or the status is  *)
(* updated.  The copy it was given may be old, its finalizer is not.        *)
LEMMA AddFinalizerStep ==
    ASSUME NEW S, NEW T, Steps(S, T), ManagedTypeOK(T), MInv(S), NEW next \in S,
           AddFinalizer(next)
    PROVE  /\ ManagedTypeOK(T)' /\ MInv(S)' /\ (Kept => Kept')
           /\ worker'.pc \in {next, "status"}
           /\ worker'.pc = "status" => worker'.report = "Failed"
<1>0. /\ worker.pc = "finalize" /\ worker.copy \in Resource /\ cr \in Resource
      /\ worker.report \in {"none", "Failed", "Ready"}
      /\ UNCHANGED <<cache, gitea, creates, edits, crashes, faults, fresh, queued>>
      /\ faults \in 0..MaxFaults /\ synced \in BOOLEAN
  BY DEF AddFinalizer, Goto, Report, counters, ManagedTypeOK
<1>1. CASE worker.copy.fin /\ Goto(next) /\ UNCHANGED <<cr, synced>>
  <2>1. worker' = At(next, worker.copy, worker.report) /\ worker'.pc = next
    BY <1>1 DEF Goto, At
  <2>2. next # "status"
    BY DEF Steps
  <2> QED BY <1>0, <1>1, <2>1, <2>2, CallStep
<1>2. CASE Report("Failed") /\ UNCHANGED <<cr, synced>>
  <2>1. worker' = At("status", worker.copy, "Failed") /\ worker'.pc = "status" /\ worker'.report = "Failed"
    BY <1>2 DEF Report, At
  <2> QED BY <1>0, <1>2, <2>1, CallStep
<1>3. CASE /\ ~worker.copy.fin /\ fresh
           /\ Store([cr EXCEPT !.fin = TRUE])
           /\ worker' = At(next, [worker.copy EXCEPT !.fin = TRUE], worker.report)
  <2> DEFINE new == [cr EXCEPT !.fin = TRUE]
             c == [worker.copy EXCEPT !.fin = TRUE]
  <2>1. /\ new \in Resource /\ new.fin /\ new.here = cr.here /\ new.spec = cr.spec
        /\ new.deleting = cr.deleting
        /\ c \in Resource /\ c.here = worker.copy.here /\ c.spec = worker.copy.spec
    BY <1>0 DEF Resource
  <2>2. cr' = new /\ synced' = (synced /\ new = cr) /\ worker' = At(next, c, worker.report)
    BY <1>3 DEF Store
  <2>3. cache = cr /\ cr.here /\ cr.spec = worker.copy.spec /\ worker.copy.here
    BY <1>0, <1>3 DEF MInv
  <2> HIDE DEF new, c
  <2>4. next \in T /\ next \notin {"idle", "finalize", "delete", "unfinalize", "status"}
    BY DEF Steps
  <2>5. /\ worker' \in [pc : {"idle", "finalize", "unfinalize", "status"} \cup T,
                        copy : Resource, report : {"none", "Failed", "Ready"}]
        /\ worker'.pc = next /\ worker'.copy = c
    BY <1>0, <2>1, <2>2, <2>4 DEF At
  <2>6. synced' \in BOOLEAN /\ (synced' => cache' = cr')
    BY <1>0, <2>2, <2>3
  <2>7. ManagedTypeOK(T)'
    BY <1>0, <2>1, <2>2, <2>5, <2>6 DEF ManagedTypeOK
  <2>8. Kept'
    BY <2>1, <2>2, <2>3 DEF Kept
  <2>9. MInv(S)'
    <3>1. cache'.deleting => (cr'.fin => cr'.deleting)
      BY <1>0, <2>1, <2>2, <2>3
    <3> QED BY <1>0, <2>1, <2>2, <2>3, <2>4, <2>5, <2>6, <2>8, <3>1 DEF MInv, Kept
  <2> QED BY <2>4, <2>5, <2>7, <2>8, <2>9
<1> QED BY <1>1, <1>2, <1>3 DEF AddFinalizer

(* RemoveFinalizer runs on a copy that is being deleted: no cache that is   *)
(* still to be read has the finalizer on a resource that is not.            *)
LEMMA RemoveFinalizerStep ==
    ASSUME NEW S, NEW T, Steps(S, T), ManagedTypeOK(T), MInv(S), RemoveFinalizer
    PROVE  /\ ManagedTypeOK(T)' /\ MInv(S)'
           /\ worker'.pc \in {"idle", "status"}
           /\ worker'.pc = "status" => worker'.report = "Failed"
<1>0. /\ worker.pc = "unfinalize" /\ worker.copy \in Resource /\ cr \in Resource
      /\ UNCHANGED <<cache, gitea, creates, edits, crashes, faults>>
      /\ faults \in 0..MaxFaults /\ synced \in BOOLEAN /\ Absent \in Resource
  BY ResourceFields DEF RemoveFinalizer, counters, ManagedTypeOK
<1>1. CASE Return(FALSE) /\ UNCHANGED <<cr, synced>>
  BY <1>0, <1>1, ReturnOnlyStep
<1>2. CASE Return(FALSE) /\ Store(Absent)
  <2>0. synced => cache = cr
    BY DEF MInv
  <2>1. /\ cr' = Absent /\ synced' \in BOOLEAN /\ (synced' => cache = cr')
    BY <1>0, <1>2, <2>0 DEF Store
  <2>2. ~Absent.fin /\ ~Absent.here
    BY DEF Absent
  <2>3. cache.fin => cache.deleting
    BY <1>0 DEF MInv
  <2> QED BY <1>0, <1>2, <2>1, <2>2, <2>3, ReturnStep
<1>3. CASE Report("Failed") /\ UNCHANGED <<cr, synced>>
  <2>1. /\ worker' = At("status", worker.copy, "Failed") /\ worker'.pc = "status"
        /\ worker'.report = "Failed" /\ UNCHANGED <<fresh, queued>>
    BY <1>3 DEF Report, At
  <2> QED BY <1>0, <1>3, <2>1, CallStep
<1> QED BY <1>1, <1>2, <1>3 DEF RemoveFinalizer

(* A status update leaves the finalizer and the spec alone.                 *)
LEMMA UpdateStatusStep ==
    ASSUME NEW S, NEW T, Steps(S, T), ManagedTypeOK(T), MInv(S), UpdateStatus
    PROVE  /\ ManagedTypeOK(T)' /\ MInv(S)' /\ (Kept => Kept')
           /\ worker'.pc = "idle"
<1>0. /\ worker.pc = "status" /\ worker.copy \in Resource /\ cr \in Resource
      /\ worker.report \in {"none", "Failed", "Ready"} /\ worker.copy.url \in BOOLEAN
      /\ UNCHANGED <<cache, gitea, creates, edits, crashes, faults>>
      /\ faults \in 0..MaxFaults /\ synced \in BOOLEAN
  BY DEF UpdateStatus, counters, ManagedTypeOK, Resource
<1>1. CASE Return(TRUE) /\ UNCHANGED <<cr, synced>>
  BY <1>0, <1>1, ReturnOnlyStep
<1>2. CASE /\ Store([cr EXCEPT !.cond = worker.report, !.url = worker.copy.url])
           /\ Return(worker.report = "Failed")
  <2> DEFINE new == [cr EXCEPT !.cond = worker.report, !.url = worker.copy.url]
             q == worker.report = "Failed"
  <2>1. /\ new \in Resource /\ new.here = cr.here /\ new.fin = cr.fin
        /\ new.deleting = cr.deleting /\ new.spec = cr.spec
    <3>1. /\ cr \in Resource /\ worker.copy.url \in BOOLEAN
          /\ worker.report \in {"none", "Failed", "Ready"}
      BY <1>0
    <3>2. \A c \in {"none", "Failed", "Ready"}, u \in BOOLEAN :
            LET x == [cr EXCEPT !.cond = c, !.url = u]
            IN  /\ x \in Resource /\ x.here = cr.here /\ x.fin = cr.fin
                /\ x.deleting = cr.deleting /\ x.spec = cr.spec
      <4> TAKE c \in {"none", "Failed", "Ready"}, u \in BOOLEAN
      <4> QED BY <3>1 DEF Resource
    <3> QED BY <3>1, <3>2, ZenonT(30)
  <2>0. synced => cache = cr
    BY DEF MInv
  <2>2. /\ cr' = new /\ synced' \in BOOLEAN /\ (synced' => cache = cr')
    BY <1>0, <1>2, <2>0 DEF Store
  <2>3. q \in BOOLEAN /\ Return(q)
    BY <1>2
  <2> HIDE DEF new, q
  <2>4. Kept => Kept'
    BY <2>1, <2>2 DEF Kept
  <2>5. /\ cr'.fin => cr'.here
        /\ cr'.here => cr'.spec \in Desired
        /\ cache.fin /\ ~cache.deleting => Kept'
        /\ cache.deleting => (cr'.fin => cr'.deleting)
    BY <2>1, <2>2, <2>4 DEF MInv
  <2> QED BY <1>0, <2>1, <2>2, <2>3, <2>4, <2>5, ReturnStep
<1> QED BY <1>1, <1>2 DEF UpdateStatus

(* A failed call leaves the resource alone.                                 *)
LEMMA FailStep ==
    ASSUME NEW S, NEW T, Steps(S, T), ManagedTypeOK(T), MInv(S), worker.pc # "idle", Fail
    PROVE  /\ ManagedTypeOK(T)' /\ MInv(S)' /\ (Kept => Kept')
           /\ worker'.pc \in {"idle", "status"}
           /\ worker'.pc = "status" => worker'.report = "Failed"
<1>0. /\ worker.copy \in Resource /\ cr \in Resource /\ faults' \in 0..MaxFaults
      /\ UNCHANGED <<cr, cache, synced, gitea, creates, edits, crashes>> /\ synced \in BOOLEAN
  BY ManagedBounds DEF Fail, ManagedTypeOK
<1>1. CASE Return(TRUE)
  BY <1>0, <1>1, ReturnOnlyStep
<1>2. CASE Report("Failed")
  <2>1. /\ worker' = At("status", worker.copy, "Failed") /\ worker'.pc = "status"
        /\ worker'.report = "Failed" /\ UNCHANGED <<fresh, queued>>
    BY <1>2 DEF Report, At
  <2> QED BY <1>0, <2>1, CallStep
<1> QED BY <1>1, <1>2 DEF Fail
=============================================================================
