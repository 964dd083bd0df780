---------------------------- MODULE TokenProofs ----------------------------
(***************************************************************************)
(* No token of gitea is orphaned, for any number of creations, edits,      *)
(* failures and restarts.  NoOrphanedToken is not inductive: the token is  *)
(* created by a worker that has seen the finalizer only in its copy, so    *)
(* the invariant says what such a copy is worth (MInv), and that a         *)
(* finalizer is removed only after the token is gone.  The second part is  *)
(* about the Secret with the token's value, which gitea tells only once.   *)
(***************************************************************************)
EXTENDS TokenController, ManagedResourceProofs

Creating == {"list", "create", "apply"}
AllSteps == {"delete", "list", "create", "apply"}

TokenGoneFirst == worker.pc = "unfinalize" /\ Policy = "delete" => token = FALSE

IInv == TypeOK /\ MInv(Creating) /\ NoOrphanedToken /\ TokenGoneFirst

(* The steps of this controller are of the form the common lemmas are about.*)
LEMMA TokenSteps == Steps(Creating, AllSteps)
BY DEF Steps, Creating, AllSteps

(* Initially there is no token.                                             *)
LEMMA TokenInitial == Init => IInv
<1> SUFFICES ASSUME Init PROVE IInv
  OBVIOUS
<1>1. ManagedTypeOK(AllSteps) /\ MInv(Creating)
  BY TokenSteps, ManagedInitial DEF Init
<1>2. secret \in [value : {"none", "current", "stale"}, owner : 0..MaxCreates]
  BY ManagedBounds DEF Init, NoSecret
<1>3. token = FALSE
  BY DEF Init
<1>4. TypeOK
  BY <1>1, <1>2, <1>3 DEF TypeOK, AllSteps
<1> QED BY <1>1, <1>3, <1>4 DEF IInv, NoOrphanedToken, TokenGoneFirst

(* A step that leaves the token alone keeps the invariant when the          *)
(* finalizer stays and the worker does not turn to removing it.             *)
LEMMA TokenKept ==
    ASSUME IInv, ManagedTypeOK(AllSteps)', MInv(Creating)', UNCHANGED token,
           secret' \in [value : {"none", "current", "stale"}, owner : 0..MaxCreates],
           Policy = "delete" /\ token => (Kept => Kept'),
           worker'.pc = "unfinalize" /\ Policy = "delete" => worker.pc = "unfinalize"
    PROVE  IInv'
<1>1. TypeOK'
  BY DEF IInv, TypeOK, AllSteps
<1>2. NoOrphanedToken'
  BY DEF IInv, NoOrphanedToken, Kept
<1>3. TokenGoneFirst'
  BY DEF IInv, TokenGoneFirst
<1> QED BY <1>1, <1>2, <1>3 DEF IInv

(* What users, the informer and the garbage collector do keeps IInv.        *)
LEMMA TokenEnvironment ==
    ASSUME IInv, Managed(Environment) \/ CollectSecret
    PROVE  IInv'
<1>0. /\ ManagedTypeOK(AllSteps) /\ MInv(Creating) /\ Steps(Creating, AllSteps)
      /\ secret \in [value : {"none", "current", "stale"}, owner : 0..MaxCreates]
  BY TokenSteps DEF IInv, TypeOK, AllSteps
<1>1. CASE Managed(Environment)
  <2>1. Environment /\ UNCHANGED <<token, secret>>
    BY <1>1 DEF Managed
  <2>2. /\ ManagedTypeOK(AllSteps)' /\ MInv(Creating)' /\ (Kept => Kept')
        /\ worker' = worker \/ worker' = Idle
    BY <1>0, <2>1, EnvironmentStep
  <2>3. Idle.pc # "unfinalize"
    BY DEF Idle, At
  <2> QED BY <1>0, <2>1, <2>2, <2>3, TokenKept
<1>2. CASE CollectSecret
  <2>1. UNCHANGED managedVars /\ UNCHANGED token /\ secret' = NoSecret
    BY <1>2 DEF CollectSecret
  <2>2. NoSecret \in [value : {"none", "current", "stale"}, owner : 0..MaxCreates]
    BY ManagedBounds DEF NoSecret
  <2>3. ManagedTypeOK(AllSteps)' /\ MInv(Creating)' /\ (Kept => Kept') /\ worker' = worker
    BY <1>0, <2>1 DEF managedVars, counters, ManagedTypeOK, MInv, Kept
  <2> QED BY <2>1, <2>2, <2>3, TokenKept
<1> QED BY <1>1, <1>2

(* The steps that Reconcile shares with the repository controller.          *)
LEMMA TokenManaged ==
    ASSUME IInv,
           Managed(Get) \/ Managed(AddFinalizer("list")) \/ Managed(RemoveFinalizer)
             \/ Managed(UpdateStatus) \/ Managed(FinalizerFails)
    PROVE  IInv'
<1>0. /\ ManagedTypeOK(AllSteps) /\ MInv(Creating) /\ Steps(Creating, AllSteps)
      /\ secret' \in [value : {"none", "current", "stale"}, owner : 0..MaxCreates]
      /\ UNCHANGED token /\ "list" \in Creating
  BY TokenSteps DEF IInv, TypeOK, AllSteps, Managed, Creating
<1>1. CASE Managed(Get)
  <2>1. /\ ManagedTypeOK(AllSteps)' /\ MInv(Creating)' /\ (Kept => Kept')
        /\ worker'.pc = "unfinalize" => Policy # "delete"
    BY <1>0, <1>1, GetStep DEF Managed
  <2> QED BY <1>0, <2>1, TokenKept
<1>2. CASE Managed(AddFinalizer("list"))
  <2>1. /\ ManagedTypeOK(AllSteps)' /\ MInv(Creating)' /\ (Kept => Kept')
        /\ worker'.pc \in {"list", "status"}
    BY <1>0, <1>2, AddFinalizerStep DEF Managed
  <2> QED BY <1>0, <2>1, TokenKept
<1>3. CASE Managed(RemoveFinalizer)
  <2>1. /\ ManagedTypeOK(AllSteps)' /\ MInv(Creating)' /\ worker'.pc \in {"idle", "status"}
    BY <1>0, <1>3, RemoveFinalizerStep DEF Managed
  <2>2. Policy = "delete" => token = FALSE
    BY <1>3 DEF IInv, TokenGoneFirst, Managed, RemoveFinalizer
  <2> QED BY <1>0, <2>1, <2>2, TokenKept
<1>4. CASE Managed(UpdateStatus)
  <2>1. /\ ManagedTypeOK(AllSteps)' /\ MInv(Creating)' /\ (Kept => Kept') /\ worker'.pc = "idle"
    BY <1>0, <1>4, UpdateStatusStep DEF Managed
  <2> QED BY <1>0, <2>1, TokenKept
<1>5. CASE Managed(FinalizerFails)
  <2>1. Fail /\ worker.pc # "idle"
    BY <1>5 DEF Managed, FinalizerFails
  <2>2. /\ ManagedTypeOK(AllSteps)' /\ MInv(Creating)' /\ (Kept => Kept')
        /\ worker'.pc \in {"idle", "status"}
    BY <1>0, <2>1, FailStep
  <2> QED BY <1>0, <2>2, TokenKept
<1> QED BY <1>1, <1>2, <1>3, <1>4, <1>5

(* What a Secret looks like after the token is deleted, or is not.          *)
LEMMA SecretType ==
    ASSUME IInv, TokenGone \/ UNCHANGED secret
    PROVE  secret' \in [value : {"none", "current", "stale"}, owner : 0..MaxCreates]
BY DEF IInv, TypeOK, TokenGone

(* deleteToken goes on to the finalizer only when the token is gone.        *)
LEMMA TokenDelete ==
    ASSUME IInv, deleteToken
    PROVE  IInv'
<1>0. /\ ManagedTypeOK(AllSteps) /\ MInv(Creating) /\ Steps(Creating, AllSteps)
      /\ worker.pc = "delete" /\ worker.copy \in Resource
      /\ worker.report \in {"none", "Failed", "Ready"}
      /\ UNCHANGED <<cr, cache, synced, gitea, creates, edits, crashes, faults>>
      /\ faults \in 0..MaxFaults
  BY TokenSteps DEF IInv, TypeOK, AllSteps, deleteToken, Call, counters, ManagedTypeOK
<1>1. CASE token /\ TokenGone /\ Goto("unfinalize")
  <2>1. /\ worker' = At("unfinalize", worker.copy, worker.report)
        /\ UNCHANGED <<fresh, queued>> /\ token' = FALSE
    BY <1>1 DEF Goto, TokenGone
  <2>2. ManagedTypeOK(AllSteps)' /\ MInv(Creating)'
    BY <1>0, <2>1, CallStep
  <2>3. TypeOK'
    BY <1>1, <2>1, <2>2, SecretType DEF TypeOK, AllSteps
  <2> QED BY <2>1, <2>2, <2>3 DEF IInv, NoOrphanedToken, TokenGoneFirst
<1>2. CASE ~token /\ Report("Failed") /\ UNCHANGED <<token, secret>>
  <2>1. /\ worker' = At("status", worker.copy, "Failed") /\ worker'.pc = "status"
        /\ UNCHANGED <<fresh, queued>>
    BY <1>2 DEF Report, At
  <2>2. ManagedTypeOK(AllSteps)' /\ MInv(Creating)' /\ (Kept => Kept')
    BY <1>0, <2>1, CallStep
  <2> QED BY <1>2, <2>1, <2>2, SecretType, TokenKept
<1> QED BY <1>1, <1>2 DEF deleteToken

(* The steps of createToken run while the resource has its finalizer, so    *)
(* the token may come to be.                                                *)
LEMMA TokenCreate ==
    ASSUME IInv, ListAccessTokens \/ CreateAccessToken \/ Apply
    PROVE  IInv'
<1>0. /\ ManagedTypeOK(AllSteps) /\ MInv(Creating) /\ Steps(Creating, AllSteps)
      /\ worker.pc \in Creating /\ worker.copy \in Resource
      /\ worker.report \in {"none", "Failed", "Ready"}
      /\ UNCHANGED <<cr, cache, synced, gitea, creates, edits, crashes, faults>>
      /\ faults \in 0..MaxFaults /\ worker.pc \notin {"idle", "unfinalize"}
  BY TokenSteps DEF IInv, TypeOK, AllSteps, Creating, ListAccessTokens, CreateAccessToken,
                    Apply, Call, counters, ManagedTypeOK
<1>1. Kept
  BY <1>0 DEF MInv
<1>2. ManagedTypeOK(AllSteps)' /\ MInv(Creating)' /\ (Kept => Kept') /\ worker'.pc # "unfinalize"
  <2>1. CASE Report("Ready")
    <3>1. /\ worker' = At("status", worker.copy, "Ready") /\ UNCHANGED <<fresh, queued>>
          /\ worker'.pc # "unfinalize"
      BY <2>1 DEF Report, At
    <3> QED BY <1>0, <3>1, CallStep
  <2>2. CASE Goto("create")
    <3>1. "create" \in Creating /\ "create" # "unfinalize"
      BY DEF Creating
    <3> QED BY <1>0, <2>2, <3>1, GotoStep
  <2>3. CASE Goto("apply")
    <3>1. "apply" \in Creating /\ "apply" # "unfinalize"
      BY DEF Creating
    <3> QED BY <1>0, <2>3, <3>1, GotoStep
  <2> QED BY <2>1, <2>2, <2>3 DEF ListAccessTokens, CreateAccessToken, Apply
<1>3. token' \in BOOLEAN
  <2>1. token' = token \/ token' = TRUE
    BY DEF ListAccessTokens, CreateAccessToken, Apply
  <2>2. token \in BOOLEAN
    BY DEF IInv, TypeOK
  <2> QED BY <2>1, <2>2
<1>4. secret' \in [value : {"none", "current", "stale"}, owner : 0..MaxCreates]
  <2>1. worker.copy.uid \in 0..MaxCreates
    BY <1>0 DEF Resource
  <2> QED BY <2>1 DEF IInv, TypeOK, ListAccessTokens, CreateAccessToken, Apply
<1>5. TypeOK'
  BY <1>2, <1>3, <1>4 DEF TypeOK, AllSteps
<1> QED BY <1>1, <1>2, <1>5 DEF IInv, NoOrphanedToken, TokenGoneFirst, Kept

(* A call of gitea fails, with or without an effect.                        *)
LEMMA TokenFails ==
    ASSUME IInv, CallFails
    PROVE  IInv'
<1>0. /\ ManagedTypeOK(AllSteps) /\ MInv(Creating) /\ Steps(Creating, AllSteps)
      /\ Fail /\ worker.pc \in AllSteps /\ worker.pc \notin {"idle", "unfinalize"}
  BY TokenSteps DEF IInv, TypeOK, AllSteps, CallFails
<1>1. /\ ManagedTypeOK(AllSteps)' /\ MInv(Creating)' /\ (Kept => Kept')
      /\ worker'.pc \in {"idle", "status"}
  BY <1>0, FailStep
<1>2. CASE UNCHANGED <<token, secret>>
  BY <1>1, <1>2, SecretType, TokenKept
<1>3. CASE TokenGone
  <2>1. TypeOK' /\ token' = FALSE
    BY <1>1, <1>3, SecretType DEF TokenGone, TypeOK, AllSteps
  <2> QED BY <1>1, <2>1 DEF IInv, NoOrphanedToken, TokenGoneFirst
<1>4. CASE worker.pc = "create" /\ token' = TRUE /\ UNCHANGED secret
  <2>1. Kept'
    BY <1>0, <1>1, <1>4 DEF MInv, Creating
  <2>2. TypeOK'
    BY <1>1, <1>4, SecretType DEF TypeOK, AllSteps
  <2> QED BY <1>1, <2>1, <2>2 DEF IInv, NoOrphanedToken, TokenGoneFirst, Kept
<1> QED BY <1>2, <1>3, <1>4 DEF CallFails

-----------------------------------------------------------------------------
(* The invariant of the token controller.                                   *)
THEOREM TokenInvariant == Spec => []IInv
<1>1. IInv /\ [Next]_vars => IInv'
  <2> SUFFICES ASSUME IInv, [Next]_vars PROVE IInv'
    OBVIOUS
  <2>1. CASE Managed(Environment) \/ CollectSecret
    BY <2>1, TokenEnvironment
  <2>2. CASE Reconcile
    BY <2>2, TokenManaged, TokenDelete, TokenCreate DEF Reconcile
  <2>3. CASE Managed(FinalizerFails) \/ CallFails
    BY <2>3, TokenManaged, TokenFails
  <2>4. CASE UNCHANGED vars
    <3>1. UNCHANGED <<cr, cache, synced, queued, worker, fresh, gitea, creates, edits,
                      faults, crashes, token, secret>>
      BY <2>4 DEF vars, managedVars, counters
    <3>2. ManagedTypeOK(AllSteps)' /\ MInv(Creating)' /\ (Kept => Kept')
      BY <3>1 DEF IInv, TypeOK, AllSteps, ManagedTypeOK, MInv, Kept
    <3> QED BY <3>1, <3>2, SecretType, TokenKept
  <2> QED BY <2>1, <2>2, <2>3, <2>4 DEF Next
<1> QED BY TokenInitial, <1>1, PTL DEF Spec

(* The state of the token controller has its type.                          *)
THEOREM TokenTypeCorrect == Spec => []TypeOK
<1>1. IInv => TypeOK
  BY DEF IInv
<1> QED BY TokenInvariant, <1>1, PTL

(* With deletion policy "delete" gitea never keeps a token whose resource   *)
(* is gone or has lost its finalizer.                                       *)
THEOREM TokenNotOrphaned == Spec => []NoOrphanedToken
<1>1. IInv => NoOrphanedToken
  BY DEF IInv
<1> QED BY TokenInvariant, <1>1, PTL

-----------------------------------------------------------------------------
(* What is needed for the Secret: a finalizer that is seen on a resource    *)
(* that is not deleted is that of the resource there is now ...             *)
SameUid ==
    /\ cache.fin /\ ~cache.deleting => cache.uid = cr.uid
    /\ worker.pc = "finalize" /\ (worker.copy.fin \/ fresh) => worker.copy.uid = cr.uid
    /\ worker.pc \in Creating => worker.copy.uid = cr.uid

NoFault == Policy = "delete" /\ faults = 0 /\ crashes = 0

SaysReady == cr.cond = "Ready" /\ ~cr.deleting

Current == secret = [value |-> "current", owner |-> cr.uid]

(* ... and the token and the Secret come together, but for the step between *)
(* the two calls that make them.                                            *)
SecretInv ==
    NoFault =>
      /\ worker.pc = "create" => ~token
      /\ worker.pc = "apply" => token /\ ~SaysReady
      /\ worker.pc = "status" /\ worker.report = "Ready" => token
      /\ SaysReady => token
      /\ token /\ worker.pc # "apply" => Current

(* Initially there is neither a token nor a resource.                       *)
LEMMA SecretInitial == Init => SameUid /\ SecretInv
BY DEF Init, ManagedInit, Absent, Idle, At, SameUid, SecretInv, SaysReady, Current, Creating

(* A resource that the controller has seen with its finalizer, or that a    *)
(* token is there for, is not replaced by another one.                      *)
LEMMA SecretUser ==
    ASSUME IInv, SameUid, SecretInv, UNCHANGED <<token, secret>>,
           NEW new, StoredByUser(new),
           Kept => new.uid = cr.uid,
           new.cond = "Ready" /\ ~new.deleting => SaysReady
    PROVE  SameUid' /\ SecretInv'
<1>1. /\ cr' = new /\ fresh' = FALSE
      /\ UNCHANGED <<cache, worker, faults, crashes, token, secret>>
  BY DEF StoredByUser, Store
<1>2. SameUid'
  BY <1>1 DEF SameUid, IInv, MInv
<1>3. NoFault' => NoFault
  BY <1>1 DEF NoFault
<1>4. SaysReady' => SaysReady
  BY <1>1 DEF SaysReady
<1>5. NoFault /\ token => (Current => Current')
  BY <1>1 DEF IInv, NoOrphanedToken, NoFault, Kept, Current
<1>6. SecretInv'
  BY <1>1, <1>3, <1>4, <1>5 DEF SecretInv
<1> QED BY <1>2, <1>6

(* Users, the informer, a restart and the garbage collector.                *)
LEMMA SecretEnvironment ==
    ASSUME IInv, SameUid, SecretInv, Managed(Environment) \/ CollectSecret
    PROVE  SameUid' /\ SecretInv'
<1>0. cr \in Resource /\ (cr.fin => cr.here) /\ crashes \in Nat
  BY ManagedBounds DEF IInv, TypeOK, ManagedTypeOK, MInv
<1>1. ASSUME NEW s \in Desired, Managed(Create(s)) PROVE SameUid' /\ SecretInv'
  <2>1. StoredByUser(New(creates + 1, s)) /\ UNCHANGED <<token, secret>> /\ ~Kept
    BY <1>1 DEF Managed, Create, Kept
  <2>2. New(creates + 1, s).cond # "Ready"
    BY DEF New
  <2> QED BY <2>1, <2>2, SecretUser
<1>2. ASSUME NEW s \in Desired, Managed(EditSpec(s)) PROVE SameUid' /\ SecretInv'
  <2> DEFINE new == [cr EXCEPT !.spec = s]
  <2>1. StoredByUser(new) /\ UNCHANGED <<token, secret>>
    BY <1>2 DEF Managed, EditSpec
  <2>2. new.uid = cr.uid /\ new.cond = cr.cond /\ new.deleting = cr.deleting
    BY <1>0 DEF Resource
  <2> HIDE DEF new
  <2> QED BY <2>1, <2>2, SecretUser DEF SaysReady
<1>3. ASSUME Managed(Delete) PROVE SameUid' /\ SecretInv'
  <2> DEFINE new == IF cr.fin THEN [cr EXCEPT !.deleting = TRUE] ELSE Absent
  <2>1. StoredByUser(new) /\ UNCHANGED <<token, secret>>
    BY <1>3 DEF Managed, Delete
  <2>2. (cr.fin => new.uid = cr.uid) /\ (new.deleting \/ new.cond # "Ready")
    BY <1>0 DEF Resource, Absent
  <2> HIDE DEF new
  <2> QED BY <2>1, <2>2, SecretUser DEF Kept
<1>4. ASSUME Managed(CacheSync) \/ Managed(Start) PROVE SameUid' /\ SecretInv'
  <2>1. /\ UNCHANGED <<cr, worker, fresh, faults, crashes, token, secret>>
        /\ cache' = cache \/ cache' = cr
    BY <1>4 DEF Managed, CacheSync, Start, counters
  <2>2. SameUid'
    BY <2>1 DEF SameUid
  <2>3. SecretInv'
    BY <2>1 DEF SecretInv, NoFault, SaysReady, Current
  <2> QED BY <2>2, <2>3
<1>5. ASSUME Managed(Crash) PROVE SameUid' /\ SecretInv'
  <2>1. worker' = Idle /\ worker'.pc = "idle" /\ cache' = cr /\ cr' = cr
    BY <1>5 DEF Managed, Crash, Idle, At
  <2>2. SameUid'
    BY <2>1 DEF SameUid, Creating
  <2>3. ~NoFault'
    BY <1>0, <1>5 DEF Managed, Crash, NoFault
  <2> QED BY <2>2, <2>3 DEF SecretInv
<1>6. ASSUME CollectSecret PROVE SameUid' /\ SecretInv'
  <2>1. UNCHANGED <<cr, cache, worker, fresh, faults, crashes, token>>
    BY <1>6 DEF CollectSecret, managedVars, counters
  <2>2. SameUid'
    BY <2>1 DEF SameUid
  <2>3. ~(NoFault /\ token /\ worker.pc # "apply")
    BY <1>6 DEF SecretInv, Current, CollectSecret, IInv, NoOrphanedToken, NoFault
  <2>4. SecretInv'
    BY <2>1, <2>3 DEF SecretInv, NoFault, SaysReady
  <2> QED BY <2>2, <2>4
<1> QED BY <1>1, <1>2, <1>3, <1>4, <1>5, <1>6 DEF Managed, Environment

(* Get, AddFinalizer, RemoveFinalizer and UpdateStatus.                     *)
LEMMA SecretManaged ==
    ASSUME IInv, SameUid, SecretInv,
           Managed(Get) \/ Managed(AddFinalizer("list")) \/ Managed(RemoveFinalizer)
             \/ Managed(UpdateStatus)
    PROVE  SameUid' /\ SecretInv'
<1>0. /\ cr \in Resource /\ worker.copy \in Resource /\ Idle.pc = "idle"
      /\ UNCHANGED <<cache, faults, crashes, token, secret>>
  BY DEF IInv, TypeOK, ManagedTypeOK, Managed, Get, AddFinalizer, RemoveFinalizer,
         UpdateStatus, counters, Idle, At
<1>1. CASE Managed(Get)
  <2>1. cr' = cr /\ fresh' = (synced /\ cache.here) /\ (synced => cache = cr)
    BY <1>1 DEF Managed, Get, IInv, MInv
  <2>2. \/ worker'.pc = "idle"
        \/ worker'.pc = "status" /\ worker'.report = "Failed"
        \/ worker'.pc = "finalize" /\ worker'.copy = cache /\ ~cache.deleting
        \/ worker'.pc \in {"delete", "unfinalize"}
    BY <1>1 DEF Managed, Get, Idle, At
  <2>3. SameUid'
    BY <1>0, <2>1, <2>2 DEF SameUid, Creating
  <2>4. worker.pc = "idle"
    BY <1>1 DEF Managed, Get
  <2>5. SecretInv'
    BY <1>0, <2>1, <2>2, <2>4 DEF SecretInv, NoFault, SaysReady, Current
  <2> QED BY <2>3, <2>5
<1>2. CASE Managed(AddFinalizer("list"))
  <2>1. worker.pc = "finalize" /\ fresh' = fresh
    BY <1>2 DEF Managed, AddFinalizer, Goto, Report
  <2>2. /\ cr'.uid = cr.uid /\ cr'.cond = cr.cond /\ cr'.deleting = cr.deleting
        /\ \/ /\ worker'.pc = "list" /\ worker'.copy.uid = worker.copy.uid
              /\ worker.copy.fin \/ fresh
           \/ worker'.pc = "status" /\ worker'.report = "Failed"
    BY <1>0, <1>2 DEF Managed, AddFinalizer, Goto, Report, Store, At, Resource
  <2>3. SameUid'
    BY <1>0, <2>1, <2>2 DEF SameUid, Creating
  <2>4. SecretInv'
    BY <1>0, <2>1, <2>2 DEF SecretInv, NoFault, SaysReady, Current
  <2> QED BY <2>3, <2>4
<1>3. CASE Managed(RemoveFinalizer)
  <2>1. /\ worker.pc = "unfinalize" /\ (NoFault => token = FALSE)
        /\ cache.fin => cache.deleting
    BY <1>3 DEF Managed, RemoveFinalizer, IInv, MInv, TokenGoneFirst, NoFault
  <2>2. /\ worker'.pc = "idle" \/ (worker'.pc = "status" /\ worker'.report = "Failed")
        /\ cr' = cr \/ cr' = Absent
    BY <1>0, <1>3 DEF Managed, RemoveFinalizer, Return, Report, Store, At
  <2>3. SameUid'
    BY <1>0, <2>1, <2>2 DEF SameUid, Creating
  <2>4. SaysReady' => SaysReady
    BY <2>2 DEF SaysReady, Absent
  <2>5. SecretInv'
    BY <1>0, <2>1, <2>2, <2>4 DEF SecretInv, NoFault
  <2> QED BY <2>3, <2>5
<1>4. CASE Managed(UpdateStatus)
  <2>1. worker.pc = "status" /\ worker'.pc = "idle"
    BY <1>0, <1>4 DEF Managed, UpdateStatus, Return
  <2>2. /\ cr'.uid = cr.uid /\ cr'.deleting = cr.deleting
        /\ cr'.cond = cr.cond \/ cr'.cond = worker.report
    BY <1>0, <1>4 DEF Managed, UpdateStatus, Store, Resource
  <2>3. SameUid'
    BY <1>0, <2>1, <2>2 DEF SameUid, Creating
  <2>4. SecretInv'
    BY <1>0, <2>1, <2>2 DEF SecretInv, NoFault, SaysReady, Current
  <2> QED BY <2>3, <2>4
<1> QED BY <1>1, <1>2, <1>3, <1>4

(* The calls of gitea: the token of a resource that says it is Ready is     *)
(* deleted only after the resource is, and the Secret of a new token is     *)
(* written before Ready is reported.                                        *)
LEMMA SecretCalls ==
    ASSUME IInv, SameUid, SecretInv,
           deleteToken \/ ListAccessTokens \/ CreateAccessToken \/ Apply
    PROVE  SameUid' /\ SecretInv'
<1>0. UNCHANGED <<cr, cache, fresh, faults, crashes>>
  BY DEF deleteToken, ListAccessTokens, CreateAccessToken, Apply, Call, counters, Goto, Report
<1>1. (NoFault' => NoFault) /\ SaysReady' = SaysReady /\ cr' = cr
  BY <1>0 DEF NoFault, SaysReady
<1>2. CASE deleteToken
  <2>1. worker.pc = "delete" /\ worker'.pc \in {"unfinalize", "status"}
    BY <1>2 DEF deleteToken, Goto, Report, At
  <2>2. SameUid'
    BY <1>0, <2>1 DEF SameUid, Creating
  <2>3. CASE token /\ TokenGone /\ Goto("unfinalize")
    <3>1. NoFault => ~SaysReady
      BY <2>1, <2>3 DEF SecretInv, IInv, MInv, NoOrphanedToken, NoFault, SaysReady
    <3>2. token' = FALSE /\ worker'.pc = "unfinalize"
      BY <2>3 DEF TokenGone, Goto, At
    <3> QED BY <1>1, <2>2, <3>1, <3>2 DEF SecretInv
  <2>4. CASE ~token /\ Report("Failed") /\ UNCHANGED <<token, secret>>
    <3>1. UNCHANGED <<token, secret>> /\ worker'.pc = "status" /\ worker'.report = "Failed"
      BY <2>4 DEF Report, At
    <3> QED BY <1>1, <2>1, <2>2, <3>1 DEF SecretInv, Current
  <2> QED BY <1>2, <2>3, <2>4 DEF deleteToken
<1>3. CASE ListAccessTokens
  <2>1. /\ worker.pc = "list" /\ UNCHANGED <<token, secret>>
        /\ \/ token /\ worker'.pc = "status"
           \/ ~token /\ worker'.pc = "create" /\ worker'.copy = worker.copy
    BY <1>3 DEF ListAccessTokens, Goto, Report, At
  <2>2. SameUid'
    BY <1>0, <2>1 DEF SameUid, Creating
  <2>3. SecretInv'
    BY <1>1, <2>1 DEF SecretInv, Current
  <2> QED BY <2>2, <2>3
<1>4. CASE CreateAccessToken
  <2>1. /\ worker.pc = "create" /\ token' = TRUE /\ secret' = secret
        /\ worker'.pc = "apply" /\ worker'.copy = worker.copy
    BY <1>4 DEF CreateAccessToken, Goto, At
  <2>2. SameUid'
    BY <1>0, <2>1 DEF SameUid, Creating
  <2>3. SecretInv'
    BY <1>1, <2>1 DEF SecretInv
  <2> QED BY <2>2, <2>3
<1>5. CASE Apply
  <2>1. /\ worker.pc = "apply" /\ token' = token /\ worker'.pc = "status"
        /\ secret' = [value |-> "current", owner |-> worker.copy.uid]
    BY <1>5 DEF Apply, Report, At
  <2>2. SameUid' /\ worker.copy.uid = cr.uid
    BY <1>0, <2>1 DEF SameUid, Creating
  <2>3. SecretInv'
    BY <1>1, <2>1, <2>2 DEF SecretInv, Current
  <2> QED BY <2>2, <2>3
<1> QED BY <1>2, <1>3, <1>4, <1>5

(* After a failed call nothing is claimed of the Secret.                    *)
LEMMA SecretFails ==
    ASSUME IInv, SameUid, Managed(FinalizerFails) \/ CallFails
    PROVE  SameUid' /\ SecretInv'
<1>1. Fail /\ faults \in Nat
  BY ManagedBounds DEF Managed, FinalizerFails, CallFails, IInv, TypeOK, ManagedTypeOK
<1>2. ~NoFault'
  BY <1>1 DEF Fail, NoFault
<1>3. worker'.pc \in {"idle", "status"} /\ UNCHANGED <<cr, cache>>
  BY <1>1 DEF Fail, Return, Report, Idle, At
<1>4. SameUid'
  BY <1>3 DEF SameUid, Creating
<1> QED BY <1>2, <1>4 DEF SecretInv

(* As long as no call fails and the manager does not restart, a Token that  *)
(* is Ready and not deleted has a Secret of its own with the value of the   *)
(* token in gitea, however often it is deleted and created again.           *)
THEOREM ReadyHasSecret == Spec => []ReadyHasSecretUnlessFault
<1>1. Init => IInv /\ SameUid /\ SecretInv
  BY TokenInitial, SecretInitial
<1>2. IInv /\ SameUid /\ SecretInv /\ [Next]_vars => (SameUid /\ SecretInv)'
  <2> SUFFICES ASSUME IInv, SameUid, SecretInv, [Next]_vars PROVE SameUid' /\ SecretInv'
    OBVIOUS
  <2>1. CASE Managed(Environment) \/ CollectSecret
    BY <2>1, SecretEnvironment
  <2>2. CASE Reconcile
    BY <2>2, SecretManaged, SecretCalls DEF Reconcile
  <2>3. CASE Managed(FinalizerFails) \/ CallFails
    BY <2>3, SecretFails
  <2>4. CASE UNCHANGED vars
    BY <2>4 DEF vars, managedVars, counters, SameUid, SecretInv, NoFault, SaysReady, Current
  <2> QED BY <2>1, <2>2, <2>3, <2>4 DEF Next
<1>3. SecretInv => ReadyHasSecretUnlessFault
  BY DEF SecretInv, NoFault, SaysReady, Current, ReadyHasSecretUnlessFault
<1> QED BY TokenInvariant, <1>1, <1>2, <1>3, PTL DEF Spec
=============================================================================
