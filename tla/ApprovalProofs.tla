--------------------------- MODULE ApprovalProofs ---------------------------
(***************************************************************************)
(* What the approval controller does to a package revision, proved for any *)
(* set of revisions, any annotations and any number of edits, failures and *)
(* restarts.                                                               *)
(***************************************************************************)
EXTENDS ApprovalController, TLAPS

(* What ApprovalAssumption says of the annotations.                         *)
VariantsOK == \A v \in Variants : v.delay \in Int /\ v.owned \in BOOLEAN

LEMMA Annotations == VariantsOK
BY ApprovalAssumption DEF VariantsOK, NoDelay, BadDelay

PrType == [life : {"absent", "Draft", "Proposed", "Published", "DeletionProposed"},
           policy : Policies \union {""}, gates : BOOLEAN, delay : Int, owned : BOOLEAN]

ApproverType == [pc : {"idle", "get", "pv", "list", "write", "put"}, rev : Rev \union {"none"},
                 copy : PrType, age : Nat]

(* The checks that Reconcile has behind it.                                 *)
Checked(u) ==
    /\ u.pc # "idle" => u.rev \in Rev /\ u.copy.life # "absent"
    /\ u.pc = "list" => u.copy.gates /\ u.copy.policy = "initial"
    /\ u.pc = "write" =>
         /\ u.copy.gates /\ u.copy.policy \in {"initial", "always"}
         /\ u.copy.delay # BadDelay
         /\ u.copy.delay <= 0 \/ u.age > u.copy.delay

(* The copy is that of the latest version, until the approval reads anew.   *)
Latest(u) == u.pc \in {"get", "pv", "list", "write"} => pr[u.rev] = u.copy /\ age[u.rev] = u.age

First(u) == u.pc \in {"write", "put"} /\ u.copy.policy = "initial" => NonePublished

ApprovalInv ==
    /\ pr \in [Rev -> PrType] /\ age \in [Rev -> Nat] /\ w \in ApproverType
    /\ Checked(w) /\ (fresh => Latest(w)) /\ First(w)

(* What ProposedAsChecked and InitialPublishesFirst say of a step.          *)
Approves ==
    \A r \in Rev : /\ Proposes(r) => Proposable(r)
                   /\ Publishes(r) /\ w.copy.policy = "initial" =>
                        NonePublished

LEMMA IdleApprover ==
    /\ Absent \in PrType /\ Idle \in ApproverType
    /\ Idle.pc = "idle"
BY DEF Absent, Idle, NoRev, NoDelay, PrType, ApproverType

LEMMA ApprovalInitial == Init => ApprovalInv
BY IdleApprover DEF Init, ApprovalInv, Checked, Latest, First

(* Only Update and PutApproval change the revision that is worked on.       *)
LEMMA NothingApproved ==
    ASSUME ~Update, ~PutApproval
    PROVE  Approves
BY Zenon DEF Approves, Proposes, Publishes

(* Reconcile returns.                                                       *)
LEMMA ApproverReturns ==
    ASSUME ApprovalInv, w' = Idle, pr' \in [Rev -> PrType], age' \in [Rev -> Nat]
    PROVE  ApprovalInv'
BY Zenon, IdleApprover DEF ApprovalInv, Checked, Latest, First

(* An edit of revision r.                                                   *)
LEMMA RevisionEdited ==
    ASSUME ApprovalInv, NEW r \in Rev, NEW new \in PrType, Edit(r, new),
           age' \in [Rev -> Nat], \A s \in Rev \ {r} : age'[s] = age[s],
           new.life \in {"Published", "DeletionProposed"} =>
             r \in manual' \/ pr[r].life \in {"Published", "DeletionProposed"},
           manual \ {r} \subseteq manual', r \in manual /\ r \notin manual' => new.life = "absent"
    PROVE  ApprovalInv'
<1>1. /\ pr' \in [Rev -> PrType] /\ pr'[r] = new /\ \A s \in Rev \ {r} : pr'[s] = pr[s]
      /\ w' = w
      /\ fresh' => fresh /\ r # w.rev
  BY Zenon DEF ApprovalInv, Edit, Stored
<1>2. fresh' => Latest(w)'
  BY Zenon, <1>1 DEF ApprovalInv, Latest, Checked
<1>3. NonePublished => NonePublished'
  BY Zenon, <1>1 DEF NonePublished
<1>4. First(w)'
  BY Zenon, <1>1, <1>3 DEF ApprovalInv, First
<1> QED BY Zenon, <1>1, <1>2, <1>4 DEF ApprovalInv, Checked

LEMMA ApprovalUsers ==
    ASSUME VariantsOK, ApprovalInv, NEW r \in Rev,
           \/ Create(r) \/ SetGates(r)
           \/ SetLifecycle(r) \/ Delete(r)
    PROVE  ApprovalInv'
<1>0. pr[r] \in PrType /\ age \in [Rev -> Nat]
  BY Zenon DEF ApprovalInv
<1>1. CASE Create(r)
  <2>1. PICK x \in Variants, g \in BOOLEAN :
          Edit(r, [life |-> "Draft", policy |-> x.policy, gates |-> g,
                            delay |-> x.delay, owned |-> x.owned])
    BY Zenon, <1>1 DEF Create
  <2>2. [life |-> "Draft", policy |-> x.policy, gates |-> g, delay |-> x.delay,
         owned |-> x.owned] \in PrType
    BY Zenon DEF PrType, VariantsOK, Policies
  <2>3. age' \in [Rev -> Nat] /\ (\A s \in Rev \ {r} : age'[s] = age[s]) /\ manual' = manual
    BY Zenon, <1>0, <1>1 DEF Create
  <2> QED BY Zenon, <2>1, <2>2, <2>3, RevisionEdited
<1>2. CASE SetGates(r)
  <2>1. [pr[r] EXCEPT !.gates = ~@] \in PrType
    BY Zenon, <1>0 DEF PrType
  <2>2. [pr[r] EXCEPT !.gates = ~@].life = "Draft"
    BY Zenon, <1>0, <1>2 DEF PrType, SetGates
  <2> QED BY Zenon, <1>0, <1>2, <2>1, <2>2, RevisionEdited DEF SetGates
<1>3. CASE SetLifecycle(r)
  <2>1. PICK t \in UserLifecycle :
          pr[r].life = t[1] /\ Edit(r, [pr[r] EXCEPT !.life = t[2]])
    BY Zenon, <1>3 DEF SetLifecycle
  <2>2. /\ t[2] \in {"Draft", "Proposed", "Published", "DeletionProposed"}
        /\ t[2] \in {"Published", "DeletionProposed"} /\ t[1] # "Proposed" =>
             t[1] \in {"Published", "DeletionProposed"}
    BY DEF UserLifecycle
  <2>3. [pr[r] EXCEPT !.life = t[2]] \in PrType /\ [pr[r] EXCEPT !.life = t[2]].life = t[2]
    BY Zenon, <1>0, <2>2 DEF PrType
  <2>4. pr'[r].life = t[2]
    BY Zenon, <2>1, <2>3 DEF Edit, Stored, ApprovalInv
  <2>5. /\ age' = age /\ manual \subseteq manual'
        /\ t[1] = "Proposed" /\ t[2] = "Published" => r \in manual'
    BY Zenon, <1>3, <2>1, <2>4 DEF SetLifecycle
  <2>6. t[2] = "DeletionProposed" => t[1] # "Proposed"
    BY DEF UserLifecycle
  <2> QED BY Zenon, <1>0, <2>1, <2>2, <2>3, <2>5, <2>6, RevisionEdited
<1>4. CASE Delete(r)
  <2>1. Absent.life = "absent"
    BY Zenon DEF Absent
  <2> QED BY Zenon, <1>0, <1>4, <2>1, RevisionEdited, IdleApprover DEF Delete
<1> QED BY Zenon, <1>1, <1>2, <1>3, <1>4

(* Nothing that Reconcile relies on changes.                                *)
LEMMA ApprovalUndisturbed ==
    ASSUME ApprovalInv, pr' = pr, age' = age, w' = w, fresh' = fresh,
           manual' = manual
    PROVE  ApprovalInv'
BY Zenon DEF ApprovalInv, Checked, Latest, First, NonePublished

LEMMA Ageing ==
    ASSUME NEW a \in Nat
    PROVE  Older(a) \in Nat /\ Older(a) >= a
BY DEF Older

LEMMA TimePasses ==
    ASSUME ApprovalInv, Tick
    PROVE  ApprovalInv'
<1>1. /\ pr' = pr /\ manual' = manual /\ fresh' = fresh
      /\ age' = [r \in Rev |-> IF pr[r].life = "absent" THEN age[r] ELSE Older(age[r])]
      /\ w' = IF w.pc = "idle" THEN w
                     ELSE [w EXCEPT !.age = Older(@)]
  BY DEF Tick
<1>2. age' \in [Rev -> Nat]
  BY Zenon, <1>1, Ageing DEF ApprovalInv
<1>3. CASE w.pc = "idle"
  BY Zenon, <1>1, <1>2, <1>3 DEF ApprovalInv, Checked, Latest, First, NonePublished
<1>4. CASE w.pc # "idle"
  <2>1. PICK old \in Nat : old = w.age
    BY DEF ApprovalInv, ApproverType
  <2>2. /\ w' \in ApproverType /\ w'.pc = w.pc
        /\ w'.rev = w.rev /\ w'.copy = w.copy
        /\ w'.age = Older(old)
    BY Zenon, <1>1, <1>4, <2>1, Ageing DEF ApprovalInv, ApproverType
  <2>3. Checked(w)'
    <3>1. w.copy.delay \in Int
      BY Zenon DEF ApprovalInv, ApproverType, PrType
    <3>2. old > w.copy.delay => Older(old) > w.copy.delay
      BY <3>1, Ageing
    <3> QED BY Zenon, <2>1, <2>2, <3>2 DEF ApprovalInv, Checked
  <2>4. fresh' => Latest(w)'
    BY Zenon, <1>1, <1>4, <2>1, <2>2 DEF ApprovalInv, Latest, Checked
  <2>5. First(w)'
    BY Zenon, <1>1, <2>2 DEF ApprovalInv, First, NonePublished
  <2> QED BY Zenon, <1>1, <1>2, <2>2, <2>3, <2>4, <2>5 DEF ApprovalInv
<1> QED BY Zenon, <1>3, <1>4

LEMMA ApprovalEnvironment ==
    ASSUME VariantsOK, ApprovalInv, Environment
    PROVE  ApprovalInv'
<1>1. CASE SetPackageVariant
  BY Zenon, <1>1, ApprovalUndisturbed DEF SetPackageVariant
<1>2. CASE Crash
  BY Zenon, <1>2, ApproverReturns DEF Crash, ApprovalInv
<1> QED BY Zenon, <1>1, <1>2, ApprovalUsers, TimePasses DEF Environment

(* Reconcile goes on with v, of which enough has been checked.              *)
LEMMA ApproverGoes ==
    ASSUME ApprovalInv, NEW v \in ApproverType, NEW step \in {"pv", "list", "write", "put"},
           Goto(step, v), pr' = pr, age' = age, manual' = manual,
           Checked([v EXCEPT !.pc = step]), First([v EXCEPT !.pc = step]),
           fresh' /\ step # "put" => pr[v.rev] = v.copy /\ age[v.rev] = v.age
    PROVE  ApprovalInv'
<1>1. /\ w' = [v EXCEPT !.pc = step] /\ w' \in ApproverType
      /\ w'.pc = step /\ w'.rev = v.rev /\ w'.copy = v.copy
      /\ w'.age = v.age
  BY Zenon DEF Goto, ApproverType
<1>2. Checked(w)' /\ First(w)'
  BY Zenon, <1>1 DEF Checked, First, NonePublished
<1>3. fresh' => Latest(w)'
  BY Zenon, <1>1 DEF Latest
<1> QED BY Zenon, <1>1, <1>2, <1>3 DEF ApprovalInv

LEMMA ApproverDelays ==
    ASSUME ApprovalInv, NEW v \in ApproverType, Delayed(v),
           pr' = pr, age' = age, manual' = manual,
           v.rev \in Rev, v.copy.life # "absent", v.copy.gates,
           v.copy.policy = "always" \/ (v.copy.policy = "initial" /\ NonePublished),
           fresh' => pr[v.rev] = v.copy /\ age[v.rev] = v.age
    PROVE  ApprovalInv'
<1>1. CASE w' = Idle
  BY Zenon, <1>1, ApproverReturns DEF ApprovalInv
<1>2. CASE /\ Goto("write", v) /\ v.copy.delay # BadDelay
           /\ ~(manageDelay(v) > 0)
  <2> DEFINE u == [v EXCEPT !.pc = "write"]
  <2>1. v.copy.delay \in Int /\ v.age \in Nat
    BY Zenon DEF ApproverType, PrType
  <2>2. v.copy.delay <= 0 \/ v.age > v.copy.delay
    BY <1>2, <2>1 DEF manageDelay, NoDelay
  <2>3. u.pc = "write" /\ u.rev = v.rev /\ u.copy = v.copy /\ u.age = v.age
    BY Zenon DEF ApproverType
  <2> HIDE DEF u
  <2>4. Checked(u) /\ First(u)
    BY Zenon, <1>2, <2>2, <2>3 DEF Checked, First
  <2> QED BY Zenon, <1>2, <2>4, ApproverGoes DEF u
<1> QED BY Zenon, <1>1, <1>2 DEF Delayed, Done, RequeueAfter

LEMMA ApproverChecks ==
    ASSUME ApprovalInv, NEW v \in ApproverType, PackageRevisionIsReady(v),
           pr' = pr, age' = age, manual' = manual,
           v.rev \in Rev, v.copy.life # "absent",
           fresh' => pr[v.rev] = v.copy /\ age[v.rev] = v.age
    PROVE  ApprovalInv'
<1>1. CASE w' = Idle
  BY Zenon, <1>1, ApproverReturns DEF ApprovalInv
<1>2. CASE v.copy.gates /\ v.copy.policy = "always" /\ Delayed(v)
  BY Zenon, <1>2, ApproverDelays
<1>3. CASE v.copy.gates /\ v.copy.policy = "initial" /\ Goto("list", v)
  <2> DEFINE u == [v EXCEPT !.pc = "list"]
  <2>1. u.pc = "list" /\ u.rev = v.rev /\ u.copy = v.copy
    BY Zenon DEF ApproverType
  <2> HIDE DEF u
  <2>2. Checked(u) /\ First(u)
    BY Zenon, <1>3, <2>1 DEF Checked, First
  <2> QED BY Zenon, <1>3, <2>2, ApproverGoes DEF u
<1> QED BY Zenon, <1>1, <1>2, <1>3
        DEF PackageRevisionIsReady, Done, RequeueAfter

LEMMA ApproverGets ==
    ASSUME ApprovalInv, NEW r \in Rev, Get(r)
    PROVE  ApprovalInv'
<1>1. PICK v : v = [pc |-> "get", rev |-> r, copy |-> pr[r], age |-> age[r]]
  OBVIOUS
<1>2. /\ v \in ApproverType /\ v.rev = r /\ v.copy = pr[r] /\ v.age = age[r]
  BY <1>1 DEF ApprovalInv, ApproverType
<1>3. /\ pr' = pr /\ age' = age /\ manual' = manual
      /\ \/ w' = Idle
         \/ pr[r].life # "absent" /\ Goto("pv", v)
         \/ pr[r].life # "absent" /\ PackageRevisionIsReady(v)
  BY Zenon, <1>1 DEF Get, Done, shouldProcess
<1>4. CASE w' = Idle
  BY Zenon, <1>3, <1>4, ApproverReturns DEF ApprovalInv
<1>5. CASE pr[r].life # "absent" /\ Goto("pv", v)
  <2> DEFINE u == [v EXCEPT !.pc = "pv"]
  <2>1. u.pc = "pv" /\ u.rev = v.rev /\ u.copy = v.copy
    BY Zenon, <1>2 DEF ApproverType
  <2> HIDE DEF u
  <2>2. Checked(u) /\ First(u)
    BY Zenon, <1>2, <1>5, <2>1 DEF Checked, First
  <2> QED BY Zenon, <1>2, <1>3, <1>5, <2>2, ApproverGoes DEF u
<1>6. CASE pr[r].life # "absent" /\ PackageRevisionIsReady(v)
  BY Zenon, <1>2, <1>3, <1>6, ApproverChecks
<1> QED BY Zenon, <1>3, <1>4, <1>5, <1>6

LEMMA ApproverReads ==
    ASSUME ApprovalInv, PackageVariantReady \/ policyInitial
    PROVE  ApprovalInv'
<1>1. PICK v : v = w
  OBVIOUS
<1>2. /\ v \in ApproverType /\ v.rev \in Rev /\ v.copy.life # "absent"
      /\ v.pc \in {"pv", "list"}
      /\ v.pc = "list" => v.copy.gates /\ v.copy.policy = "initial"
  BY Zenon, <1>1 DEF ApprovalInv, Checked, PackageVariantReady, policyInitial
<1>3. /\ pr' = pr /\ age' = age /\ manual' = manual
      /\ fresh' => pr[v.rev] = v.copy /\ age[v.rev] = v.age
  BY Zenon, <1>1, <1>2
  DEF PackageVariantReady, policyInitial, ApprovalInv, Latest
<1>4. CASE w' = Idle
  BY Zenon, <1>3, <1>4, ApproverReturns DEF ApprovalInv
<1>5. CASE PackageRevisionIsReady(v)
  BY Zenon, <1>2, <1>3, <1>5, ApproverChecks
<1>6. CASE v.pc = "list" /\ Delayed(v) /\ NonePublished
  BY Zenon, <1>2, <1>3, <1>6, ApproverDelays
<1> QED BY Zenon, <1>1, <1>4, <1>5, <1>6
        DEF PackageVariantReady, policyInitial, Done,
            RequeueAfter, NonePublished, LifecycleIsPublished

(* The Update and the approval: the first writes what was checked, as the   *)
(* version is the latest; the second what was Proposed a moment ago.        *)
LEMMA ApproverWrites ==
    ASSUME ApprovalInv, Update \/ PutApproval
    PROVE  ApprovalInv' /\ Approves
<1>1. /\ w.rev \in Rev /\ w' = Idle /\ age' = age
      /\ w.pc \in {"write", "put"}
  BY Zenon
  DEF Update, PutApproval, Write, Done, ApprovalInv, Checked
<1>2. \/ pr' = pr
      \/ fresh /\ \E life \in {"Proposed", "Published"} :
           pr' = [pr EXCEPT ![w.rev] = [pr[w.rev] EXCEPT !.life = life]]
  BY DEF Update, PutApproval, Write, Stored
<1>3. pr' \in [Rev -> PrType]
  <2>1. \A life \in {"Proposed", "Published"} :
          [pr[w.rev] EXCEPT !.life = life] \in PrType
    <3>1. PICK p \in PrType : p = pr[w.rev]
      BY Zenon, <1>1 DEF ApprovalInv
    <3>2. \A life \in {"Proposed", "Published"} : [p EXCEPT !.life = life] \in PrType
      BY Zenon DEF PrType
    <3> QED BY Zenon, <3>1, <3>2
  <2> QED BY Zenon, <1>1, <1>2, <2>1 DEF ApprovalInv
<1>4. ApprovalInv'
  BY Zenon, <1>1, <1>3, ApproverReturns DEF ApprovalInv
<1>5. ASSUME NEW r \in Rev, Proposes(r)
      PROVE  Proposable(r)
  <2>1. /\ w.pc = "write" /\ w.copy.life = "Draft" /\ w.rev = r
        /\ pr'[r] # pr[r]
    BY Zenon, <1>5 DEF Proposes, Update
  <2>2. fresh
    BY Zenon, <1>2, <2>1
  <2>3. pr[r] = w.copy /\ age[r] = w.age
    BY Zenon, <2>1, <2>2 DEF ApprovalInv, Latest
  <2> QED BY Zenon, <2>1, <2>3 DEF ApprovalInv, Checked, Proposable
<1>6. ASSUME NEW r \in Rev, Publishes(r), w.copy.policy = "initial"
      PROVE  NonePublished
  BY Zenon, <1>6 DEF Publishes, PutApproval, ApprovalInv, First
<1> QED BY Zenon, <1>4, <1>5, <1>6 DEF Approves

LEMMA ApproverReadsAnew ==
    ASSUME ApprovalInv, GetForApproval
    PROVE  ApprovalInv'
<1>1. PICK v : v = w
  OBVIOUS
<1>2. /\ v \in ApproverType /\ v.rev \in Rev /\ v.copy.life # "absent" /\ v.pc = "write"
      /\ pr' = pr /\ age' = age /\ manual' = manual
  BY Zenon, <1>1 DEF ApprovalInv, Checked, GetForApproval
<1>3. CASE w' = Idle
  BY Zenon, <1>2, <1>3, ApproverReturns DEF ApprovalInv
<1>4. CASE Goto("put", v)
  <2> DEFINE u == [v EXCEPT !.pc = "put"]
  <2>1. u.pc = "put" /\ u.rev = v.rev /\ u.copy = v.copy
    BY Zenon, <1>2 DEF ApproverType
  <2> HIDE DEF u
  <2>2. Checked(u) /\ First(u)
    BY Zenon, <1>1, <1>2, <2>1 DEF ApprovalInv, Checked, First
  <2> QED BY Zenon, <1>2, <1>4, <2>2, ApproverGoes DEF u
<1> QED BY Zenon, <1>1, <1>3, <1>4 DEF GetForApproval, Done

LEMMA ApprovalStep ==
    ASSUME VariantsOK, ApprovalInv, [Next]_vars
    PROVE  ApprovalInv' /\ Approves
<1>1. CASE Update \/ PutApproval
  BY Zenon, <1>1, ApproverWrites
<1>2. CASE ~Update /\ ~PutApproval
  <2>1. ApprovalInv'
    <3>1. CASE UNCHANGED vars
      BY Zenon, <3>1, ApprovalUndisturbed DEF vars
    <3>2. CASE CallFails
      BY Zenon, <3>2, ApproverReturns DEF CallFails, Done, ApprovalInv
    <3> QED BY Zenon, <1>2, <3>1, <3>2, ApprovalEnvironment, ApproverGets, ApproverReads,
               ApproverReadsAnew DEF Next, Step
  <2> QED BY Zenon, <1>2, <2>1, NothingApproved
<1> QED BY Zenon, <1>1, <1>2

(* The approval controller proposes only what meets its gates, policy and   *)
(* delay at that moment, for any set of revisions, annotations and edits.   *)
THEOREM ProposalsAreChecked == Spec => ProposedAsChecked
<1>1. ApprovalInv /\ [Next]_vars => ApprovalInv'
  BY Zenon, ApprovalStep, Annotations
<1>2. ApprovalInv /\ [Next]_vars =>
        [\A r \in Rev : Proposes(r) => Proposable(r)]_vars
  BY Zenon, ApprovalStep, Annotations DEF Approves
<1> QED BY <1>1, <1>2, ApprovalInitial, PTL
        DEF Spec, ProposedAsChecked

(* What it has read with policy initial the approval controller publishes   *)
(* only when no revision is published but those that users have approved.   *)
THEOREM InitialIsFirst == Spec => InitialPublishesFirst
<1>1. ApprovalInv /\ [Next]_vars => ApprovalInv'
  BY ApprovalStep, Annotations
<1>2. ApprovalInv /\ [Next]_vars =>
        [\A r \in Rev : Publishes(r) /\ w.copy.policy = "initial" =>
           NonePublished]_vars
  BY Zenon, ApprovalStep, Annotations DEF Approves
<1> QED BY <1>1, <1>2, ApprovalInitial, PTL
        DEF Spec, InitialPublishesFirst
==============================================================================
