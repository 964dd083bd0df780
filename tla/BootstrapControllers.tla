------------------------ MODULE BootstrapControllers -------------------------
(***************************************************************************)
(* Two controllers of the management cluster that prepare workload         *)
(* clusters.  bootstrap-packages installs the published packages of a      *)
(* staging repository in the cluster their resources name; bootstrap-      *)
(* secret copies a Secret to the clusters its annotation lists, into a     *)
(* namespace that one of the packages brings.  Neither calls the other.    *)
(*                                                                         *)
(* The package for a cluster goes by the name of the cluster.  Each        *)
(* resource of a package but the namespace lives in the namespace.         *)
(* Workload clusters are not watched: the controllers ask again later.     *)
(* The Secret and the PackageRevisions are what the informers have of      *)
(* them, as the controllers never write them.                              *)
(***************************************************************************)
EXTENDS Naturals, Sequences

CONSTANTS
    Clusters,     \* the workload clusters
    NameIn,       \* the clusters whose kubeconfig secret has this name in its name
    Lists,        \* what the cluster-name annotation of the Secret may say
    Resources,    \* the resources of a package, "namespace" among them
    Annotated,    \* for each package, those that name the cluster
    MaxEdits,     \* bound on what users and Cluster API do
    MaxFaults     \* bound on the calls that fail and on the restarts of the manager

ASSUME BootstrapConstants ==
    /\ Clusters \intersect {"none", "other"} = {}
    /\ NameIn \in [Clusters -> SUBSET Clusters] /\ \A c \in Clusters : c \in NameIn[c]
    /\ Lists \subseteq Seq(Clusters) /\ "namespace" \in Resources
    /\ Annotated \in [Clusters -> SUBSET Resources]
    /\ MaxEdits \in Nat /\ MaxFaults \in Nat

VARIABLES
    secret,     \* the Secret: its version, and the clusters it is for
    package,    \* for each package: draft, published, or in another repository
    creds,      \* the clusters with a kubeconfig secret
    ready,      \* the clusters Cluster API calls ready
    installed,  \* for each cluster, the resources that are installed
    copied,     \* for each cluster, the version of the Secret, or 0
    queue,      \* requests, also those that come back later: "secret", or a package
    sw,         \* Reconcile of bootstrap-secret: its copy, the cluster it is at
    pw,         \* Reconcile of bootstrap-packages: its package, what is to install
    edits, faults

inventory == <<secret, package, creds, ready>>
counters == <<edits, faults>>
vars == <<inventory, installed, copied, queue, sw, pw, counters>>

Requests == Clusters \union {"secret"}
Versions == 1..(MaxEdits + 1)
ClusterOrNone == Clusters \union {"none"}

(* list: the clusters that are left; target: whose credentials were found.  *)
SIdle == [pc |-> "idle", version |-> 1, list |-> <<>>, target |-> "none"]
PIdle == [pc |-> "idle", pkg |-> "none", target |-> "none", todo |-> {}]

TypeOK ==
    /\ secret \in [here : BOOLEAN, version : Versions, list : Lists \union {<<>>}]
    /\ package \in [Clusters -> {"draft", "published", "elsewhere"}]
    /\ creds \subseteq Clusters /\ ready \subseteq Clusters
    /\ installed \in [Clusters -> SUBSET Resources]
    /\ copied \in [Clusters -> {0} \union Versions]
    /\ queue \subseteq Requests
    /\ sw.pc \in {"idle", "find", "client", "namespace", "apply"} /\ sw.version \in Versions
    /\ sw.pc \notin {"idle", "find"} => sw.target \in Clusters
    /\ sw.pc # "idle" => sw.list \in Seq(Clusters) \ {<<>>}
    /\ pw.pc \in {"idle", "read", "find", "client", "apply"} /\ pw.todo \subseteq Resources
    /\ pw.pc # "idle" => pw.pkg \in Clusters
    /\ pw.pc \in {"client", "apply"} => pw.target \in Clusters
    /\ edits \in 0..MaxEdits /\ faults \in 0..MaxFaults

(* A manager that starts has a request for every object there is, or none   *)
(* if the controllers are not among those it runs.                          *)
InitWith(q) ==
    /\ secret \in [here : {TRUE}, version : {1}, list : Lists \union {<<>>}]
    /\ package \in [Clusters -> {"draft", "elsewhere"}]
    /\ creds = {} /\ ready = {}
    /\ installed = [c \in Clusters |-> {}] /\ copied = [c \in Clusters |-> 0]
    /\ queue = q /\ sw = SIdle /\ pw = PIdle
    /\ edits = 0 /\ faults = 0

Init == InitWith(Requests)

-----------------------------------------------------------------------------
(* Users, Porch, Cluster API and the manager.                               *)

Controllers == UNCHANGED <<installed, copied, sw, pw, faults>>

(* The Secret is changed: a new token, other clusters, or its deletion.     *)
EditSecret ==
    /\ secret.here /\ edits < MaxEdits /\ edits' = edits + 1
    /\ \/ \E l \in Lists : secret' = [secret EXCEPT !.version = @ + 1, !.list = l]
       \/ secret' = [secret EXCEPT !.here = FALSE]
    /\ queue' = queue \union {"secret"}
    /\ UNCHANGED <<package, creds, ready>> /\ Controllers

Publish(p) ==
    /\ package[p] = "draft" /\ package' = [package EXCEPT ![p] = "published"]
    /\ queue' = queue \union {p}
    /\ UNCHANGED <<secret, creds, ready, edits>> /\ Controllers

(* Cluster API makes a cluster; it may be unready again for a while.        *)
MakeCluster(c) ==
    /\ c \notin creds /\ creds' = creds \union {c}
    /\ UNCHANGED <<secret, package, ready, queue, edits>> /\ Controllers

SetReady(c) ==
    /\ c \in creds
    /\ \/ c \notin ready /\ ready' = ready \union {c} /\ UNCHANGED edits
       \/ c \in ready /\ ready' = ready \ {c} /\ edits < MaxEdits /\ edits' = edits + 1
    /\ UNCHANGED <<secret, package, creds, queue>> /\ Controllers

Crash ==
    /\ faults < MaxFaults /\ faults' = faults + 1
    /\ sw' = SIdle /\ pw' = PIdle /\ queue' = Requests
    /\ UNCHANGED <<inventory, installed, copied, edits>>

-----------------------------------------------------------------------------
(* bootstrap-secret.                                                        *)

SReturn == sw' = SIdle /\ UNCHANGED queue
SRequeue == sw' = SIdle /\ queue' = queue \union {"secret"}
SGoto(step, d) == sw' = [sw EXCEPT !.pc = step, !.target = d] /\ UNCHANGED queue
SKeeps == UNCHANGED <<inventory, installed, pw, counters>>

CredentialsOfAny(c) == creds

(* The name of a cluster is looked for anywhere in the names of the         *)
(* secrets, in the order of the list, which is that of the cache.           *)
Credentials(c) == NameIn[c] \intersect creds

GetSecret ==
    /\ sw.pc = "idle" /\ "secret" \in queue /\ queue' = queue \ {"secret"}
    /\ sw' = IF secret.here /\ secret.list # <<>>
             THEN [SIdle EXCEPT !.pc = "find", !.version = secret.version, !.list = secret.list]
             ELSE SIdle
    /\ UNCHANGED copied /\ SKeeps

FindCluster ==
    /\ sw.pc = "find"
    /\ \/ \E d \in Credentials(Head(sw.list)) : SGoto("client", d)
       \/ Credentials(Head(sw.list)) = {} /\ SRequeue
    /\ UNCHANGED copied /\ SKeeps

GetClusterClient ==
    /\ sw.pc = "client"
    /\ \/ sw.target \in ready /\ SGoto("namespace", sw.target)
       \/ sw.target \notin ready /\ SRequeue
    /\ UNCHANGED copied /\ SKeeps

GetNamespaceOnce ==
    /\ sw.pc = "namespace"
    /\ \/ "namespace" \in installed[sw.target] /\ SGoto("apply", sw.target)
       \/ "namespace" \notin installed[sw.target] /\ SReturn
    /\ UNCHANGED copied /\ SKeeps

GetNamespace ==
    /\ sw.pc = "namespace"
    /\ \/ "namespace" \in installed[sw.target] /\ SGoto("apply", sw.target)
       \/ "namespace" \notin installed[sw.target] /\ SRequeue
    /\ UNCHANGED copied /\ SKeeps

ApplySecret ==
    /\ sw.pc = "apply" /\ copied' = [copied EXCEPT ![sw.target] = sw.version]
    /\ IF Len(sw.list) = 1 THEN SReturn
       ELSE /\ sw' = [sw EXCEPT !.pc = "find", !.list = Tail(@), !.target = "none"]
            /\ UNCHANGED queue
    /\ SKeeps

(* Errors are returned; a cluster whose readiness cannot be read is taken   *)
(* for not ready.                                                           *)
SecretCallFails ==
    /\ faults < MaxFaults /\ faults' = faults + 1
    /\ sw.pc # "idle" /\ SRequeue
    /\ UNCHANGED <<inventory, installed, copied, pw, edits>>

ReconcileSecret == GetSecret \/ FindCluster \/ GetClusterClient \/ GetNamespace \/ ApplySecret

-----------------------------------------------------------------------------
(* bootstrap-packages.                                                      *)

PReturn == pw' = PIdle /\ UNCHANGED queue
PRequeue == pw' = PIdle /\ queue' = queue \union {pw.pkg}
PGoto(step, d, rs) ==
    pw' = [pw EXCEPT !.pc = step, !.target = d, !.todo = rs] /\ UNCHANGED queue
PKeeps == UNCHANGED <<inventory, copied, sw, counters>>

(* Only published packages of a staging repository are for this controller. *)
GetPackage(p) ==
    /\ pw.pc = "idle" /\ p \in queue /\ queue' = queue \ {p}
    /\ pw' = IF package[p] = "published" THEN [PIdle EXCEPT !.pc = "read", !.pkg = p] ELSE PIdle
    /\ UNCHANGED installed /\ PKeeps

(* The resources come in the order of a Go map, and the first one names     *)
(* the cluster.                                                             *)
getPrResources ==
    /\ pw.pc = "read"
    /\ \E first \in Resources :
         IF first \in Annotated[pw.pkg] THEN PGoto("find", "none", Resources) ELSE PReturn
    /\ UNCHANGED installed /\ PKeeps

FindPackageCluster ==
    /\ pw.pc = "find"
    /\ \/ \E d \in Credentials(pw.pkg) : PGoto("client", d, pw.todo)
       \/ Credentials(pw.pkg) = {} /\ PRequeue
    /\ UNCHANGED installed /\ PKeeps

GetPackageClientOnce ==
    /\ pw.pc = "client"
    /\ IF pw.target \in ready THEN PGoto("apply", pw.target, pw.todo) ELSE PReturn
    /\ UNCHANGED installed /\ PKeeps

GetPackageClient ==
    /\ pw.pc = "client"
    /\ \/ pw.target \in ready /\ PGoto("apply", pw.target, pw.todo)
       \/ pw.target \notin ready /\ PRequeue
    /\ UNCHANGED installed /\ PKeeps

(* The next resource, in the same accidental order; the cluster refuses one *)
(* whose namespace is not there yet.                                        *)
ApplyResource(x) ==
    /\ pw.pc = "apply" /\ x \in pw.todo
    /\ IF x = "namespace" \/ "namespace" \in installed[pw.target]
       THEN /\ installed' = [installed EXCEPT ![pw.target] = @ \union {x}]
            /\ IF pw.todo = {x} THEN PReturn ELSE PGoto("apply", pw.target, pw.todo \ {x})
       ELSE PRequeue /\ UNCHANGED installed
    /\ PKeeps

PackageCallFails ==
    /\ faults < MaxFaults /\ faults' = faults + 1
    /\ pw.pc # "idle" /\ PRequeue
    /\ UNCHANGED <<inventory, installed, copied, sw, edits>>

ReconcilePackage ==
    \/ \E p \in Clusters : GetPackage(p)
    \/ getPrResources \/ FindPackageCluster \/ GetPackageClient
    \/ \E x \in Resources : ApplyResource(x)

Next ==
    \/ EditSecret \/ Crash
    \/ \E c \in Clusters : Publish(c) \/ MakeCluster(c) \/ SetReady(c)
    \/ ReconcileSecret \/ SecretCallFails \/ ReconcilePackage \/ PackageCallFails

Spec == Init /\ [][Next]_vars

(* A workqueue is served in order, so every package has its turn; the       *)
(* order of a Go map is random, so the namespace comes first some time.     *)
Fairness ==
    /\ WF_vars(ReconcileSecret) /\ WF_vars(ReconcilePackage)
    /\ \A p \in Clusters : SF_vars(GetPackage(p)) /\ SF_vars(pw.pkg = p /\ ApplyResource("namespace"))

FairSpec == Spec /\ Fairness

-----------------------------------------------------------------------------

(* Each resource of a package and each copy of the Secret goes to the       *)
(* cluster it is meant for, whatever becomes of the Secret and of the       *)
(* clusters between the search for the credentials and the call.            *)
RightCluster ==
    [][\A d \in Clusters :
         /\ copied'[d] # copied[d] => d = Head(sw.list)
         /\ installed'[d] # installed[d] => d = pw.pkg]_vars

(* A package whose resources all name the cluster is installed as a whole   *)
(* in the end, although the resources are applied in any order and the      *)
(* first error ends a Reconcile.                                            *)
EventuallyInstalled ==
    \A c \in Clusters :
      <>[](package[c] = "published" /\ c \in ready /\ Annotated[c] = Resources =>
             installed[c] = Resources)

(* The latest version of the Secret is in all the clusters it lists in the  *)
(* end, once they are there, ready and have got their package.              *)
EventuallyCopied ==
    <>[](secret.here
         /\ (\A i \in 1..Len(secret.list) :
               LET c == secret.list[i] IN
               c \in ready /\ package[c] = "published" /\ Annotated[c] = Resources) =>
           \A i \in 1..Len(secret.list) : copied[secret.list[i]] = secret.version)
==============================================================================
