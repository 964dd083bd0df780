--------------------------- MODULE SpireBootstrap ---------------------------
(***************************************************************************)
(* workloadidentity (spire-bootstrap) enrols workload clusters with the    *)
(* SPIRE server of the management cluster.  It puts a kubeconfig for the   *)
(* cluster in one ConfigMap and the cluster in the list of another, both   *)
(* shared by all the clusters and by others who write them, and then       *)
(* applies the trust bundle and the configuration of the agent to the      *)
(* cluster.                                                                *)
(*                                                                         *)
(* Only Clusters are watched.  The ConfigMaps are read from a cache that   *)
(* may lag, and an Update with an old version is refused.  An action is    *)
(* what Reconcile does up to and including its next call.                  *)
(***************************************************************************)
EXTENDS Naturals, Sequences

CONSTANTS
    Clusters,     \* the workload clusters
    NameIn,       \* the clusters whose kubeconfig secret has this name in its name
    Orders,       \* the orders in which a manager that starts may queue the clusters
    MaxEdits,     \* bound on what users and Cluster API do
    MaxFaults     \* bound on the calls that fail and on the restarts of the manager

VARIABLES
    creds,        \* the clusters with a kubeconfig secret
    ready,        \* the clusters Cluster API calls ready
    agents,       \* the clusters with the namespace and the token of the agent
    server,       \* the spire-bundle ConfigMap and the spire-server Service are there
    maps,         \* ConfigMaps kubeconfigs and clusters: whose data each of their entries holds
    seen,         \* the two in the informer cache
    synced,       \* those the cache has the latest version of
    bundle,       \* the clusters that were given the trust bundle
    conf,         \* for each cluster, the one that the configuration of its agent names
    missed,       \* clusters whose secret was not in the cache when they were last handled
    requests,     \* the workqueue, served in order, with the requests that come back later
    spw,          \* Reconcile: its cluster, the secrets that are left, its copy of a map
    edits, faults

vars == <<creds, ready, agents, server, maps, seen, synced, bundle, conf, missed, requests,
          spw, edits, faults>>

Maps == {"kubeconfigs", "clusters"}
Data == [Clusters \union {"other"} -> Clusters \union {"other", "none"}]
NoData == [k \in Clusters \union {"other"} |-> "none"]

SpIdle == [pc |-> "idle", cluster |-> "none", todo |-> {}, target |-> "none",
           copy |-> NoData, fresh |-> FALSE]

SpireTypeOK ==
    /\ creds \subseteq Clusters /\ ready \subseteq Clusters /\ agents \subseteq Clusters
    /\ server \in BOOLEAN /\ synced \subseteq Maps
    /\ maps \in [Maps -> Data] /\ seen \in [Maps -> Data] /\ bundle \subseteq Clusters
    /\ conf \in [Clusters -> Clusters \union {"none"}] /\ missed \subseteq Clusters
    /\ requests \in Seq(Clusters)
    /\ spw.todo \subseteq Clusters /\ spw.copy \in Data /\ spw.fresh \in BOOLEAN
    /\ edits \in 0..MaxEdits /\ faults \in 0..MaxFaults

(* A manager that starts has a request for every Cluster, or none if this   *)
(* controller is not among those it runs.                                   *)
InitWith(queues) ==
    /\ creds = {} /\ ready = {} /\ agents = {} /\ server \in BOOLEAN
    /\ maps = [m \in Maps |-> NoData] /\ seen = maps /\ synced = Maps
    /\ bundle = {} /\ conf = [c \in Clusters |-> "none"] /\ missed = {}
    /\ requests \in queues /\ spw = SpIdle
    /\ edits = 0 /\ faults = 0

Init == InitWith(Orders)

-----------------------------------------------------------------------------
(* Users, Cluster API and the manager.                                      *)

(* The workqueue holds an object once.                                      *)
Add(c) ==
    requests' = IF \E i \in 1..Len(requests) : requests[i] = c THEN requests
                ELSE Append(requests, c)

Edit == edits < MaxEdits /\ edits' = edits + 1 /\ UNCHANGED faults

MakeCluster(c) ==
    /\ c \notin creds /\ creds' = creds \union {c}
    /\ UNCHANGED <<ready, agents, server, maps, seen, synced, bundle, conf, missed, requests,
                   spw, edits, faults>>

(* A change of the readiness is an event of the Cluster.                    *)
SetReady(c) ==
    /\ c \in creds
    /\ \/ c \notin ready /\ ready' = ready \union {c} /\ UNCHANGED <<edits, faults>>
       \/ c \in ready /\ ready' = ready \ {c} /\ Edit
    /\ Add(c)
    /\ UNCHANGED <<creds, agents, server, maps, seen, synced, bundle, conf, missed, spw>>

(* The package with the agent is installed or removed.                      *)
InstallAgent(c) ==
    /\ \/ c \notin agents /\ agents' = agents \union {c} /\ UNCHANGED <<edits, faults>>
       \/ c \in agents /\ agents' = agents \ {c} /\ Edit
    /\ UNCHANGED <<creds, ready, server, maps, seen, synced, bundle, conf, missed, requests, spw>>

StartServer ==
    /\ ~server /\ server' = TRUE
    /\ UNCHANGED <<creds, ready, agents, maps, seen, synced, bundle, conf, missed, requests,
                   spw, edits, faults>>

(* A new version of a ConfigMap; a copy of the last one is out of date.     *)
Write(m, data) ==
    /\ maps' = [maps EXCEPT ![m] = data]
    /\ synced' = synced \ {m}

(* Somebody else adds an entry to one of the ConfigMaps.                    *)
WriteOther(m) ==
    /\ maps[m]["other"] = "none" /\ Edit /\ Write(m, [maps[m] EXCEPT !["other"] = "other"])
    /\ spw' = [spw EXCEPT !.fresh = @ /\ spw.pc # m]
    /\ UNCHANGED <<creds, ready, agents, server, seen, bundle, conf, missed, requests>>

CacheSync(m) ==
    /\ m \notin synced /\ synced' = synced \union {m} /\ seen' = [seen EXCEPT ![m] = maps[m]]
    /\ UNCHANGED <<creds, ready, agents, server, maps, bundle, conf, missed, requests, spw,
                   edits, faults>>

Crash ==
    /\ faults < MaxFaults /\ faults' = faults + 1
    /\ spw' = SpIdle /\ requests' \in Orders
    /\ seen' = maps /\ synced' = Maps
    /\ UNCHANGED <<creds, ready, agents, server, maps, bundle, conf, missed, edits>>

-----------------------------------------------------------------------------
(* Reconcile.                                                               *)

Return == spw' = SpIdle /\ UNCHANGED requests
Requeue == spw' = SpIdle /\ Add(spw.cluster)
Goto(step) == spw' = [spw EXCEPT !.pc = step] /\ UNCHANGED requests

Keeps == UNCHANGED <<creds, ready, agents, server, seen, edits>>

(* What is read from caches to begin with: the bundle, the Service and the  *)
(* secrets with the name of the cluster in theirs.  Without a secret there  *)
(* is nothing to do, and nobody says when there is one.                     *)
GetCluster ==
    /\ spw.pc = "idle" /\ requests # <<>>
    /\ LET c == Head(requests) IN
       IF server
       THEN /\ requests' = Tail(requests) /\ missed' = missed \ {c}
            /\ spw' = IF NameIn[c] \intersect creds = {} THEN SpIdle
                      ELSE [SpIdle EXCEPT !.pc = "client", !.cluster = c,
                                          !.todo = NameIn[c] \intersect creds]
       ELSE requests' = Append(Tail(requests), c) /\ UNCHANGED <<missed, spw>>
    /\ UNCHANGED <<maps, synced, bundle, conf, faults>> /\ Keeps

(* The cache of secrets lags behind that of Clusters.                       *)
GetClusterTooEarly ==
    /\ spw.pc = "idle" /\ requests # <<>> /\ server /\ faults < MaxFaults /\ faults' = faults + 1
    /\ requests' = Tail(requests) /\ missed' = missed \union {Head(requests)}
    /\ UNCHANGED <<maps, synced, bundle, conf, spw>> /\ Keeps

(* The secrets come in any order.                                           *)
GetClusterClient ==
    /\ spw.pc = "client"
    /\ \E d \in spw.todo :
         \/ d \in ready /\ spw' = [spw EXCEPT !.pc = "create", !.target = d]
                       /\ UNCHANGED requests
         \/ d \notin ready /\ Requeue
    /\ UNCHANGED <<maps, synced, bundle, conf, missed, faults>> /\ Keeps

(* The copy of a ConfigMap that is going to be updated.                     *)
Copy(m) ==
    /\ spw' = [spw EXCEPT !.pc = m, !.copy = seen[m], !.fresh = m \in synced]
    /\ UNCHANGED requests

createKubeconfigWithoutRetry ==
    /\ spw.pc = "create"
    /\ IF spw.target \in agents THEN Copy("kubeconfigs") ELSE Return
    /\ UNCHANGED <<maps, synced, bundle, conf, missed, faults>> /\ Keeps

(* The ConfigMap, and the token of the agent in the workload cluster.       *)
createKubeconfigConfigMap ==
    /\ spw.pc = "create"
    /\ IF spw.target \in agents THEN Copy("kubeconfigs") ELSE Requeue
    /\ UNCHANGED <<maps, synced, bundle, conf, missed, faults>> /\ Keeps

UpdateOfAnyVersion(m, of, next) ==
    /\ spw.pc = m
    /\ Write(m, [spw.copy EXCEPT ![spw.cluster] = of]) /\ Goto(next)
    /\ UNCHANGED <<bundle, conf, missed, faults>> /\ Keeps

UpdateErrorIgnored(m, of, next) ==
    /\ spw.pc = m
    /\ IF spw.fresh THEN Write(m, [spw.copy EXCEPT ![spw.cluster] = of])
       ELSE UNCHANGED <<maps, synced>>
    /\ Goto(next)
    /\ UNCHANGED <<bundle, conf, missed, faults>> /\ Keeps

(* client.Update with the entry of the cluster: refused if the copy is out  *)
(* of date, and no new version if nothing changes.                          *)
Update(m, of, next) ==
    /\ spw.pc = m
    /\ \/ spw.fresh /\ spw.copy[spw.cluster] = of /\ Goto(next) /\ UNCHANGED <<maps, synced>>
       \/ /\ spw.fresh /\ spw.copy[spw.cluster] # of /\ Goto(next)
          /\ Write(m, [spw.copy EXCEPT ![spw.cluster] = of])
       \/ ~spw.fresh /\ Requeue /\ UNCHANGED <<maps, synced>>
    /\ UNCHANGED <<bundle, conf, missed, faults>> /\ Keeps

(* The kubeconfig under the name of the cluster is that of the secret.      *)
UpdateKubeconfigs == Update("kubeconfigs", spw.target, "list")

(* A cluster that is in the list stays as it is.                            *)
updateClusterListConfigMap ==
    /\ spw.pc = "list"
    /\ IF seen["clusters"][spw.cluster] = "none" THEN Copy("clusters") ELSE Goto("namespace")
    /\ UNCHANGED <<maps, synced, bundle, conf, missed, faults>> /\ Keeps

UpdateClusterList == Update("clusters", spw.cluster, "namespace")

GetNamespace ==
    /\ spw.pc = "namespace"
    /\ IF spw.target \in agents THEN Goto("bundle") ELSE Requeue
    /\ UNCHANGED <<maps, synced, bundle, conf, missed, faults>> /\ Keeps

ApplyBundle ==
    /\ spw.pc = "bundle" /\ bundle' = bundle \union {spw.target} /\ Goto("agent")
    /\ UNCHANGED <<maps, synced, conf, missed, faults>> /\ Keeps

(* The configuration names the cluster that is reconciled.                  *)
ApplyAgentConf ==
    /\ spw.pc = "agent" /\ conf' = [conf EXCEPT ![spw.target] = spw.cluster]
    /\ IF spw.todo = {spw.target} THEN Return
       ELSE /\ spw' = [spw EXCEPT !.pc = "client", !.todo = @ \ {spw.target}, !.target = "none"]
            /\ UNCHANGED requests
    /\ UNCHANGED <<maps, synced, bundle, missed, faults>> /\ Keeps

(* An error is returned, also that of an Update that was carried out; a     *)
(* cluster whose readiness cannot be read is taken for not ready.           *)
CallFails ==
    /\ faults < MaxFaults /\ faults' = faults + 1 /\ spw.pc # "idle"
    /\ \/ Requeue /\ UNCHANGED <<maps, synced>>
       \/ /\ spw.pc \in Maps /\ spw.fresh /\ Requeue
          /\ LET of == IF spw.pc = "clusters" THEN spw.cluster ELSE spw.target IN
             Write(spw.pc, [spw.copy EXCEPT ![spw.cluster] = of])
    /\ UNCHANGED <<bundle, conf, missed>> /\ Keeps

Reconcile ==
    \/ GetCluster \/ GetClusterClient \/ createKubeconfigConfigMap \/ UpdateKubeconfigs
    \/ updateClusterListConfigMap \/ UpdateClusterList
    \/ GetNamespace \/ ApplyBundle \/ ApplyAgentConf

Next ==
    \/ \E c \in Clusters : \/ MakeCluster(c) \/ SetReady(c) \/ InstallAgent(c)
    \/ \E m \in Maps : WriteOther(m) \/ CacheSync(m)
    \/ StartServer \/ Crash \/ Reconcile \/ GetClusterTooEarly \/ CallFails

Fairness ==
    WF_vars(Reconcile) /\ \A m \in Maps : WF_vars(CacheSync(m))

Spec == Init /\ [][Next]_vars

FairSpec == Spec /\ Fairness

-----------------------------------------------------------------------------
(* No entry of the shared ConfigMaps is lost: not that of another cluster,  *)
(* nor what others wrote between the read of a ConfigMap and its Update.    *)
EntriesKept ==
    [][\A m \in Maps : \A k \in DOMAIN NoData :
         maps[m][k] # "none" => maps'[m][k] # "none"]_vars

(* The SPIRE server is told of a cluster only when the kubeconfig that its  *)
(* entry names is there, whatever fails between the two updates.            *)
ListedHasKubeconfig ==
    \A c \in Clusters : maps["clusters"][c] # "none" => maps["kubeconfigs"][c] # "none"

(* A cluster with the agent, and ready like all that have its name in       *)
(* theirs, is enrolled in the end, unless its secret was not in the cache   *)
(* when it was handled for the last time: that is not retried.              *)
EventuallyEnrolled ==
    \A c \in Clusters :
      <>[](server /\ NameIn[c] \subseteq ready \intersect agents /\ c \notin missed =>
             maps["clusters"][c] # "none" /\ c \in bundle /\ conf[c] # "none")
=============================================================================
