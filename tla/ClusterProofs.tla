---------------------------- MODULE ClusterProofs ----------------------------
(***************************************************************************)
(* The controllers that look after workload clusters, for any clusters,    *)
(* any number of edits, failures and restarts, and whatever else runs in   *)
(* the manager beside them.                                                *)
(*                                                                         *)
(* workloadidentity updates two ConfigMaps that it shares with others from *)
(* copies of a cache that lags.  That nothing is lost, and that the two    *)
(* agree, rests on what a copy with the latest version is worth.  The      *)
(* second part is about the bootstrap controllers, which must not take one *)
(* cluster for another.                                                    *)
(***************************************************************************)
EXTENDS ClusterControllers, TLAPS

Maps == {"kubeconfigs", "clusters"}
Keys == Clusters \union {"other"}
Entries == [Keys -> Keys \union {"none"}]
NoEntries == [k \in Keys |-> "none"]
NoWork == [pc |-> "idle", cluster |-> "none", todo |-> {}, target |-> "none",
           copy |-> NoEntries, fresh |-> FALSE]

WorkerType ==
    [pc : {"idle", "client", "create", "kubeconfigs", "list", "clusters", "namespace",
           "bundle", "agent"},
     cluster : Clusters \union {"none"}, todo : SUBSET Clusters,
     target : Clusters \union {"none"}, copy : Entries, fresh : BOOLEAN]

(* The steps after the Update of the kubeconfigs.                           *)
Enrolling == {"list", "clusters", "namespace", "bundle", "agent"}

(* Reconcile: which clusters it is at, what its copy is worth if it has the *)
(* latest version, and that the kubeconfig comes before the list.           *)
WorkerInv ==
    /\ spw \in WorkerType
    /\ spw.pc # "idle" => spw.cluster \in Clusters
    /\ spw.pc \notin {"idle", "client"} => spw.target \in Clusters
    /\ spw.pc \in Maps /\ spw.fresh => spw.copy = maps[spw.pc]
    /\ spw.pc \in Enrolling => maps["kubeconfigs"][spw.cluster] # "none"

Listed == \A c \in Clusters : maps["clusters"][c] # "none" => maps["kubeconfigs"][c] # "none"

IdentityInv ==
    /\ creds \subseteq Clusters /\ requests \in Seq(Clusters)
    /\ maps \in [Maps -> Entries] /\ seen \in [Maps -> Entries]
    /\ \A m \in Maps : m \in synced => seen[m] = maps[m]
    /\ WorkerInv
    /\ Listed

(* What EntriesKept asks of a step.                                         *)
KeepsEntries == \A m \in Maps : \A k \in Keys : maps[m][k] # "none" => maps'[m][k] # "none"

-----------------------------------------------------------------------------
(* The idle Reconcile.                                                      *)
LEMMA IdleWorker == NoEntries \in Entries /\ NoWork \in WorkerType /\ NoWork.pc = "idle"
<1>1. NoEntries \in Entries
  BY DEF NoEntries, Entries
<1> QED BY <1>1 DEF NoWork, WorkerType

(* One entry of one of the ConfigMaps is written: no entry is lost.         *)
LEMMA EntryWritten ==
    ASSUME maps \in [Maps -> Entries], NEW m \in Maps, NEW k \in Keys, NEW v \in Keys,
           maps' = [maps EXCEPT ![m] = [maps[m] EXCEPT ![k] = v]]
    PROVE  /\ maps' \in [Maps -> Entries] /\ KeepsEntries
           /\ \A n \in Maps \ {m} : maps'[n] = maps[n]
           /\ maps'[m][k] # "none"
           /\ \A j \in Keys \ {k} : maps'[m][j] = maps[m][j]
<1> DEFINE d == [maps[m] EXCEPT ![k] = v]
<1>1. maps[m] \in Entries
  OBVIOUS
<1>2. v # "none"
  BY BootstrapConstants DEF Keys
<1>3. /\ d \in Entries /\ d[k] = v
      /\ \A j \in Keys \ {k} : d[j] = maps[m][j]
  BY <1>1 DEF Entries
<1>4. /\ maps' \in [Maps -> Entries] /\ maps'[m] = d
      /\ \A n \in Maps \ {m} : maps'[n] = maps[n]
  BY <1>3
<1> HIDE DEF d
<1>5. KeepsEntries
  BY <1>2, <1>3, <1>4 DEF KeepsEntries
<1> QED BY <1>2, <1>3, <1>4, <1>5

(* What others do to the clusters, the server and the workqueue.            *)
LEMMA IdentityElsewhere ==
    ASSUME IdentityInv, UNCHANGED <<maps, seen, synced, spw>>,
           creds' \subseteq Clusters, requests' \in Seq(Clusters)
    PROVE  IdentityInv' /\ KeepsEntries
<1>1. WorkerInv'
  BY DEF IdentityInv, WorkerInv
<1>2. Listed'
  BY DEF IdentityInv, Listed
<1> QED BY <1>1, <1>2 DEF IdentityInv, KeepsEntries

(* A step of Reconcile that writes no ConfigMap.                            *)
LEMMA IdentityCall ==
    ASSUME IdentityInv, UNCHANGED <<maps, seen, synced, creds>>, WorkerInv',
           requests' \in Seq(Clusters)
    PROVE  IdentityInv' /\ KeepsEntries
<1>1. Listed'
  BY DEF IdentityInv, Listed
<1> QED BY <1>1 DEF IdentityInv, KeepsEntries

(* Reconcile has returned.                                                  *)
LEMMA IdleInv ==
    ASSUME spw' = NoWork PROVE WorkerInv'
<1>1. spw' \in WorkerType /\ spw'.pc = "idle"
  BY IdleWorker
<1> QED BY <1>1 DEF WorkerInv, Maps, Enrolling

(* Reconcile returns, with or without a request for its cluster.            *)
LEMMA Returned ==
    ASSUME IdentityInv, spw.pc # "idle", spw' = NoWork,
           requests' \in {requests, Append(requests, spw.cluster)}
    PROVE  WorkerInv' /\ requests' \in Seq(Clusters)
<1>1. spw.cluster \in Clusters /\ requests \in Seq(Clusters)
  BY DEF IdentityInv, WorkerInv
<1>2. requests' \in Seq(Clusters)
  BY <1>1
<1> QED BY <1>2, IdleInv

(* Reconcile goes on to another step with the same clusters.                *)
LEMMA WentOn ==
    ASSUME IdentityInv, UNCHANGED <<maps, seen, synced, creds, requests>>,
           spw.pc \notin {"idle", "client"},
           NEW p \in Enrolling \ Maps, spw' = [spw EXCEPT !.pc = p],
           spw.pc \in Enrolling
    PROVE  IdentityInv' /\ KeepsEntries
<1>1. spw \in WorkerType
  BY DEF IdentityInv, WorkerInv
<1>2. /\ spw' \in WorkerType /\ spw'.pc = p /\ spw'.cluster = spw.cluster
      /\ spw'.target = spw.target
  BY <1>1 DEF WorkerType, Enrolling
<1>3. WorkerInv'
  BY <1>2 DEF IdentityInv, WorkerInv
<1>4. requests' \in Seq(Clusters)
  BY DEF IdentityInv
<1> QED BY <1>3, <1>4, IdentityCall

-----------------------------------------------------------------------------
(* Users, Cluster API and other clients.                                    *)
LEMMA IdentityUsers ==
    IdentityInv /\ (\/ \E c \in Clusters : Spire!MakeCluster(c) \/ Spire!SetReady(c)
                                             \/ Spire!InstallAgent(c)
                    \/ Spire!StartServer)
    => IdentityInv' /\ KeepsEntries
<1>1. ASSUME NEW c \in Clusters,
             Spire!MakeCluster(c) \/ Spire!SetReady(c) \/ Spire!InstallAgent(c)
      PROVE  /\ UNCHANGED <<maps, seen, synced, spw>>
             /\ creds' \in {creds, creds \union {c}}
             /\ requests' \in {requests, Append(requests, c)}
  BY <1>1 DEF Spire!MakeCluster, Spire!SetReady, Spire!InstallAgent, Spire!Add
<1>2. ASSUME NEW c \in Clusters, IdentityInv, UNCHANGED <<maps, seen, synced, spw>>,
             creds' \in {creds, creds \union {c}},
             requests' \in {requests, Append(requests, c)}
      PROVE  IdentityInv' /\ KeepsEntries
  <2>1. creds' \subseteq Clusters /\ requests' \in Seq(Clusters)
    BY <1>2 DEF IdentityInv
  <2> QED BY <1>2, <2>1, IdentityElsewhere
<1>3. Spire!StartServer => UNCHANGED <<maps, seen, synced, spw, creds, requests>>
  BY DEF Spire!StartServer
<1>4. ASSUME IdentityInv, UNCHANGED <<maps, seen, synced, spw, creds, requests>>
      PROVE  IdentityInv' /\ KeepsEntries
  <2>1. creds' \subseteq Clusters /\ requests' \in Seq(Clusters)
    BY <1>4 DEF IdentityInv
  <2> QED BY <1>4, <2>1, IdentityElsewhere
<1> QED BY <1>1, <1>2, <1>3, <1>4

(* Somebody else adds an entry: a copy that Reconcile holds is out of date. *)
LEMMA IdentityOther ==
    ASSUME NEW m \in Maps, IdentityInv, Spire!WriteOther(m)
    PROVE  IdentityInv' /\ KeepsEntries
<1>1. /\ maps' = [maps EXCEPT ![m] = [maps[m] EXCEPT !["other"] = "other"]]
      /\ synced' = synced \ {m} /\ spw' = [spw EXCEPT !.fresh = @ /\ spw.pc # m]
      /\ UNCHANGED <<creds, seen, requests>>
  BY DEF Spire!WriteOther, Spire!Write
<1>2. /\ maps \in [Maps -> Entries] /\ "other" \in Keys /\ spw \in WorkerType
      /\ "kubeconfigs" \in Maps /\ "clusters" \in Maps /\ Clusters \subseteq Keys
  BY DEF IdentityInv, WorkerInv, Keys, Maps
<1>3. /\ maps' \in [Maps -> Entries] /\ KeepsEntries
      /\ \A n \in Maps \ {m} : maps'[n] = maps[n]
      /\ \A j \in Keys \ {"other"} : maps'[m][j] = maps[m][j]
  BY <1>1, <1>2, EntryWritten
<1>4. /\ spw' \in WorkerType /\ spw'.pc = spw.pc /\ spw'.cluster = spw.cluster
      /\ spw'.target = spw.target /\ spw'.copy = spw.copy
      /\ spw'.fresh => spw.fresh /\ spw.pc # m
  BY <1>1, <1>2 DEF WorkerType
<1>5. WorkerInv'
  <2>1. spw'.pc \in Maps /\ spw'.fresh => spw'.copy = maps'[spw'.pc]
    BY <1>3, <1>4 DEF IdentityInv, WorkerInv
  <2>2. spw'.pc \in Enrolling => maps'["kubeconfigs"][spw'.cluster] # "none"
    BY <1>2, <1>3, <1>4 DEF IdentityInv, WorkerInv, KeepsEntries, Enrolling
  <2> QED BY <1>4, <2>1, <2>2 DEF IdentityInv, WorkerInv
<1>6. Listed'
  <2> SUFFICES ASSUME NEW c \in Clusters, maps'["clusters"][c] # "none"
               PROVE  maps'["kubeconfigs"][c] # "none"
    BY DEF Listed
  <2>1. c # "other"
    BY BootstrapConstants
  <2>2. maps["clusters"][c] # "none"
    BY <1>2, <1>3, <2>1
  <2> QED BY <1>2, <1>3, <2>2 DEF IdentityInv, Listed, KeepsEntries
<1>7. \A n \in Maps : n \in synced' => seen'[n] = maps'[n]
  BY <1>1, <1>3 DEF IdentityInv
<1> QED BY <1>1, <1>3, <1>5, <1>6, <1>7 DEF IdentityInv

(* The informer catches up with one of the ConfigMaps.                      *)
LEMMA IdentitySync ==
    ASSUME NEW m \in Maps, IdentityInv, Spire!CacheSync(m)
    PROVE  IdentityInv' /\ KeepsEntries
<1>1. /\ synced' = synced \union {m} /\ seen' = [seen EXCEPT ![m] = maps[m]]
      /\ UNCHANGED <<creds, requests, maps, spw>>
  BY DEF Spire!CacheSync
<1>2. seen' \in [Maps -> Entries] /\ \A n \in Maps : n \in synced' => seen'[n] = maps'[n]
  BY <1>1 DEF IdentityInv
<1>3. WorkerInv'
  BY <1>1 DEF IdentityInv, WorkerInv
<1>4. Listed' /\ KeepsEntries
  BY <1>1 DEF IdentityInv, Listed, KeepsEntries
<1> QED BY <1>1, <1>2, <1>3, <1>4 DEF IdentityInv

(* The manager restarts, with a new cache and a request for every cluster.  *)
LEMMA IdentityCrash ==
    ASSUME IdentityInv, Spire!Crash
    PROVE  IdentityInv' /\ KeepsEntries
<1>1. /\ spw' = NoWork /\ requests' \in Orders /\ seen' = maps /\ UNCHANGED <<creds, maps>>
  BY DEF Spire!Crash, Spire!SpIdle, Spire!NoData, NoWork, NoEntries, Keys
<1>2. requests' \in Seq(Clusters)
  BY <1>1, OrdersAssumption
<1>3. WorkerInv'
  BY <1>1, IdleInv
<1>4. Listed' /\ KeepsEntries
  BY <1>1 DEF IdentityInv, Listed, KeepsEntries
<1> QED BY <1>1, <1>2, <1>3, <1>4 DEF IdentityInv

-----------------------------------------------------------------------------
(* The next request is taken up, is put at the end again, or is dropped.    *)
LEMMA IdentityGet ==
    ASSUME IdentityInv, Spire!GetCluster \/ Spire!GetClusterTooEarly
    PROVE  IdentityInv' /\ KeepsEntries
<1>0. requests \in Seq(Clusters) /\ requests # <<>> /\ creds \subseteq Clusters
  BY DEF IdentityInv, Spire!GetCluster, Spire!GetClusterTooEarly
<1>1. /\ Head(requests) \in Clusters /\ Tail(requests) \in Seq(Clusters)
      /\ Append(Tail(requests), Head(requests)) \in Seq(Clusters)
  BY <1>0
<1>2. /\ UNCHANGED <<maps, seen, synced, creds>>
      /\ requests' \in {Tail(requests), Append(Tail(requests), Head(requests))}
      /\ \/ spw' = spw \/ spw' = NoWork
         \/ spw' = [NoWork EXCEPT !.pc = "client", !.cluster = Head(requests),
                                  !.todo = NameIn[Head(requests)] \intersect creds]
  BY DEF Spire!GetCluster, Spire!GetClusterTooEarly, Spire!Keeps, Spire!SpIdle, Spire!NoData,
         NoWork, NoEntries, Keys
<1>3. WorkerInv'
  <2>1. CASE spw' = spw
    BY <1>2, <2>1 DEF IdentityInv, WorkerInv
  <2>2. CASE spw' = NoWork
    BY <2>2, IdleInv
  <2>3. CASE spw' = [NoWork EXCEPT !.pc = "client", !.cluster = Head(requests),
                                   !.todo = NameIn[Head(requests)] \intersect creds]
    <3>1. NoWork \in WorkerType /\ NameIn[Head(requests)] \intersect creds \subseteq Clusters
      BY <1>0, IdleWorker
    <3>2. spw' \in WorkerType /\ spw'.pc = "client" /\ spw'.cluster \in Clusters
      BY <1>1, <2>3, <3>1 DEF WorkerType
    <3> QED BY <3>2 DEF WorkerInv, Maps, Enrolling
  <2> QED BY <1>2, <2>1, <2>2, <2>3
<1> QED BY <1>1, <1>2, <1>3, IdentityCall

(* A cluster that is ready is worked on.                                    *)
LEMMA IdentityClient ==
    ASSUME IdentityInv, Spire!GetClusterClient
    PROVE  IdentityInv' /\ KeepsEntries
<1>1. /\ spw.pc = "client" /\ UNCHANGED <<maps, seen, synced, creds>>
      /\ \/ \E d \in spw.todo :
              spw' = [spw EXCEPT !.pc = "create", !.target = d] /\ requests' = requests
         \/ spw' = NoWork /\ requests' \in {requests, Append(requests, spw.cluster)}
  BY DEF Spire!GetClusterClient, Spire!Requeue, Spire!Add, Spire!Keeps, Spire!SpIdle,
         Spire!NoData, NoWork, NoEntries, Keys
<1>2. ASSUME NEW d \in spw.todo, spw' = [spw EXCEPT !.pc = "create", !.target = d]
      PROVE  WorkerInv'
  <2>1. spw \in WorkerType /\ d \in Clusters /\ spw.cluster \in Clusters
    BY <1>1 DEF IdentityInv, WorkerInv, WorkerType
  <2>2. /\ spw' \in WorkerType /\ spw'.pc = "create" /\ spw'.cluster = spw.cluster
        /\ spw'.target = d
    BY <1>2, <2>1 DEF WorkerType
  <2> QED BY <2>1, <2>2 DEF WorkerInv, Maps, Enrolling
<1>3. WorkerInv' /\ requests' \in Seq(Clusters)
  <2>1. requests \in Seq(Clusters)
    BY DEF IdentityInv
  <2> QED BY <1>1, <1>2, <2>1, Returned
<1> QED BY <1>1, <1>3, IdentityCall

(* A ConfigMap is read: its copy has the latest version if the cache has.   *)
LEMMA IdentityCopy ==
    ASSUME IdentityInv, UNCHANGED <<maps, seen, synced, creds, requests>>,
           spw.pc \notin {"idle", "client"}, NEW m \in Maps, m \in Enrolling => spw.pc \in Enrolling,
           spw' = [spw EXCEPT !.pc = m, !.copy = seen[m], !.fresh = m \in synced]
    PROVE  IdentityInv' /\ KeepsEntries
<1>1. spw \in WorkerType /\ seen[m] \in Entries /\ m \in {"kubeconfigs", "clusters"}
  BY DEF IdentityInv, WorkerInv, Maps
<1>2. /\ spw' \in WorkerType /\ spw'.pc = m /\ spw'.cluster = spw.cluster
      /\ spw'.target = spw.target /\ spw'.copy = seen[m] /\ (spw'.fresh => m \in synced)
  <2>0. (m \in synced) \in BOOLEAN
    OBVIOUS
  <2>1. PICK f \in BOOLEAN : f = (m \in synced)
    BY <2>0, Zenon
  <2>2. spw' = [spw EXCEPT !.pc = m, !.copy = seen[m], !.fresh = f]
    BY <2>1
  <2> QED BY <1>1, <2>1, <2>2 DEF WorkerType
<1>3. m \in synced => seen[m] = maps'[m]
  BY DEF IdentityInv
<1>4. WorkerInv'
  <2>1. spw'.cluster \in Clusters /\ spw'.target \in Clusters
    BY <1>2 DEF IdentityInv, WorkerInv
  <2>2. m \in Enrolling => maps'["kubeconfigs"][spw'.cluster] # "none"
    BY <1>2 DEF IdentityInv, WorkerInv
  <2> QED BY <1>2, <1>3, <2>1, <2>2 DEF WorkerInv
<1>5. requests' \in Seq(Clusters)
  BY DEF IdentityInv
<1> QED BY <1>4, <1>5, IdentityCall

(* createKubeconfigConfigMap and updateClusterListConfigMap.                *)
LEMMA IdentityRead ==
    ASSUME IdentityInv, Spire!createKubeconfigConfigMap \/ Spire!updateClusterListConfigMap
    PROVE  IdentityInv' /\ KeepsEntries
<1>1. CASE Spire!createKubeconfigConfigMap
  <2>1. /\ spw.pc = "create" /\ UNCHANGED <<maps, seen, synced, creds>>
        /\ \/ /\ spw' = [spw EXCEPT !.pc = "kubeconfigs", !.copy = seen["kubeconfigs"],
                                    !.fresh = "kubeconfigs" \in synced]
              /\ requests' = requests
           \/ spw' = NoWork /\ requests' \in {requests, Append(requests, spw.cluster)}
    BY <1>1 DEF Spire!createKubeconfigConfigMap, Spire!Copy, Spire!Requeue, Spire!Add,
                Spire!Keeps, Spire!SpIdle, Spire!NoData, NoWork, NoEntries, Keys
  <2>2. "kubeconfigs" \in Maps \ Enrolling
    BY DEF Maps, Enrolling
  <2> QED BY <2>1, <2>2, IdentityCopy, Returned, IdentityCall
<1>2. CASE Spire!updateClusterListConfigMap
  <2>1. /\ spw.pc = "list" /\ UNCHANGED <<maps, seen, synced, creds, requests>>
        /\ \/ spw' = [spw EXCEPT !.pc = "clusters", !.copy = seen["clusters"],
                                 !.fresh = "clusters" \in synced]
           \/ spw' = [spw EXCEPT !.pc = "namespace"]
    BY <1>2 DEF Spire!updateClusterListConfigMap, Spire!Copy, Spire!Goto, Spire!Keeps
  <2>2. "clusters" \in Maps /\ "list" \in Enrolling /\ "namespace" \in Enrolling \ Maps
    BY DEF Maps, Enrolling
  <2> QED BY <2>1, <2>2, IdentityCopy, WentOn
<1> QED BY <1>1, <1>2

(* The Update of a ConfigMap, whether or not Reconcile hears of it: the     *)
(* entry of its cluster is added to the latest version.                     *)
LEMMA IdentityWrite ==
    ASSUME IdentityInv, UNCHANGED <<seen, creds>>, NEW m \in Maps, spw.pc = m, spw.fresh,
           NEW v \in Clusters,
           maps' = [maps EXCEPT ![m] = [spw.copy EXCEPT ![spw.cluster] = v]],
           synced' = synced \ {m}, requests' \in Seq(Clusters),
           WorkerInv' \/ (m = "kubeconfigs" /\ spw' = [spw EXCEPT !.pc = "list"])
                      \/ (m = "clusters" /\ spw' = [spw EXCEPT !.pc = "namespace"])
    PROVE  IdentityInv' /\ KeepsEntries
<1>0. PICK k \in Clusters : k = spw.cluster
  BY DEF IdentityInv, WorkerInv, Maps
<1>1. /\ maps \in [Maps -> Entries] /\ spw \in WorkerType /\ k \in Keys
      /\ v \in Keys /\ spw.target \in Clusters /\ spw.copy = maps[m]
      /\ "kubeconfigs" \in Maps /\ "clusters" \in Maps /\ Clusters \subseteq Keys
      /\ m \in {"kubeconfigs", "clusters"}
  BY DEF IdentityInv, WorkerInv, Keys, Maps
<1>2. maps' = [maps EXCEPT ![m] = [maps[m] EXCEPT ![k] = v]]
  BY <1>0, <1>1
<1>3. /\ maps' \in [Maps -> Entries] /\ KeepsEntries /\ maps'[m][k] # "none"
      /\ \A n \in Maps \ {m} : maps'[n] = maps[n]
      /\ \A j \in Keys \ {k} : maps'[m][j] = maps[m][j]
  BY ONLY <1>1, <1>2, m \in Maps, v \in Clusters, EntryWritten
<1>4. m = "clusters" => maps["kubeconfigs"][k] # "none"
  <2>1. m = "clusters" => spw.pc \in Enrolling
    BY DEF Enrolling
  <2>2. spw.pc \in Enrolling => maps["kubeconfigs"][spw.cluster] # "none"
    BY DEF IdentityInv, WorkerInv
  <2> QED BY <1>0, <2>1, <2>2
<1>5. maps'["kubeconfigs"][k] # "none"
  BY <1>1, <1>3, <1>4 DEF KeepsEntries
<1>6. Listed'
  <2> SUFFICES ASSUME NEW c \in Clusters, maps'["clusters"][c] # "none"
               PROVE  maps'["kubeconfigs"][c] # "none"
    BY DEF Listed
  <2>1. CASE c = k
    BY <1>5, <2>1
  <2>2. CASE c # k
    <3>1. maps["clusters"][c] # "none"
      BY <1>1, <1>3, <2>2
    <3> QED BY <1>1, <1>3, <3>1 DEF IdentityInv, Listed, KeepsEntries
  <2> QED BY <2>1, <2>2
<1>7. WorkerInv'
  <2> SUFFICES ASSUME NEW p \in {"list", "namespace"}, spw' = [spw EXCEPT !.pc = p]
               PROVE  WorkerInv'
    OBVIOUS
  <2>1. /\ spw' \in WorkerType /\ spw'.pc = p /\ spw'.cluster = k /\ spw'.target = spw.target
    BY <1>0, <1>1 DEF WorkerType
  <2> QED BY <1>1, <1>5, <2>1 DEF WorkerInv, Maps
<1>8. \A n \in Maps : n \in synced' => seen'[n] = maps'[n]
  BY <1>3 DEF IdentityInv
<1> QED BY <1>3, <1>6, <1>7, <1>8 DEF IdentityInv

(* UpdateKubeconfigs comes before UpdateClusterList.                        *)
LEMMA IdentityUpdate ==
    ASSUME IdentityInv, Spire!UpdateKubeconfigs \/ Spire!UpdateClusterList
    PROVE  IdentityInv' /\ KeepsEntries
<1>0. /\ spw.cluster \in Clusters \/ spw.pc = "idle"
      /\ spw.target \in Clusters \/ spw.pc \in {"idle", "client"}
      /\ requests \in Seq(Clusters) /\ spw \in WorkerType /\ maps \in [Maps -> Entries]
      /\ spw.pc \in Maps /\ spw.fresh => spw.copy = maps[spw.pc]
      /\ spw.pc \in Enrolling => maps["kubeconfigs"][spw.cluster] # "none"
  BY DEF IdentityInv, WorkerInv
<1>1. ASSUME NEW m \in Maps, NEW v \in Clusters, NEW p, spw.pc = m,
             m = "kubeconfigs" => p = "list", m = "clusters" => p = "namespace",
             UNCHANGED <<creds, seen>>,
             \/ /\ spw.fresh /\ spw' = [spw EXCEPT !.pc = p] /\ UNCHANGED <<requests, maps, synced>>
                /\ spw.copy[spw.cluster] = v
             \/ /\ spw.fresh /\ spw' = [spw EXCEPT !.pc = p] /\ UNCHANGED requests
                /\ maps' = [maps EXCEPT ![m] = [spw.copy EXCEPT ![spw.cluster] = v]]
                /\ synced' = synced \ {m}
             \/ /\ spw' = NoWork /\ requests' \in {requests, Append(requests, spw.cluster)}
                /\ UNCHANGED <<maps, synced>>
      PROVE  IdentityInv' /\ KeepsEntries
  <2>0. m \in {"kubeconfigs", "clusters"} /\ spw.pc \notin {"idle", "client"}
    BY <1>1 DEF Maps
  <2>1. CASE /\ spw.fresh /\ spw' = [spw EXCEPT !.pc = p] /\ UNCHANGED <<requests, maps, synced>>
             /\ spw.copy[spw.cluster] = v
    <3>1. /\ spw' \in WorkerType /\ spw'.pc = p /\ spw'.cluster = spw.cluster
          /\ spw'.target = spw.target
      BY <1>0, <1>1, <2>0, <2>1 DEF WorkerType
    <3>2. m = "kubeconfigs" => maps["kubeconfigs"][spw.cluster] # "none"
      BY <1>0, <1>1, <2>1, BootstrapConstants
    <3>3. m = "clusters" => maps["kubeconfigs"][spw.cluster] # "none"
      BY <1>0, <1>1 DEF Enrolling
    <3>4. WorkerInv'
      BY <1>0, <1>1, <2>0, <2>1, <3>1, <3>2, <3>3 DEF WorkerInv, Maps
    <3> QED BY <1>0, <1>1, <2>1, <3>4, IdentityCall
  <2>2. CASE /\ spw.fresh /\ spw' = [spw EXCEPT !.pc = p] /\ UNCHANGED requests
             /\ maps' = [maps EXCEPT ![m] = [spw.copy EXCEPT ![spw.cluster] = v]]
             /\ synced' = synced \ {m}
    BY <1>0, <1>1, <2>0, <2>2, IdentityWrite
  <2>3. CASE /\ spw' = NoWork /\ requests' \in {requests, Append(requests, spw.cluster)}
             /\ UNCHANGED <<maps, synced>>
    BY <1>1, <2>0, <2>3, Returned, IdentityCall
  <2> QED BY <1>1, <2>1, <2>2, <2>3
<1>2. CASE Spire!UpdateKubeconfigs
  <2>1. PICK v \in Clusters : v = spw.target
    BY <1>0, <1>2 DEF Spire!UpdateKubeconfigs, Spire!Update
  <2>2. /\ spw.pc = "kubeconfigs" /\ UNCHANGED <<creds, seen>>
        /\ \/ /\ spw.fresh /\ spw' = [spw EXCEPT !.pc = "list"]
              /\ UNCHANGED <<requests, maps, synced>> /\ spw.copy[spw.cluster] = v
           \/ /\ spw.fresh /\ spw' = [spw EXCEPT !.pc = "list"] /\ UNCHANGED requests
              /\ maps' = [maps EXCEPT !["kubeconfigs"] = [spw.copy EXCEPT ![spw.cluster] = v]]
              /\ synced' = synced \ {"kubeconfigs"}
           \/ /\ spw' = NoWork /\ requests' \in {requests, Append(requests, spw.cluster)}
              /\ UNCHANGED <<maps, synced>>
    BY <1>2, <2>1 DEF Spire!UpdateKubeconfigs, Spire!Update, Spire!Goto, Spire!Write,
         Spire!Requeue, Spire!Add, Spire!Keeps, Spire!SpIdle, Spire!NoData, NoWork, NoEntries, Keys
  <2>3. "kubeconfigs" \in Maps
    BY DEF Maps
  <2> QED BY ONLY <1>1, <2>2, <2>3, v \in Clusters
<1>3. CASE Spire!UpdateClusterList
  <2>1. PICK v \in Clusters : v = spw.cluster
    BY <1>0, <1>3 DEF Spire!UpdateClusterList, Spire!Update
  <2>2. /\ spw.pc = "clusters" /\ UNCHANGED <<creds, seen>>
        /\ \/ /\ spw.fresh /\ spw' = [spw EXCEPT !.pc = "namespace"]
              /\ UNCHANGED <<requests, maps, synced>> /\ spw.copy[spw.cluster] = v
           \/ /\ spw.fresh /\ spw' = [spw EXCEPT !.pc = "namespace"] /\ UNCHANGED requests
              /\ maps' = [maps EXCEPT !["clusters"] = [spw.copy EXCEPT ![spw.cluster] = v]]
              /\ synced' = synced \ {"clusters"}
           \/ /\ spw' = NoWork /\ requests' \in {requests, Append(requests, spw.cluster)}
              /\ UNCHANGED <<maps, synced>>
    BY <1>3, <2>1 DEF Spire!UpdateClusterList, Spire!Update, Spire!Goto, Spire!Write,
         Spire!Requeue, Spire!Add, Spire!Keeps, Spire!SpIdle, Spire!NoData, NoWork, NoEntries, Keys
  <2>3. "clusters" \in Maps
    BY DEF Maps
  <2> QED BY ONLY <1>1, <2>2, <2>3, v \in Clusters
<1> QED BY <1>2, <1>3

(* The trust bundle and the configuration of the agent.                     *)
LEMMA IdentityAgent ==
    ASSUME IdentityInv, Spire!GetNamespace \/ Spire!ApplyBundle \/ Spire!ApplyAgentConf
    PROVE  IdentityInv' /\ KeepsEntries
<1>1. /\ spw.pc \in {"namespace", "bundle", "agent"} /\ UNCHANGED <<maps, seen, synced, creds>>
      /\ \/ \E p \in {"bundle", "agent"} : spw' = [spw EXCEPT !.pc = p] /\ requests' = requests
         \/ spw' = NoWork /\ requests' \in {requests, Append(requests, spw.cluster)}
         \/ /\ spw' = [spw EXCEPT !.pc = "client", !.todo = @ \ {spw.target}, !.target = "none"]
            /\ requests' = requests
  BY DEF Spire!GetNamespace, Spire!ApplyBundle, Spire!ApplyAgentConf, Spire!Goto, Spire!Return,
         Spire!Requeue, Spire!Add, Spire!Keeps, Spire!SpIdle, Spire!NoData, NoWork, NoEntries, Keys
<1>2. CASE \E p \in {"bundle", "agent"} : spw' = [spw EXCEPT !.pc = p] /\ requests' = requests
  <2>1. spw.pc \in Enrolling /\ {"bundle", "agent"} \subseteq Enrolling \ Maps
    BY <1>1 DEF Enrolling, Maps
  <2> QED BY <1>1, <1>2, <2>1, WentOn
<1>3. CASE spw' = NoWork /\ requests' \in {requests, Append(requests, spw.cluster)}
  BY <1>1, <1>3, Returned, IdentityCall
<1>4. CASE /\ spw' = [spw EXCEPT !.pc = "client", !.todo = @ \ {spw.target}, !.target = "none"]
           /\ requests' = requests
  <2>1. spw \in WorkerType /\ spw.cluster \in Clusters /\ requests' \in Seq(Clusters)
    BY <1>1, <1>4 DEF IdentityInv, WorkerInv
  <2>2. spw' \in WorkerType /\ spw'.pc = "client" /\ spw'.cluster = spw.cluster
    BY <1>4, <2>1 DEF WorkerType
  <2>3. WorkerInv'
    BY <2>1, <2>2 DEF WorkerInv, Maps, Enrolling
  <2> QED BY <1>1, <2>1, <2>3, IdentityCall
<1> QED BY <1>1, <1>2, <1>3, <1>4

(* A call fails, after the Update was carried out or before.                *)
LEMMA IdentityFails ==
    ASSUME IdentityInv, Spire!CallFails
    PROVE  IdentityInv' /\ KeepsEntries
<1>1. /\ spw.pc # "idle" /\ UNCHANGED <<seen, creds>>
      /\ spw' = NoWork /\ requests' \in {requests, Append(requests, spw.cluster)}
      /\ \/ UNCHANGED <<maps, synced>>
         \/ /\ spw.pc \in Maps /\ spw.fresh /\ synced' = synced \ {spw.pc}
            /\ LET of == IF spw.pc = "clusters" THEN spw.cluster ELSE spw.target
               IN  maps' = [maps EXCEPT ![spw.pc] = [spw.copy EXCEPT ![spw.cluster] = of]]
  BY DEF Spire!CallFails, Spire!Write, Spire!Requeue, Spire!Add, Spire!Keeps, Spire!SpIdle,
         Spire!NoData, Spire!Maps, NoWork, NoEntries, Keys, Maps
<1>2. WorkerInv' /\ requests' \in Seq(Clusters)
  BY <1>1, Returned
<1>3. CASE UNCHANGED <<maps, synced>>
  BY <1>1, <1>2, <1>3, IdentityCall
<1>4. CASE /\ spw.pc \in Maps /\ spw.fresh /\ synced' = synced \ {spw.pc}
           /\ LET of == IF spw.pc = "clusters" THEN spw.cluster ELSE spw.target
              IN  maps' = [maps EXCEPT ![spw.pc] = [spw.copy EXCEPT ![spw.cluster] = of]]
  <2>1. PICK m \in Maps : m = spw.pc
    BY <1>4
  <2>2. PICK v \in Clusters : v = IF spw.pc = "clusters" THEN spw.cluster ELSE spw.target
    BY <1>1, <1>4 DEF IdentityInv, WorkerInv, Maps
  <2>3. /\ spw.pc = m /\ spw.fresh /\ synced' = synced \ {m}
        /\ maps' = [maps EXCEPT ![m] = [spw.copy EXCEPT ![spw.cluster] = v]]
    BY <1>4, <2>1, <2>2
  <2> QED BY ONLY IdentityInv, <1>1, <1>2, <2>3, m \in Maps, v \in Clusters, IdentityWrite
<1> QED BY <1>1, <1>3, <1>4

-----------------------------------------------------------------------------
(* workloadidentity keeps its invariant, and every entry.                   *)
LEMMA IdentityStep ==
    ASSUME IdentityInv, Spire!Next
    PROVE  IdentityInv' /\ KeepsEntries
<1>1. CASE (\E c \in Clusters : Spire!MakeCluster(c) \/ Spire!SetReady(c) \/ Spire!InstallAgent(c))
             \/ Spire!StartServer
  BY <1>1, IdentityUsers
<1>2. CASE \E m \in Maps : Spire!WriteOther(m) \/ Spire!CacheSync(m)
  BY <1>2, IdentityOther, IdentitySync
<1>3. CASE Spire!Crash \/ Spire!CallFails
  BY <1>3, IdentityCrash, IdentityFails
<1>4. CASE Spire!GetCluster \/ Spire!GetClusterTooEarly \/ Spire!GetClusterClient
  BY <1>4, IdentityGet, IdentityClient
<1>5. CASE Spire!createKubeconfigConfigMap \/ Spire!updateClusterListConfigMap
             \/ Spire!UpdateKubeconfigs \/ Spire!UpdateClusterList
  BY <1>5, IdentityRead, IdentityUpdate
<1>6. CASE Spire!GetNamespace \/ Spire!ApplyBundle \/ Spire!ApplyAgentConf
  BY <1>6, IdentityAgent
<1> QED BY <1>1, <1>2, <1>3, <1>4, <1>5, <1>6 DEF Spire!Next, Spire!Reconcile, Spire!Maps, Maps

(* The manager starts with nothing enrolled.                                *)
LEMMA IdentityInitial == ManagerInit => IdentityInv
<1> SUFFICES ASSUME ManagerInit PROVE IdentityInv
  OBVIOUS
<1>1. /\ creds = {} /\ maps = [m \in Maps |-> NoEntries] /\ seen = maps /\ spw = NoWork
      /\ requests \in Orders \union {<<>>}
  BY DEF ManagerInit, Spire!InitWith, Spire!Maps, Spire!SpIdle, Spire!NoData, NoWork, NoEntries,
         Keys, Maps
<1>2. requests \in Seq(Clusters)
  <2>1. \A o \in Orders : o \in Seq(Clusters)
    BY OrdersAssumption
  <2>2. <<>> \in Seq(Clusters)
    OBVIOUS
  <2> QED BY <1>1, <2>1, <2>2
<1>3. maps \in [Maps -> Entries]
  BY <1>1, IdleWorker
<1>4. WorkerInv
  BY <1>1, IdleWorker DEF WorkerInv, Maps, Enrolling
<1>5. Listed
  BY <1>1 DEF Listed, Maps, NoEntries, Keys
<1> QED BY <1>1, <1>2, <1>3, <1>4, <1>5 DEF IdentityInv

(* bootstrap-secret and bootstrap-packages share only the clusters with it. *)
LEMMA BootstrapElsewhere ==
    ASSUME IdentityInv, Next, UNCHANGED identityVars
    PROVE  IdentityInv' /\ KeepsEntries
<1>1. UNCHANGED <<maps, seen, synced, spw, requests>>
  BY DEF identityVars
<1>2. creds' = creds \/ \E c \in Clusters : creds' = creds \union {c}
  <2>1. CASE EditSecret \/ Crash \/ SecretCallFails \/ PackageCallFails
    BY <2>1 DEF EditSecret, Crash, SecretCallFails, PackageCallFails, inventory
  <2>2. ASSUME NEW c \in Clusters, Publish(c) \/ MakeCluster(c) \/ SetReady(c)
        PROVE  creds' = creds \/ creds' = creds \union {c}
    BY <2>2 DEF Publish, MakeCluster, SetReady
  <2>3. CASE ReconcileSecret
    BY <2>3 DEF ReconcileSecret, GetSecret, FindCluster, GetClusterClient, GetNamespace,
                ApplySecret, SKeeps, inventory
  <2>4. CASE ReconcilePackage
    BY <2>4 DEF ReconcilePackage, GetPackage, getPrResources, FindPackageCluster,
                GetPackageClient, ApplyResource, PKeeps, inventory
  <2> QED BY <2>1, <2>2, <2>3, <2>4 DEF Next
<1>3. creds' \subseteq Clusters /\ requests' \in Seq(Clusters)
  BY <1>1, <1>2 DEF IdentityInv
<1> QED BY <1>1, <1>3, IdentityElsewhere

(* Every step of the manager keeps the invariant and the entries.           *)
LEMMA ManagerKeepsIdentity ==
    ASSUME IdentityInv, [ManagerNext]_allVars
    PROVE  IdentityInv' /\ KeepsEntries
<1>1. CASE Next /\ UNCHANGED identityVars
  BY <1>1, BootstrapElsewhere
<1>2. CASE Spire!Next
  BY <1>2, IdentityStep
<1>3. CASE UNCHANGED allVars
  <2>1. UNCHANGED <<maps, seen, synced, spw, creds, requests>>
    BY <1>3 DEF allVars, vars, inventory, identityVars
  <2>2. creds' \subseteq Clusters /\ requests' \in Seq(Clusters)
    BY <2>1 DEF IdentityInv
  <2> QED BY <2>1, <2>2, IdentityElsewhere
<1> QED BY <1>1, <1>2, <1>3 DEF ManagerNext

(* The list for the SPIRE server names a cluster only if its kubeconfig is  *)
(* there, for any clusters, whatever fails between the two Updates, and     *)
(* whoever else writes to the two ConfigMaps.                               *)
THEOREM ListedClustersHaveKubeconfig == ManagerSpec => []ListedHasKubeconfig
<1>1. IdentityInv /\ [ManagerNext]_allVars => IdentityInv'
  BY ManagerKeepsIdentity
<1>2. IdentityInv => ListedHasKubeconfig
  BY DEF IdentityInv, Listed, ListedHasKubeconfig, Spire!ListedHasKubeconfig
<1> QED BY IdentityInitial, <1>1, <1>2, PTL DEF ManagerSpec

(* No Update of workloadidentity, and nothing else in the manager, loses an *)
(* entry of the two ConfigMaps that others have written in the meantime.    *)
THEOREM NoEntryLost == ManagerSpec => EntriesKept
<1>1. IdentityInv /\ [ManagerNext]_allVars => IdentityInv'
  BY ManagerKeepsIdentity
<1>2. IdentityInv /\ [ManagerNext]_allVars =>
        [\A m \in Spire!Maps : \A k \in DOMAIN Spire!NoData :
           maps[m][k] # "none" => maps'[m][k] # "none"]_(Spire!vars)
  <2> SUFFICES ASSUME IdentityInv, [ManagerNext]_allVars
               PROVE  \A m \in Spire!Maps : \A k \in DOMAIN Spire!NoData :
                        maps[m][k] # "none" => maps'[m][k] # "none"
    OBVIOUS
  <2>1. KeepsEntries
    BY ManagerKeepsIdentity
  <2> QED BY <2>1 DEF KeepsEntries, Keys, Maps, Spire!Maps, Spire!NoData
<1> QED BY IdentityInitial, <1>1, <1>2, PTL DEF ManagerSpec, EntriesKept, Spire!EntriesKept

-----------------------------------------------------------------------------
(* bootstrap-secret and bootstrap-packages: the credentials they go on with *)
(* are some that were found under the name of the cluster.                  *)
SecretInv ==
    /\ secret \in [here : BOOLEAN, version : Nat, list : Seq(Clusters)]
    /\ copied \in [Clusters -> Nat]
    /\ sw \in [pc : {"idle", "find", "client", "namespace", "apply"}, version : Nat,
               list : Seq(Clusters), target : Clusters \union {"none"}]
    /\ sw.pc # "idle" => sw.list # <<>>
    /\ sw.pc \in {"client", "namespace", "apply"} => sw.target \in NameIn[Head(sw.list)]

PackageInv ==
    /\ installed \in [Clusters -> SUBSET Resources]
    /\ pw \in [pc : {"idle", "read", "find", "client", "apply"}, pkg : Clusters \union {"none"},
               target : Clusters \union {"none"}, todo : SUBSET Resources]
    /\ pw.pc # "idle" => pw.pkg \in Clusters
    /\ pw.pc \in {"client", "apply"} => pw.target \in NameIn[pw.pkg]

(* What a step may do to the workload clusters.                             *)
CopiesToNamed ==
    \A d \in Clusters : copied'[d] # copied[d] =>
      Head(sw.list) \in Clusters /\ d \in NameIn[Head(sw.list)]

InstallsInNamed ==
    \A d \in Clusters : installed'[d] # installed[d] => pw.pkg \in Clusters /\ d \in NameIn[pw.pkg]

(* The list of a Secret, and what is left of one that goes on.              *)
LEMMA ListOfClusters ==
    \A l \in Lists \union {<<>>} : l \in Seq(Clusters)
<1>1. \A l \in Lists : l \in Seq(Clusters)
  BY BootstrapConstants
<1>2. <<>> \in Seq(Clusters)
  OBVIOUS
<1> QED BY <1>1, <1>2

LEMMA RestOfList ==
    ASSUME NEW l \in Seq(Clusters), l # <<>>, Len(l) # 1
    PROVE  Tail(l) \in Seq(Clusters) /\ Tail(l) # <<>>
<1>1. Tail(l) \in Seq(Clusters) /\ Len(Tail(l)) = Len(l) - 1
  OBVIOUS
<1>2. SUFFICES ASSUME Tail(l) = <<>> PROVE FALSE
  BY <1>1
<1>3. Len(<<>>) = 0 /\ Len(l) \in Nat
  OBVIOUS
<1>4. Len(Tail(l)) = 0
  BY <1>2, <1>3, Zenon
<1>5. PICK n \in Nat : n = Len(l)
  BY <1>3
<1>6. n - 1 = 0
  BY <1>1, <1>4, <1>5, Zenon
<1>7. n = 1
  BY <1>6
<1> QED BY <1>5, <1>7, Zenon

(* Names are looked up among the clusters.                                  *)
LEMMA NamedClusters ==
    ASSUME NEW c \in Clusters
    PROVE  Credentials(c) \subseteq NameIn[c] /\ NameIn[c] \subseteq Clusters
BY BootstrapConstants DEF Credentials

(* The two Reconciles when they are idle.                                   *)
LEMMA IdleBootstrap ==
    /\ SIdle \in [pc : {"idle", "find", "client", "namespace", "apply"}, version : Nat,
                  list : Seq(Clusters), target : Clusters \union {"none"}]
    /\ PIdle \in [pc : {"idle", "read", "find", "client", "apply"},
                  pkg : Clusters \union {"none"}, target : Clusters \union {"none"},
                  todo : SUBSET Resources]
    /\ SIdle.pc = "idle" /\ PIdle.pc = "idle"
<1>1. <<>> \in Seq(Clusters) /\ 1 \in Nat
  OBVIOUS
<1>2. SIdle \in [pc : {"idle", "find", "client", "namespace", "apply"}, version : Nat,
                 list : Seq(Clusters), target : Clusters \union {"none"}]
  BY <1>1 DEF SIdle
<1> QED BY <1>2 DEF SIdle, PIdle

(* bootstrap-secret returns.                                                *)
LEMMA SecretReturned ==
    ASSUME SecretInv, sw' = SIdle, UNCHANGED secret, copied' \in [Clusters -> Nat]
    PROVE  SecretInv'
BY IdleBootstrap DEF SecretInv

(* bootstrap-secret goes on with credentials that have the right name.      *)
LEMMA SecretGoes ==
    ASSUME SecretInv, UNCHANGED <<secret, copied>>, sw.pc # "idle",
           NEW p \in {"client", "namespace", "apply"},
           NEW d \in NameIn[Head(sw.list)], SGoto(p, d)
    PROVE  SecretInv'
<1>1. Head(sw.list) \in Clusters
  BY DEF SecretInv
<1>2. d \in Clusters
  BY <1>1, NamedClusters
<1>3. /\ sw' \in [pc : {"idle", "find", "client", "namespace", "apply"}, version : Nat,
                  list : Seq(Clusters), target : Clusters \union {"none"}]
      /\ sw'.pc = p /\ sw'.target = d /\ sw'.list = sw.list
  BY <1>2 DEF SecretInv, SGoto
<1> QED BY <1>3 DEF SecretInv

(* A Reconcile of bootstrap-secret, step by step.                           *)
LEMMA SecretStep ==
    ASSUME SecretInv, ReconcileSecret \/ SecretCallFails
    PROVE  SecretInv' /\ CopiesToNamed
<1>0. secret' = secret /\ (sw.pc # "idle" => Head(sw.list) \in Clusters)
  BY DEF SecretInv, ReconcileSecret, SecretCallFails, GetSecret, FindCluster, GetClusterClient,
         GetNamespace, ApplySecret, SKeeps, inventory
<1>1. CASE GetSecret
  <2>1. copied' = copied
    BY <1>1 DEF GetSecret
  <2>2. CASE secret.here /\ secret.list # <<>>
    <3>1. sw' = [SIdle EXCEPT !.pc = "find", !.version = secret.version, !.list = secret.list]
      BY <1>1, <2>2 DEF GetSecret
    <3>2. secret.version \in Nat /\ secret.list \in Seq(Clusters)
      BY DEF SecretInv
    <3>3. /\ sw' \in [pc : {"idle", "find", "client", "namespace", "apply"}, version : Nat,
                      list : Seq(Clusters), target : Clusters \union {"none"}]
          /\ sw'.pc = "find" /\ sw'.list = secret.list
      BY <3>1, <3>2 DEF SIdle
    <3> QED BY <1>0, <2>1, <2>2, <3>3 DEF SecretInv, CopiesToNamed
  <2>3. CASE ~(secret.here /\ secret.list # <<>>)
    <3>1. sw' = SIdle
      BY <1>1, <2>3 DEF GetSecret
    <3> QED BY <1>0, <2>1, <3>1, SecretReturned DEF SecretInv, CopiesToNamed
  <2> QED BY <2>2, <2>3
<1>2. CASE FindCluster
  <2>1. sw.pc = "find" /\ copied' = copied
    BY <1>2 DEF FindCluster
  <2>2. ASSUME NEW d \in Credentials(Head(sw.list)), SGoto("client", d) PROVE SecretInv'
    BY <1>0, <2>1, <2>2, NamedClusters, SecretGoes
  <2>3. CASE SRequeue
    BY <1>0, <2>1, <2>3, SecretReturned DEF SRequeue, SecretInv, CopiesToNamed
  <2> QED BY <1>2, <2>1, <2>2, <2>3 DEF FindCluster, CopiesToNamed
<1>3. CASE GetClusterClient \/ GetNamespace
  <2>1. /\ sw.pc \in {"client", "namespace"} /\ copied' = copied
        /\ sw.target \in NameIn[Head(sw.list)]
    BY <1>3 DEF GetClusterClient, GetNamespace, SecretInv
  <2>2. PICK d \in NameIn[Head(sw.list)] : d = sw.target
    BY <2>1
  <2>3. SGoto("namespace", d) \/ SGoto("apply", d) \/ sw' = SIdle
    BY <1>3, <2>2 DEF GetClusterClient, GetNamespace, SRequeue
  <2>4. SecretInv'
    BY <1>0, <2>1, <2>3, SecretGoes, SecretReturned DEF SecretInv
  <2> QED BY <2>1, <2>4 DEF CopiesToNamed
<1>4. CASE ApplySecret
  <2>1. /\ sw.pc = "apply" /\ sw.target \in NameIn[Head(sw.list)] /\ sw.version \in Nat
        /\ copied' = [copied EXCEPT ![sw.target] = sw.version] /\ copied \in [Clusters -> Nat]
    BY <1>4 DEF ApplySecret, SecretInv
  <2>2. copied' \in [Clusters -> Nat] /\ CopiesToNamed
    BY <1>0, <2>1 DEF CopiesToNamed
  <2>3. CASE sw' = SIdle
    BY <1>0, <2>2, <2>3, SecretReturned
  <2>4. CASE /\ Len(sw.list) # 1
             /\ sw' = [sw EXCEPT !.pc = "find", !.list = Tail(@), !.target = "none"]
    <3>0. sw.list \in Seq(Clusters) /\ sw.list # <<>> /\ Len(sw.list) # 1
      BY <2>1, <2>4 DEF SecretInv
    <3>1. Tail(sw.list) \in Seq(Clusters) /\ Tail(sw.list) # <<>>
      BY <3>0, RestOfList
    <3>2. /\ sw' \in [pc : {"idle", "find", "client", "namespace", "apply"}, version : Nat,
                      list : Seq(Clusters), target : Clusters \union {"none"}]
          /\ sw'.pc = "find" /\ sw'.list = Tail(sw.list)
      BY <2>4, <3>1 DEF SecretInv
    <3> QED BY <1>0, <2>2, <3>1, <3>2 DEF SecretInv
  <2> QED BY <1>4, <2>3, <2>4 DEF ApplySecret, SReturn
<1>5. CASE SecretCallFails
  BY <1>0, <1>5, SecretReturned DEF SecretCallFails, SRequeue, SecretInv, CopiesToNamed
<1> QED BY <1>1, <1>2, <1>3, <1>4, <1>5 DEF ReconcileSecret

(* bootstrap-packages returns.                                              *)
LEMMA PackageReturned ==
    ASSUME PackageInv, pw' = PIdle, installed' \in [Clusters -> SUBSET Resources]
    PROVE  PackageInv'
BY IdleBootstrap DEF PackageInv

(* bootstrap-packages goes on with credentials that have the right name.    *)
LEMMA PackageGoes ==
    ASSUME PackageInv, installed' \in [Clusters -> SUBSET Resources], pw.pc # "idle",
           NEW p \in {"client", "apply"}, NEW d \in NameIn[pw.pkg],
           NEW rs \in SUBSET Resources, PGoto(p, d, rs)
    PROVE  PackageInv'
<1>1. pw.pkg \in Clusters
  BY DEF PackageInv
<1>2. d \in Clusters
  BY <1>1, NamedClusters
<1>3. /\ pw' \in [pc : {"idle", "read", "find", "client", "apply"},
                  pkg : Clusters \union {"none"}, target : Clusters \union {"none"},
                  todo : SUBSET Resources]
      /\ pw'.pc = p /\ pw'.target = d /\ pw'.pkg = pw.pkg
  BY <1>2 DEF PackageInv, PGoto
<1> QED BY <1>1, <1>3 DEF PackageInv

(* A Reconcile of bootstrap-packages, step by step.                         *)
LEMMA PackageStep ==
    ASSUME PackageInv, ReconcilePackage \/ PackageCallFails
    PROVE  PackageInv' /\ InstallsInNamed
<1>1. ASSUME NEW p \in Clusters, GetPackage(p)
      PROVE  PackageInv' /\ InstallsInNamed
  <2>1. installed' = installed
    BY <1>1 DEF GetPackage
  <2>2. CASE package[p] = "published"
    <3>1. pw' = [PIdle EXCEPT !.pc = "read", !.pkg = p]
      BY <1>1, <2>2 DEF GetPackage
    <3>2. /\ pw' \in [pc : {"idle", "read", "find", "client", "apply"},
                      pkg : Clusters \union {"none"}, target : Clusters \union {"none"},
                      todo : SUBSET Resources]
          /\ pw'.pc = "read" /\ pw'.pkg = p
      BY <3>1 DEF PIdle
    <3> QED BY <2>1, <3>2 DEF PackageInv, InstallsInNamed
  <2>3. CASE package[p] # "published"
    <3>1. pw' = PIdle
      BY <1>1, <2>3 DEF GetPackage
    <3> QED BY <2>1, <3>1, PackageReturned DEF PackageInv, InstallsInNamed
  <2> QED BY <2>2, <2>3
<1>2. CASE getPrResources
  <2>1. installed' = installed /\ pw.pc = "read"
    BY <1>2 DEF getPrResources
  <2>2. CASE PGoto("find", "none", Resources)
    <3>1. /\ pw' \in [pc : {"idle", "read", "find", "client", "apply"},
                      pkg : Clusters \union {"none"}, target : Clusters \union {"none"},
                      todo : SUBSET Resources]
          /\ pw'.pc = "find" /\ pw'.pkg = pw.pkg
      BY <2>2 DEF PGoto, PackageInv
    <3> QED BY <2>1, <3>1 DEF PackageInv, InstallsInNamed
  <2>3. CASE PReturn
    BY <2>1, <2>3, PackageReturned DEF PReturn, PackageInv, InstallsInNamed
  <2> QED BY <1>2, <2>2, <2>3 DEF getPrResources
<1>3. CASE FindPackageCluster \/ GetPackageClient
  <2>1. /\ installed' = installed /\ pw.pc \in {"find", "client"} /\ pw.todo \in SUBSET Resources
        /\ pw.pkg \in Clusters
    BY <1>3 DEF FindPackageCluster, GetPackageClient, PackageInv
  <2>2. PICK rs \in SUBSET Resources : rs = pw.todo
    BY <2>1
  <2>3. \/ \E d \in NameIn[pw.pkg] : PGoto("client", d, rs) \/ PGoto("apply", d, rs)
        \/ pw' = PIdle
    <3>1. CASE FindPackageCluster
      BY <2>1, <2>2, <3>1, NamedClusters DEF FindPackageCluster, PRequeue
    <3>2. CASE GetPackageClient
      BY <2>2, <3>2 DEF GetPackageClient, PRequeue, PackageInv
    <3> QED BY <1>3, <3>1, <3>2
  <2>4. PackageInv'
    BY <2>1, <2>3, PackageGoes, PackageReturned DEF PackageInv
  <2> QED BY <2>1, <2>4 DEF InstallsInNamed
<1>4. ASSUME NEW x \in Resources, ApplyResource(x)
      PROVE  PackageInv' /\ InstallsInNamed
  <2>1. /\ pw.pc = "apply" /\ pw.target \in NameIn[pw.pkg] /\ pw.pkg \in Clusters
        /\ pw.todo \in SUBSET Resources /\ installed \in [Clusters -> SUBSET Resources]
    BY <1>4 DEF ApplyResource, PackageInv
  <2>2. PICK d \in NameIn[pw.pkg] : d = pw.target
    BY <2>1
  <2>3. PICK rs \in SUBSET Resources : rs = pw.todo \ {x}
    BY <2>1
  <2>4. installed' = installed \/ installed' = [installed EXCEPT ![d] = @ \union {x}]
    BY <1>4, <2>2 DEF ApplyResource
  <2>5. pw' = PIdle \/ PGoto("apply", d, rs)
    BY <1>4, <2>2, <2>3 DEF ApplyResource, PReturn, PRequeue
  <2>6. installed' \in [Clusters -> SUBSET Resources] /\ InstallsInNamed
    BY <2>1, <2>4 DEF InstallsInNamed
  <2> QED BY <2>1, <2>5, <2>6, PackageGoes, PackageReturned
<1>5. CASE PackageCallFails
  BY <1>5, PackageReturned DEF PackageCallFails, PRequeue, PackageInv, InstallsInNamed
<1> QED BY <1>1, <1>2, <1>3, <1>4, <1>5 DEF ReconcilePackage

(* Every step of the manager.                                               *)
LEMMA ManagerKeepsTargets ==
    ASSUME SecretInv, PackageInv, [ManagerNext]_allVars
    PROVE  SecretInv' /\ PackageInv' /\ CopiesToNamed /\ InstallsInNamed
<1>1. ASSUME UNCHANGED <<secret, copied, sw>> PROVE SecretInv' /\ CopiesToNamed
  BY <1>1 DEF SecretInv, CopiesToNamed
<1>2. ASSUME UNCHANGED <<installed, pw>> PROVE PackageInv' /\ InstallsInNamed
  BY <1>2 DEF PackageInv, InstallsInNamed
<1>3. CASE EditSecret
  <2>1. UNCHANGED <<installed, copied, sw, pw>>
    BY <1>3 DEF EditSecret, Controllers
  <2>2. secret' \in [here : BOOLEAN, version : Nat, list : Seq(Clusters)]
    <3>1. \/ \E l \in Lists : secret' = [secret EXCEPT !.version = @ + 1, !.list = l]
          \/ secret' = [secret EXCEPT !.here = FALSE]
      BY <1>3 DEF EditSecret
    <3>2. ASSUME NEW l \in Lists, secret' = [secret EXCEPT !.version = @ + 1, !.list = l]
          PROVE  secret' \in [here : BOOLEAN, version : Nat, list : Seq(Clusters)]
      <4>1. l \in Seq(Clusters)
        BY ListOfClusters
      <4>2. PICK h \in BOOLEAN, v \in Nat : secret.here = h /\ secret.version = v
        BY DEF SecretInv
      <4>3. secret' = [here |-> h, version |-> v + 1, list |-> l]
        BY <3>2, <4>2 DEF SecretInv
      <4> QED BY <4>1, <4>3
    <3>3. ASSUME secret' = [secret EXCEPT !.here = FALSE]
          PROVE  secret' \in [here : BOOLEAN, version : Nat, list : Seq(Clusters)]
      BY <3>3 DEF SecretInv
    <3> QED BY <3>1, <3>2, <3>3
  <2> QED BY <1>2, <2>1, <2>2 DEF SecretInv, CopiesToNamed
<1>4. CASE Crash
  BY <1>4, SecretReturned, PackageReturned
     DEF Crash, inventory, SecretInv, PackageInv, CopiesToNamed, InstallsInNamed
<1>5. ASSUME NEW c \in Clusters, Publish(c) \/ MakeCluster(c) \/ SetReady(c)
      PROVE  UNCHANGED <<secret, copied, sw, installed, pw>>
  BY <1>5 DEF Publish, MakeCluster, SetReady, Controllers
<1>6. CASE ReconcileSecret \/ SecretCallFails
  <2>1. UNCHANGED <<installed, pw>>
    BY <1>6 DEF ReconcileSecret, SecretCallFails, GetSecret, FindCluster, GetClusterClient,
                GetNamespace, ApplySecret, SKeeps
  <2> QED BY <1>2, <1>6, <2>1, SecretStep
<1>7. CASE ReconcilePackage \/ PackageCallFails
  <2>1. UNCHANGED <<secret, copied, sw>>
    BY <1>7 DEF ReconcilePackage, PackageCallFails, GetPackage, getPrResources,
                FindPackageCluster, GetPackageClient, ApplyResource, PKeeps, inventory
  <2> QED BY <1>1, <1>7, <2>1, PackageStep
<1>8. CASE UNCHANGED <<secret, package, installed, copied, queue, sw, pw, enabled>>
  BY <1>1, <1>2, <1>8
<1>9. CASE UNCHANGED allVars
  BY <1>1, <1>2, <1>9 DEF allVars, vars, inventory
<1> QED BY <1>1, <1>2, <1>3, <1>4, <1>5, <1>6, <1>7, <1>8, <1>9 DEF ManagerNext, Next

(* Where no name of a cluster is part of the name of another one's secret,  *)
(* each resource and each copy of the Secret goes to the cluster it is      *)
(* meant for, although the Secret may be changed or deleted, clusters made  *)
(* and the manager restarted between the search for the credentials and     *)
(* the call, and another controller runs beside.                            *)
THEOREM MeantCluster ==
    ASSUME \A c \in Clusters : NameIn[c] = {c}
    PROVE  ManagerSpec => RightCluster
<1>1. ManagerInit => SecretInv /\ PackageInv
  <2> SUFFICES ASSUME ManagerInit PROVE SecretInv /\ PackageInv
    OBVIOUS
  <2>1. /\ secret \in [here : {TRUE}, version : {1}, list : Lists \union {<<>>}]
        /\ installed = [c \in Clusters |-> {}] /\ copied = [c \in Clusters |-> 0]
        /\ sw = SIdle /\ pw = PIdle
    BY DEF ManagerInit, InitWith
  <2>2. secret \in [here : BOOLEAN, version : Nat, list : Seq(Clusters)]
    <3>1. PICK l \in Lists \union {<<>>} : secret = [here |-> TRUE, version |-> 1, list |-> l]
      BY <2>1
    <3>2. l \in Seq(Clusters)
      BY ListOfClusters
    <3> QED BY <3>1, <3>2
  <2> QED BY <2>1, <2>2, IdleBootstrap DEF SecretInv, PackageInv
<1>2. SecretInv /\ PackageInv /\ [ManagerNext]_allVars => SecretInv' /\ PackageInv'
  BY ManagerKeepsTargets
<1>3. SecretInv /\ PackageInv /\ [ManagerNext]_allVars =>
        [\A d \in Clusters :
           /\ copied'[d] # copied[d] => d = Head(sw.list)
           /\ installed'[d] # installed[d] => d = pw.pkg]_vars
  BY ManagerKeepsTargets DEF CopiesToNamed, InstallsInNamed
<1> QED BY <1>1, <1>2, <1>3, PTL DEF ManagerSpec, RightCluster
=============================================================================
