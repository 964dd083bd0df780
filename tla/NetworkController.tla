-------------------------- MODULE NetworkController --------------------------
(***************************************************************************)
(* The network controller: a Network stands for the configuration of the   *)
(* devices of a topology.  Reconcile reads the Endpoints and the Nodes of  *)
(* the topology, asks the IPAM and VLAN backends for what they need and    *)
(* writes one configuration resource per device.  A change of an Endpoint  *)
(* is turned into requests for the Networks of its topology.               *)
(*                                                                         *)
(* Networks, Endpoints and Nodes are read from informer caches that lag    *)
(* independently of each other; a write of an old version of a Network is  *)
(* refused.  One worker handles one request at a time; an action is what   *)
(* Reconcile does up to and including its next call.                       *)
(***************************************************************************)
EXTENDS Naturals

CONSTANTS
    Networks, Topologies,
    Topology,     \* spec.topology of each Network
    Endpoints, Nodes,
    MaxEdits,     \* bound on what users and the inventory do
    MaxFaults     \* bound on the calls that fail and on the restarts of the manager

VARIABLES
    net,          \* the Networks in the API server
    netCache,     \* what Reconcile uses of them, in the informer cache
    netSynced,    \* the Networks whose latest version is in the cache
    ep, epCache,  \* the topology label of each Endpoint, "none" for one that is not there
    node, nodeCache,
    config,       \* for each Network and device: the Endpoints it is configured with
    queue,        \* the workqueue: Networks
    worker,       \* Reconcile: its Network, its copy of it, what it has read
    fresh,        \* the resource version of the copy is the latest one
    dropped,      \* an event handler could not list the Networks
    edits, faults

inventory == <<ep, epCache, node, nodeCache>>
vars == <<net, netCache, netSynced, inventory, config, queue, worker, fresh, dropped, edits, faults>>

Absent == [here |-> FALSE, deleting |-> FALSE, fin |-> FALSE, cond |-> "none"]
New == [Absent EXCEPT !.here = TRUE]

Seen(n) == [here |-> net[n].here, deleting |-> net[n].deleting, fin |-> net[n].fin]

(* A device that has no configuration resource.                             *)
NoConfig == [here |-> FALSE, eps |-> {}]
Config == [here : BOOLEAN, eps : SUBSET Endpoints]

Labels == Topologies \union {"none"}
Steps == {"idle", "finalize", "unfinalize", "endpoints", "nodes", "initial", "apply", "status"}

Idle == [pc |-> "idle", net |-> "none", fin |-> FALSE, eps |-> {}, nodes |-> {}, report |-> "none"]

TypeOK ==
    LET Resource == [here : BOOLEAN, deleting : BOOLEAN, fin : BOOLEAN,
                     cond : {"none", "Failed", "Ready"}] IN
    /\ net \in [Networks -> Resource] 
    /\ netCache \in [Networks -> [here : BOOLEAN, deleting : BOOLEAN, fin : BOOLEAN]]
    /\ netSynced \subseteq Networks /\ queue \subseteq Networks
    /\ ep \in [Endpoints -> Labels] /\ epCache \in [Endpoints -> Labels]
    /\ node \in [Nodes -> Labels] /\ nodeCache \in [Nodes -> Labels]
    /\ config \in [Networks -> [Nodes -> Config]]
    /\ worker \in [pc : Steps, net : Networks \union {"none"}, fin : BOOLEAN,
                   eps : SUBSET Endpoints, nodes : SUBSET Nodes,
                   report : {"none", "Failed", "Ready"}]
    /\ fresh \in BOOLEAN /\ dropped \in BOOLEAN
    /\ edits \in 0..MaxEdits /\ faults \in 0..MaxFaults

(* The manager starts; the Networks that are there have not been handled.    *)
Init ==
    /\ net \in [Networks -> {Absent, New}] /\ netCache = [n \in Networks |-> Seen(n)]
    /\ netSynced = Networks
    /\ queue = {n \in Networks : net[n].here}
    /\ ep \in [Endpoints -> Labels] /\ epCache = ep
    /\ node \in [Nodes -> Labels] /\ nodeCache = node
    /\ config = [n \in Networks |-> [d \in Nodes |-> NoConfig]]
    /\ worker = Idle /\ fresh = FALSE /\ dropped = FALSE
    /\ edits = 0 /\ faults = 0

-----------------------------------------------------------------------------
(* Users, the inventory and the manager.                                    *)

(* A write of Network n that the API server accepts; one that changes       *)
(* nothing makes no new version.                                            *)
Store(n, new) ==
    /\ net' = [net EXCEPT ![n] = new]
    /\ netSynced' = IF new = net[n] THEN netSynced ELSE netSynced \ {n}

Edit == edits < MaxEdits /\ edits' = edits + 1 /\ UNCHANGED <<config, queue, worker, dropped, faults>>

(* A finalizer keeps a deleted Network until the controller removes it.     *)
EditNetwork(n) ==
    /\ Edit
    /\ \/ ~net[n].here /\ Store(n, New)
       \/ /\ net[n].here /\ ~net[n].deleting
          /\ Store(n, IF net[n].fin THEN [net[n] EXCEPT !.deleting = TRUE] ELSE Absent)
    /\ fresh' = (fresh /\ worker.net # n)
    /\ UNCHANGED <<netCache, inventory>>

(* An Endpoint or a Node is created, deleted or given another topology.     *)
EditEndpoint(e, t) ==
    /\ Edit /\ t # ep[e] /\ ep' = [ep EXCEPT ![e] = t]
    /\ UNCHANGED <<net, netCache, netSynced, epCache, node, nodeCache, fresh>>

EditNode(d, t) ==
    /\ Edit /\ t # node[d] /\ node' = [node EXCEPT ![d] = t]
    /\ UNCHANGED <<net, netCache, netSynced, ep, epCache, nodeCache, fresh>>

NetworkEvent(n) ==
    /\ n \notin netSynced /\ netSynced' = netSynced \union {n}
    /\ netCache' = [netCache EXCEPT ![n] = Seen(n)]
    /\ queue' = queue \union {n}
    /\ UNCHANGED <<net, inventory, config, worker, fresh, dropped, edits, faults>>

(* endpointEventHandler: the Networks of the topology in the label of the   *)
(* old and of the new Endpoint.                                             *)
add(label) == {n \in Networks : netCache[n].here /\ Topology[n] = label}

EndpointEventOfNewOnly(e) ==
    /\ epCache[e] # ep[e] /\ epCache' = [epCache EXCEPT ![e] = ep[e]]
    /\ queue' = queue \union add(ep[e])
    /\ UNCHANGED <<net, netCache, netSynced, ep, node, nodeCache, config, worker, fresh,
                   dropped, edits, faults>>

EndpointEvent(e) ==
    /\ epCache[e] # ep[e] /\ epCache' = [epCache EXCEPT ![e] = ep[e]]
    /\ queue' = queue \union add(epCache[e]) \union add(ep[e])
    /\ UNCHANGED <<net, netCache, netSynced, ep, node, nodeCache, config, worker, fresh,
                   dropped, edits, faults>>

(* The handler cannot list the Networks: nobody sees the event again.       *)
EndpointEventDropped(e) ==
    /\ faults < MaxFaults /\ faults' = faults + 1
    /\ epCache[e] # ep[e] /\ epCache' = [epCache EXCEPT ![e] = ep[e]]
    /\ dropped' = TRUE
    /\ UNCHANGED <<net, netCache, netSynced, ep, node, nodeCache, config, queue, worker,
                   fresh, edits>>

(* nodeEventHandler is registered for Endpoints too and leaves what is not  *)
(* a Node alone: the cache of Nodes follows, and no request is made.        *)
NodeEvent(d) ==
    /\ nodeCache[d] # node[d] /\ nodeCache' = [nodeCache EXCEPT ![d] = node[d]]
    /\ UNCHANGED <<net, netCache, netSynced, ep, epCache, node, config, queue, worker,
                   fresh, dropped, edits, faults>>

(* resources.APIApply, cut down to the devices ds: the configuration of     *)
(* those in ns is written, that of the others deleted.  The controller      *)
(* watches the configurations it owns.                                      *)
Configure(n, ds, es, ns) ==
    /\ config' = [config EXCEPT ![n] = [d \in Nodes |->
                    IF d \notin ds THEN @[d]
                    ELSE IF d \in ns THEN [here |-> TRUE, eps |-> es] ELSE NoConfig]]
    /\ queue' = IF config' = config THEN queue ELSE queue \union {n}

(* The owner references make the API server collect the configuration of a  *)
(* Network that is gone.                                                    *)
CollectGarbage(n) ==
    /\ ~net[n].here /\ \E d \in Nodes : config[n][d].here
    /\ Configure(n, Nodes, {}, {})
    /\ UNCHANGED <<net, netCache, netSynced, inventory, worker, fresh, dropped, edits, faults>>

Restart ==
    /\ faults < MaxFaults /\ faults' = faults + 1
    /\ netCache' = [n \in Networks |-> Seen(n)] /\ netSynced' = Networks
    /\ epCache' = ep /\ nodeCache' = node
    /\ queue' = {n \in Networks : net[n].here} /\ worker' = Idle /\ fresh' = FALSE
    /\ UNCHANGED <<net, ep, node, config, dropped, edits>>

-----------------------------------------------------------------------------
(* The ways on from a step of Reconcile.                                    *)

Goto(step) == worker' = [worker EXCEPT !.pc = step]

(* cr.SetConditions; the status is written in the step that follows.        *)
Report(c) == worker' = [worker EXCEPT !.pc = "status", !.report = c]

Return == worker' = Idle /\ fresh' = FALSE
Requeue == Return /\ queue' = queue \union {worker.net}

Keeps == UNCHANGED <<netCache, inventory, dropped, edits, faults>>

GetNetwork(n) ==
    /\ worker.pc = "idle" /\ n \in queue /\ queue' = queue \ {n}
    /\ worker' = IF netCache[n].here
                 THEN [Idle EXCEPT !.pc = IF netCache[n].deleting THEN "unfinalize" ELSE "finalize",
                                   !.net = n, !.fin = netCache[n].fin]
                 ELSE Idle
    /\ fresh' = (netCache[n].here /\ n \in netSynced)
    /\ UNCHANGED <<net, netSynced, config>> /\ Keeps

RemoveFinalizer ==
    /\ worker.pc = "unfinalize"
    /\ LET n == worker.net IN
       \/ (~worker.fin \/ ~net[n].here) /\ Return /\ UNCHANGED <<net, netSynced>>
       \/ worker.fin /\ fresh /\ net[n].here /\ Store(n, Absent) /\ Return
       \/ /\ worker.fin /\ ~fresh /\ net[n].here /\ Report("Failed")
          /\ UNCHANGED <<net, netSynced, fresh>>
    /\ UNCHANGED <<config, queue>> /\ Keeps

AddFinalizerUnchecked ==
    /\ worker.pc = "finalize" /\ Goto("endpoints")
    /\ IF ~worker.fin /\ fresh THEN Store(worker.net, [net[worker.net] EXCEPT !.fin = TRUE])
       ELSE UNCHANGED <<net, netSynced>>
    /\ UNCHANGED <<config, queue, fresh>> /\ Keeps

AddFinalizer ==
    /\ worker.pc = "finalize"
    /\ \/ worker.fin /\ Goto("endpoints") /\ UNCHANGED <<net, netSynced>>
       \/ /\ ~worker.fin /\ fresh /\ Goto("endpoints")
          /\ Store(worker.net, [net[worker.net] EXCEPT !.fin = TRUE])
       \/ ~worker.fin /\ ~fresh /\ Report("Failed") /\ UNCHANGED <<net, netSynced>>
    /\ UNCHANGED <<config, queue, fresh>> /\ Keeps

getProviderEndpoints ==
    /\ worker.pc = "endpoints"
    /\ worker' = [worker EXCEPT !.pc = "nodes",
                     !.eps = {e \in Endpoints : epCache[e] = Topology[worker.net]}]
    /\ UNCHANGED <<net, netSynced, config, queue, fresh>> /\ Keeps

getProviderNodes ==
    /\ worker.pc = "nodes"
    /\ worker' = [worker EXCEPT !.pc = "initial",
                     !.nodes = {d \in Nodes : nodeCache[d] = Topology[worker.net]}]
    /\ UNCHANGED <<net, netSynced, config, queue, fresh>> /\ Keeps

(* The first pass writes what the backends need.  Configurations are not    *)
(* collected yet, and whether this pass prunes them is up to the library.   *)
applyInitialresources ==
    /\ worker.pc = "initial" /\ Goto("apply")
    /\ \/ UNCHANGED <<config, queue>>
       \/ Configure(worker.net, Nodes, {}, {})
    /\ UNCHANGED <<net, netSynced, fresh>> /\ Keeps

APIApplyWithoutPruning ==
    /\ worker.pc = "apply" /\ Report("Ready")
    /\ Configure(worker.net, worker.nodes, worker.eps, worker.nodes)
    /\ UNCHANGED <<net, netSynced, fresh>> /\ Keeps

(* The second pass computes the configurations from the same Endpoints and  *)
(* Nodes (getNewResources), and all that are owned are brought to it.       *)
APIApply ==
    /\ worker.pc = "apply" /\ Report("Ready")
    /\ Configure(worker.net, Nodes, worker.eps, worker.nodes)
    /\ UNCHANGED <<net, netSynced, fresh>> /\ Keeps

(* Status().Update; Requeue with every failure.                             *)
UpdateStatus ==
    /\ worker.pc = "status"
    /\ IF fresh THEN Store(worker.net, [net[worker.net] EXCEPT !.cond = worker.report])
       ELSE UNCHANGED <<net, netSynced>>
    /\ IF fresh /\ worker.report = "Ready" THEN Return /\ UNCHANGED queue ELSE Requeue
    /\ UNCHANGED config /\ Keeps

Reconcile ==
    \/ \E n \in Networks : GetNetwork(n)
    \/ RemoveFinalizer \/ AddFinalizer \/ getProviderEndpoints \/ getProviderNodes
    \/ applyInitialresources \/ APIApply \/ UpdateStatus

(* A call fails: some of the configurations may have been written, or       *)
(* pruned, before.  A status that cannot be written is an error.            *)
CallFails ==
    /\ faults < MaxFaults /\ faults' = faults + 1
    /\ \/ /\ \/ worker.pc \in {"endpoints", "nodes", "initial"}
             \/ worker.pc = "finalize" /\ ~worker.fin
             \/ worker.pc = "unfinalize" /\ worker.fin
          /\ Report("Failed") /\ UNCHANGED <<config, queue, fresh>>
       \/ /\ worker.pc = "apply" /\ Report("Failed") /\ UNCHANGED fresh
          /\ \E ds \in SUBSET Nodes : Configure(worker.net, ds, worker.eps, worker.nodes)
       \/ worker.pc = "status" /\ Requeue /\ UNCHANGED config
    /\ UNCHANGED <<net, netCache, netSynced, inventory, dropped, edits>>

Next ==
    \/ \E n \in Networks : EditNetwork(n) \/ NetworkEvent(n) \/ CollectGarbage(n)
    \/ \E e \in Endpoints : (\E t \in Labels : EditEndpoint(e, t))
                            \/ EndpointEvent(e) \/ EndpointEventDropped(e)
    \/ \E d \in Nodes : (\E t \in Labels : EditNode(d, t)) \/ NodeEvent(d)
    \/ Restart \/ Reconcile \/ CallFails

Spec == Init /\ [][Next]_vars

(* The worker goes on, the watches deliver, and the workqueue is served in  *)
(* order, so that every Network has its turn.                               *)
FairSpec ==
    /\ Spec /\ WF_vars(Reconcile) /\ \A n \in Networks : SF_vars(GetNetwork(n)) /\ WF_vars(NetworkEvent(n))
    /\ \A e \in Endpoints : WF_vars(EndpointEvent(e))
    /\ \A d \in Nodes : WF_vars(NodeEvent(d))

-----------------------------------------------------------------------------
Live(n) == net[n].here /\ ~net[n].deleting

Configured(n) == \E d \in Nodes : config'[n][d].here /\ config'[n][d] # config[n][d]

Complete(n) ==
    \A d \in Nodes : config[n][d] =
       IF d \in worker.nodes THEN [here |-> TRUE, eps |-> worker.eps] ELSE NoConfig

(* Devices are only configured for a Network that is there and is kept by   *)
(* its finalizer, although Reconcile goes by a copy from the cache and users *)
(* delete and recreate Networks meanwhile: no configuration is written      *)
(* after the last one that would delete it is gone.                         *)
ConfiguredWhileKept == [][\A n \in Networks : Configured(n) => net[n].here /\ net[n].fin]_vars

(* A Network becomes Ready only with all its devices configured, with the   *)
(* same Endpoints, and no device of another topology: what a failed or      *)
(* interrupted Reconcile left half applied is put right before.             *)
ReadyIsComplete ==
    [][\A n \in Networks : net'[n].cond = "Ready" /\ net[n].cond # "Ready" => Complete(n)]_vars

(* A change of an Endpoint arrives in the configuration of the Networks of  *)
(* its old and its new topology, and they are Ready again, unless the       *)
(* handler of the event failed.                                             *)
EndpointsArrive ==
    \A n \in Networks :
      <>dropped \/ []<>(Live(n) => /\ net[n].cond = "Ready"
                                  /\ \A d \in Nodes : config[n][d].here =>
                                        config[n][d].eps = {e \in Endpoints : ep[e] = Topology[n]})
==============================================================================
