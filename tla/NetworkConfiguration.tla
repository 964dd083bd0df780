------------------------- MODULE NetworkConfiguration -------------------------
(***************************************************************************)
(* The network controller beside other controllers of the infrastructure:  *)
(* NetworkController, with a worker and bounds of its own.                 *)
(***************************************************************************)
EXTENDS Naturals

CONSTANTS Networks, Topologies, Topology, Endpoints, Nodes,
          MaxNetEdits, MaxNetFaults              \* MaxEdits and MaxFaults

ASSUME NetworkConstants ==
    Topology \in [Networks -> Topologies] /\ MaxNetEdits \in Nat /\ MaxNetFaults \in Nat

VARIABLES net, netCache, netSynced, ep, epCache, node, nodeCache, config, queue,
          netWorker, netFresh, dropped, netEdits, netFaults

Net ==
    INSTANCE NetworkController
    WITH worker <- netWorker, fresh <- netFresh, edits <- netEdits, faults <- netFaults,
         MaxEdits <- MaxNetEdits, MaxFaults <- MaxNetFaults

NetworkSpec == Net!FairSpec

(* Devices are only configured for a Network that is there and is kept by   *)
(* its finalizer.                                                           *)
ConfiguredWhileKept == Net!ConfiguredWhileKept

(* A Network becomes Ready only with all its devices configured.            *)
ReadyIsComplete == Net!ReadyIsComplete

(* A change of an Endpoint arrives in the configuration of the Networks.    *)
EndpointsArrive == Net!EndpointsArrive
===============================================================================
