-------------------------- MODULE ClusterControllers --------------------------
(***************************************************************************)
(* The controllers of the manager that look after workload clusters:       *)
(* bootstrap-secret and bootstrap-packages, and workloadidentity.  They    *)
(* share the clusters, and which of them run is said when the manager is   *)
(* started (--reconcilers).                                                *)
(***************************************************************************)
EXTENDS BootstrapControllers

CONSTANTS
    Starts,     \* the sets of reconcilers the manager may be started with
    Orders      \* the orders in which a manager that starts may queue the clusters

ASSUME OrdersAssumption ==
    \A o \in Orders : o \in Seq(Clusters) /\ \A c \in Clusters : \E i \in 1..Len(o) : o[i] = c

VARIABLES agents, server, maps, seen, synced, bundle, conf, missed, requests, spw,
          enabled

Spire == INSTANCE SpireBootstrap

identityVars == <<agents, server, maps, seen, synced, bundle, conf, missed, requests, spw>>
allVars == <<vars, identityVars, enabled>>

reconcilerIsEnabled(name) == name \in enabled

Bootstrap == reconcilerIsEnabled("bootstrap-secret") /\ reconcilerIsEnabled("bootstrap-packages")
Identity == reconcilerIsEnabled("workloadidentity")

(* What concerns only a controller that does not run is as it is when       *)
(* nobody has asked for anything.                                           *)
ManagerInit ==
    /\ enabled \in Starts
    /\ InitWith(IF Bootstrap THEN Requests ELSE {})
    /\ Spire!InitWith(IF Identity THEN Orders ELSE {<<>>})
    /\ ~Bootstrap => secret.list = <<>> /\ package = [c \in Clusters |-> "draft"]
    /\ ~Identity => ~server

ManagerNext ==
    \/ Bootstrap /\ Next /\ UNCHANGED <<identityVars, enabled>>
    \/ /\ Identity /\ Spire!Next
       /\ UNCHANGED <<secret, package, installed, copied, queue, sw, pw, enabled>>

(* A controller that does not run has no requests, so its fairness asks     *)
(* for nothing.                                                             *)
ManagerSpec == ManagerInit /\ [][ManagerNext]_allVars /\ Fairness /\ Spire!Fairness

-----------------------------------------------------------------------------
(* What workloadidentity promises (SpireBootstrap).                         *)

(* No entry of the shared ConfigMaps is lost by an Update of                *)
(* workloadidentity: the copy it writes is never out of date.               *)
EntriesKept == Spire!EntriesKept

(* The list for the SPIRE server names no kubeconfig that is not there.     *)
ListedHasKubeconfig == Spire!ListedHasKubeconfig

(* A cluster that stays ready, with the agent, is enrolled in the end,      *)
(* unless its secret was not in the cache when Reconcile looked for it.     *)
EventuallyEnrolled == Spire!EventuallyEnrolled
=============================================================================
