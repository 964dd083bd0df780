---------------------------- MODULE ConditionList ----------------------------
(***************************************************************************)
(* The conditions of a Kptfile as one of several parts of Nephio that work *)
(* on a package: KptfileConditions under a name of its own.                *)
(***************************************************************************)
EXTENDS Naturals

CONSTANTS Type, Reason, NoReason, MaxLen

ASSUME ReasonAssumption == NoReason \in Reason
ASSUME MaxLenAssumption == MaxLen \in Nat

VARIABLES conditions, call, ecs, length, idx

List == INSTANCE KptfileConditions

ListSpec == List!Spec

(* Every type occurs once and DeleteCondition never slices beyond the end.  *)
UniqueAndNoPanic == List!UniqueAndNoPanic

(* Setting and deleting conditions never reorders the others.               *)
KeepsOrder == List!KeepsOrder

(* The list implements the map from types to conditions.                    *)
ImplementsMap == List!ImplementsMap
==============================================================================
