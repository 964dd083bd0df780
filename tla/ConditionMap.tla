---------------------------- MODULE ConditionMap ----------------------------
(***************************************************************************)
(* What KptFile promises about the conditions of a package: a map from     *)
(* condition types to values; a call deletes or sets the entry it names    *)
(* and no other.  NephioPackage and everything above it look at the        *)
(* conditions this way.                                                    *)
(***************************************************************************)
CONSTANTS Type, Value, NoValue

VARIABLES view, request

Idle == [op |-> "idle"]
Deleting(t) == [op |-> "delete", type |-> t]
Setting(c) == [op |-> "set", c |-> c]

Init == view \in [Type -> Value \cup {NoValue}] /\ request = Idle

Ask(q) == request = Idle /\ request' = q /\ UNCHANGED view

Delete(t) ==
    /\ request = Deleting(t) /\ request' = Idle
    /\ view' = [view EXCEPT ![t] = NoValue]

Set(t, v) ==
    /\ request = Setting([type |-> t, value |-> v]) /\ request' = Idle
    /\ view' = [view EXCEPT ![t] = v]

Next ==
    \E t \in Type :
        \/ Ask(Deleting(t)) \/ Delete(t)
        \/ \E v \in Value : Ask(Setting([type |-> t, value |-> v])) \/ Set(t, v)

Spec == Init /\ [][Next]_<<view, request>>
=============================================================================
