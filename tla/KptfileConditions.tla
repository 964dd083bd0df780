-------------------------- MODULE KptfileConditions --------------------------
(***************************************************************************)
(* The list behind the conditions of a Kptfile (kptfile.go): SetConditions *)
(* and DeleteCondition copy status.conditions into a slice, loop over it   *)
(* and write it back.  DeleteCondition shortens the slice while it ranges  *)
(* over it: the range keeps the old length, the elements move.  One step   *)
(* is one iteration of a loop.                                             *)
(***************************************************************************)
EXTENDS Naturals, Sequences

CONSTANTS
    Type,       \* condition types
    Reason,     \* reasons
    NoReason,   \* the empty reason
    MaxLen      \* bound on the length of the list a package comes with

VARIABLES
    conditions,  \* status.conditions of the Kptfile
    call,        \* the operation in progress and its argument
    ecs,         \* the array under the slice ecs
    length,      \* len(ecs)
    idx          \* the index of the range loop, from 1

vars == <<conditions, call, ecs, length, idx>>

Value == [status : {"False", "True"}, reason : Reason]
NoValue == [status |-> "none", reason |-> NoReason]
Condition == [type : Type, value : Value]

Idle == [op |-> "idle"]
Panicked == [op |-> "panicked"]
Deleting(t) == [op |-> "delete", type |-> t]
Setting(c) == [op |-> "set", c |-> c]

Unique(s) == \A i, j \in 1..Len(s) : s[i].type = s[j].type => i = j

Init ==
    /\ \E n \in 0..MaxLen : conditions \in [1..n -> Condition]
    /\ Unique(conditions)
    /\ call = Idle /\ ecs = <<>> /\ length = 0 /\ idx = 1

(* GetCondition: the value of type t, as every caller sees it.              *)
GetCondition(t) ==
    IF \E i \in 1..Len(conditions) : conditions[i].type = t
    THEN conditions[CHOOSE i \in 1..Len(conditions) : conditions[i].type = t].value
    ELSE NoValue

-----------------------------------------------------------------------------

Start(c) ==
    /\ call = Idle
    /\ call' = c
    /\ ecs' = conditions /\ length' = Len(conditions) /\ idx' = 1
    /\ UNCHANGED conditions

DeleteCondition(t) == Start(Deleting(t))

SetConditions(c) == Start(Setting(c))

(* SetConditionRefFailed keeps the reason of a condition that exists.       *)
SetConditionRefFailed(t) ==
    LET v == GetCondition(t) IN
    SetConditions([type |-> t,
                   value |-> [status |-> "False",
                              reason |-> IF v = NoValue THEN NoReason ELSE v.reason]])

Return(s) ==
    /\ call' = Idle /\ conditions' = s
    /\ ecs' = <<>> /\ length' = 0 /\ idx' = 1

DeleteSkip(t) ==
    /\ call = Deleting(t) /\ idx \in 1..Len(ecs) /\ ecs[idx].type # t
    /\ idx' = idx + 1
    /\ UNCHANGED <<conditions, call, ecs, length>>

(* What a match does to the slice, when idx is still in it; a panic when    *)
(* ecs[idx+1:] starts behind its end.                                       *)
RemoveSwapsLast ==
    IF idx <= length
    THEN /\ ecs' = [ecs EXCEPT ![idx] = ecs[length]]
         /\ length' = length - 1 /\ idx' = idx + 1
         /\ UNCHANGED call
    ELSE call' = Panicked /\ UNCHANGED <<ecs, length, idx>>

RemoveKeepsElement ==
    IF idx <= length
    THEN length' = length - 1 /\ idx' = idx + 1 /\ UNCHANGED <<call, ecs>>
    ELSE call' = Panicked /\ UNCHANGED <<ecs, length, idx>>

RemoveOffByOne ==
    IF idx < length
    THEN /\ ecs' = [j \in 1..Len(ecs) |-> IF j >= idx /\ j < length THEN ecs[j + 1] ELSE ecs[j]]
         /\ length' = length - 1 /\ idx' = idx + 1
         /\ UNCHANGED call
    ELSE call' = Panicked /\ UNCHANGED <<ecs, length, idx>>

Remove ==
    IF idx <= length
    THEN /\ ecs' = [j \in 1..Len(ecs) |-> IF j >= idx /\ j < length THEN ecs[j + 1] ELSE ecs[j]]
         /\ length' = length - 1 /\ idx' = idx + 1
         /\ UNCHANGED call
    ELSE call' = Panicked /\ UNCHANGED <<ecs, length, idx>>

(* ecs = append(ecs[:idx], ecs[idx+1:]...)                                  *)
DeleteMatch(t) ==
    /\ call = Deleting(t) /\ idx \in 1..Len(ecs) /\ ecs[idx].type = t
    /\ Remove
    /\ UNCHANGED conditions

DeleteReturn(t) ==
    /\ call = Deleting(t) /\ idx = Len(ecs) + 1
    /\ Return([i \in 1..length |-> ecs[i]])

SetSkip(c) ==
    /\ call = Setting(c) /\ idx \in 1..Len(ecs) /\ ecs[idx].type # c.type
    /\ idx' = idx + 1
    /\ UNCHANGED <<conditions, call, ecs, length>>

SetMatch(c) ==
    /\ call = Setting(c) /\ idx \in 1..Len(ecs) /\ ecs[idx].type = c.type
    /\ Return([ecs EXCEPT ![idx] = c])

AppendAtOnce(c) ==
    /\ call = Setting(c)
    /\ Return(Append(ecs, c))

AppendNew(c) ==
    /\ call = Setting(c) /\ idx = Len(ecs) + 1
    /\ Return(Append(ecs, c))

Next ==
    \/ \E t \in Type :
          \/ DeleteCondition(t) \/ SetConditionRefFailed(t)
          \/ DeleteSkip(t) \/ DeleteMatch(t) \/ DeleteReturn(t)
    \/ \E c \in Condition :
          SetConditions(c) \/ SetSkip(c) \/ SetMatch(c) \/ AppendNew(c)

Spec == Init /\ [][Next]_vars

-----------------------------------------------------------------------------
TypeOK ==
    /\ conditions \in Seq(Condition) /\ ecs \in Seq(Condition)
    /\ call \in {Idle, Panicked} \cup {Deleting(t) : t \in Type} \cup {Setting(c) : c \in Condition}
    /\ length \in 0..Len(ecs) /\ idx \in 1..(Len(ecs) + 1)

(* DeleteCondition moves the elements of the slice it ranges over; on a     *)
(* list in which every type occurs once, which SetConditions keeps that     *)
(* way, it never slices beyond the end.                                     *)
UniqueAndNoPanic == Unique(conditions) /\ call # Panicked

(* Setting and deleting conditions never reorders the others: a package     *)
(* that is rendered twice does not change.                                  *)
KeepsOrder ==
    [][\A i, j \in 1..Len(conditions'), k, l \in 1..Len(conditions) :
          /\ i < j
          /\ conditions'[i].type = conditions[k].type
          /\ conditions'[j].type = conditions[l].type
          => k < l]_vars

(* The list is a faithful representation of the map from types to           *)
(* conditions that its callers use: every call sets or deletes the one      *)
(* entry it names.                                                          *)
Map == INSTANCE ConditionMap WITH view <- [t \in Type |-> GetCondition(t)], request <- call
ImplementsMap == Map!Spec
=============================================================================
