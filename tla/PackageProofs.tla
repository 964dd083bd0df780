---------------------------- MODULE PackageProofs ----------------------------
(***************************************************************************)
(* What is proved about the contents of packages: the condition list of a  *)
(* Kptfile is a map, for lists of any length; and the specializers write   *)
(* back no more than they have worked out, for any number of them.         *)
(***************************************************************************)
EXTENDS ConditionList, SpecializerController, Sequences, TLAPS

(* A function on 1..n is a sequence of length n.                            *)
LEMMA FunctionIsSequence ==
    ASSUME NEW S, NEW n \in Nat, NEW f \in [1..n -> S]
    PROVE  f \in Seq(S) /\ Len(f) = n
  OBVIOUS

(* The values of call tell the calls apart.                                 *)
LEMMA Calls ==
    /\ \A t, u : List!Deleting(t) = List!Deleting(u) => t = u
    /\ \A c, d : List!Setting(c) = List!Setting(d) => c = d
    /\ \A t, c : List!Deleting(t) # List!Setting(c)
    /\ \A t : List!Deleting(t) # List!Idle /\ List!Deleting(t) # List!Panicked
    /\ \A c : List!Setting(c) # List!Idle /\ List!Setting(c) # List!Panicked
    /\ List!Idle # List!Panicked
<1>1. \A t : List!Deleting(t).op = "delete" /\ List!Deleting(t).type = t
  BY DEF List!Deleting
<1>2. \A c : List!Setting(c).op = "set" /\ List!Setting(c).c = c
  BY DEF List!Setting
<1>3. List!Idle.op = "idle" /\ List!Panicked.op = "panicked"
  BY DEF List!Idle, List!Panicked
<1> QED BY <1>1, <1>2, <1>3

(* GetCondition on any list: with unique types, the value of the one element *)
(* of type t, wherever it stands.                                           *)
ValueIn(s, t) ==
    IF \E i \in 1..Len(s) : s[i].type = t
    THEN s[CHOOSE i \in 1..Len(s) : s[i].type = t].value
    ELSE List!NoValue

(* A condition in the list is the one GetCondition finds.                   *)
LEMMA ValueThere ==
    ASSUME NEW s \in Seq(List!Condition), List!Unique(s), NEW k \in 1..Len(s)
    PROVE  ValueIn(s, s[k].type) = s[k].value
<1> DEFINE t == s[k].type
           n == CHOOSE i \in 1..Len(s) : s[i].type = t
<1>1. n \in 1..Len(s) /\ s[n].type = t
  OBVIOUS
<1>2. n = k
  BY <1>1 DEF List!Unique
<1>3. ValueIn(s, t) = s[n].value
  BY DEF ValueIn
<1> QED BY Zenon, <1>2, <1>3

(* A type that is not in the list has no value.                             *)
LEMMA ValueNotThere ==
    ASSUME NEW s, NEW t, \A i \in 1..Len(s) : s[i].type # t
    PROVE  ValueIn(s, t) = List!NoValue
  BY DEF ValueIn

(* GetCondition returns a proper value, or none.                            *)
LEMMA ValueType ==
    ASSUME NEW s \in Seq(List!Condition), List!Unique(s), NEW t
    PROVE  ValueIn(s, t) \in List!Value \cup {List!NoValue}
<1>1. ASSUME NEW k \in 1..Len(s), s[k].type = t PROVE ValueIn(s, t) \in List!Value
  <2>1. s[k] \in List!Condition
    OBVIOUS
  <2>2. s[k].value \in List!Value
    BY <2>1 DEF List!Condition
  <2> QED BY <1>1, <2>2, ValueThere
<1> QED BY <1>1, ValueNotThere

-----------------------------------------------------------------------------
(* The inductive invariant: during a call, the array is the list, or the    *)
(* list with the one match at m closed up, in which the elements the loop   *)
(* has yet to see are still the unmatched ones.                             *)

Closed(m, j) == IF j >= m /\ j < Len(conditions) THEN conditions[j + 1] ELSE conditions[j]

NotYet(t) ==
    /\ ecs = conditions /\ length = Len(conditions)
    /\ \A j \in 1..(idx - 1) : conditions[j].type # t

Done(m, t) ==
    /\ m < idx /\ conditions[m].type = t
    /\ Len(ecs) = Len(conditions) /\ length = Len(conditions) - 1
    /\ \A j \in 1..Len(conditions) : ecs[j] = Closed(m, j)

IInv ==
    /\ List!TypeOK
    /\ List!Unique(conditions) /\ call # List!Panicked
    /\ \A c \in List!Condition : call = List!Setting(c) => NotYet(c.type)
    /\ \A t \in Type : call = List!Deleting(t) =>
          NotYet(t) \/ \E m \in 1..Len(conditions) : Done(m, t)

(* The invariant holds of every list a package may come with.               *)
LEMMA InvInit == List!Init => IInv
<1> SUFFICES ASSUME List!Init PROVE IInv
  OBVIOUS
<1>1. PICK n \in 0..MaxLen : conditions \in [1..n -> List!Condition]
  BY DEF List!Init
<1>2. conditions \in Seq(List!Condition)
  BY <1>1, MaxLenAssumption, FunctionIsSequence
<1>3. List!TypeOK
  BY <1>2 DEF List!Init, List!TypeOK
<1> QED BY <1>3, Calls DEF List!Init, IInv

-----------------------------------------------------------------------------
(* What a call leaves in the list when it returns.                          *)

Deleted(m, t) ==
    /\ conditions' \in Seq(List!Condition)
    /\ conditions[m].type = t
    /\ Len(conditions') = Len(conditions) - 1
    /\ \A j \in 1..(Len(conditions) - 1) : conditions'[j] = Closed(m, j)

Replaced(m, c) ==
    /\ conditions' \in Seq(List!Condition)
    /\ conditions[m].type = c.type
    /\ Len(conditions') = Len(conditions)
    /\ \A j \in 1..Len(conditions) : conditions'[j] = IF j = m THEN c ELSE conditions[j]

Added(c) ==
    /\ conditions' \in Seq(List!Condition)
    /\ \A j \in 1..Len(conditions) : conditions[j].type # c.type
    /\ Len(conditions') = Len(conditions) + 1
    /\ \A j \in 1..(Len(conditions) + 1) :
          conditions'[j] = IF j = Len(conditions) + 1 THEN c ELSE conditions[j]

NotThere(t) ==
    /\ conditions' = conditions
    /\ \A j \in 1..Len(conditions) : conditions[j].type # t

Returned ==
    /\ call' = List!Idle /\ ecs' = <<>> /\ length' = 0 /\ idx' = 1
    /\ \/ \E t \in Type : /\ call = List!Deleting(t)
                          /\ NotThere(t) \/ \E m \in 1..Len(conditions) : Deleted(m, t)
       \/ \E c \in List!Condition : /\ call = List!Setting(c)
                                    /\ Added(c) \/ \E m \in 1..Len(conditions) : Replaced(m, c)

(* DeleteCondition returns the list without its one match.                  *)
LEMMA DeleteReturns ==
    ASSUME IInv, NEW t \in Type, List!DeleteReturn(t)
    PROVE  Returned
<1>0. conditions \in Seq(List!Condition) /\ ecs \in Seq(List!Condition) /\ length \in 0..Len(ecs)
  BY DEF IInv, List!TypeOK
<1>1. conditions' = [i \in 1..length |-> ecs[i]] /\ idx = Len(ecs) + 1 /\ call = List!Deleting(t)
  BY DEF List!DeleteReturn, List!Return
<1>2. conditions' \in [1..length -> List!Condition] /\ length \in Nat
  BY <1>0, <1>1
<1>3. conditions' \in Seq(List!Condition) /\ Len(conditions') = length
  BY Zenon, <1>2, FunctionIsSequence
<1>4. CASE NotYet(t)
  <2>1. conditions' = conditions
    BY <1>0, <1>1, <1>4 DEF NotYet
  <2> QED BY <1>0, <1>1, <1>4, <2>1 DEF NotYet, NotThere, Returned, List!DeleteReturn, List!Return
<1>5. ASSUME NEW m \in 1..Len(conditions), Done(m, t) PROVE Returned
  <2>1. Deleted(m, t)
    BY <1>0, <1>1, <1>3, <1>5 DEF Done, Deleted
  <2> QED BY <1>1, <2>1 DEF Returned, List!DeleteReturn, List!Return
<1> QED BY Zenon, <1>1, <1>4, <1>5 DEF IInv

(* SetConditions returns the list with one element replaced or added.       *)
LEMMA SetReturns ==
    ASSUME IInv, NEW c \in List!Condition, List!SetMatch(c) \/ List!AppendNew(c)
    PROVE  Returned
<1>0. conditions \in Seq(List!Condition) /\ call = List!Setting(c) /\ NotYet(c.type)
  BY DEF IInv, List!TypeOK, List!SetMatch, List!AppendNew
<1>1. CASE List!SetMatch(c)
  <2>1. idx \in 1..Len(conditions) /\ conditions' = [conditions EXCEPT ![idx] = c]
    BY Zenon, <1>0, <1>1 DEF List!SetMatch, List!Return, NotYet
  <2>2. Replaced(idx, c)
    BY <1>0, <1>1, <2>1 DEF Replaced, List!SetMatch, NotYet
  <2> QED BY Zenon, <1>0, <1>1, <2>1, <2>2 DEF Returned, List!SetMatch, List!Return
<1>2. CASE List!AppendNew(c)
  <2>1. conditions' = Append(conditions, c) /\ idx = Len(conditions) + 1
    BY Zenon, <1>0, <1>2 DEF List!AppendNew, List!Return, NotYet
  <2>2. Added(c)
    BY <1>0, <2>1 DEF Added, NotYet
  <2> QED BY Zenon, <1>0, <1>2, <2>2 DEF Returned, List!AppendNew, List!Return
<1> QED BY Zenon, <1>1, <1>2

-----------------------------------------------------------------------------
(* A step begins a call, moves the loop on, or returns.                     *)

Begun(q) ==
    /\ call = List!Idle /\ call' = q /\ UNCHANGED conditions
    /\ ecs' = conditions /\ length' = Len(conditions) /\ idx' = 1

Asked ==
    \/ \E t \in Type : Begun(List!Deleting(t))
    \/ \E c \in List!Condition : Begun(List!Setting(c))

Looped ==
    \/ \E t \in Type : List!DeleteSkip(t) \/ List!DeleteMatch(t)
    \/ \E c \in List!Condition : List!SetSkip(c)

(* The value SetConditionRefFailed writes keeps the reason it found, so it  *)
(* is a proper condition.                                                   *)
LEMMA FailedCondition ==
    ASSUME IInv, NEW t \in Type, List!SetConditionRefFailed(t)
    PROVE  \E c \in List!Condition : Begun(List!Setting(c))
<1> DEFINE v == List!GetCondition(t)
           c == [type |-> t,
                 value |-> [status |-> "False",
                            reason |-> IF v = List!NoValue THEN NoReason ELSE v.reason]]
<1>1. conditions \in Seq(List!Condition)
  BY DEF IInv, List!TypeOK
<1>2. v \in List!Value \cup {List!NoValue}
  <2>1. v = ValueIn(conditions, t)
    BY DEF List!GetCondition, ValueIn
  <2> QED BY Zenon, <1>1, <2>1, ValueType DEF IInv
<1>3. c \in List!Condition
  BY Zenon, <1>2, ReasonAssumption DEF List!Value, List!Condition
<1>4. Begun(List!Setting(c))
  BY DEF List!SetConditionRefFailed, List!SetConditions, List!Start, Begun
<1> HIDE DEF c
<1> QED BY Zenon, <1>3, <1>4

(* The steps of the operations, grouped by what they do to the list.        *)
LEMMA Steps ==
    ASSUME IInv, List!Next
    PROVE  Asked \/ Looped \/ Returned
<1>1. ASSUME NEW t \in Type, List!DeleteCondition(t) PROVE Asked
  BY <1>1 DEF List!DeleteCondition, List!Start, Begun, Asked
<1>2. ASSUME NEW t \in Type, List!SetConditionRefFailed(t) PROVE Asked
  BY Zenon, <1>2, FailedCondition DEF Asked
<1>3. ASSUME NEW c \in List!Condition, List!SetConditions(c) PROVE Asked
  BY <1>3 DEF List!SetConditions, List!Start, Begun, Asked
<1>4. ASSUME NEW t \in Type, List!DeleteReturn(t) PROVE Returned
  BY <1>4, DeleteReturns
<1>5. ASSUME NEW c \in List!Condition, List!SetMatch(c) \/ List!AppendNew(c) PROVE Returned
  BY Zenon, <1>5, SetReturns
<1>6. ASSUME NEW t \in Type, List!DeleteSkip(t) \/ List!DeleteMatch(t) PROVE Looped
  BY <1>6 DEF Looped
<1>7. ASSUME NEW c \in List!Condition, List!SetSkip(c) PROVE Looped
  BY <1>7 DEF Looped
<1> QED BY Zenon, <1>1, <1>2, <1>3, <1>4, <1>5, <1>6, <1>7 DEF List!Next

(* A step of a loop leaves the list and the call alone and keeps the        *)
(* invariant: behind a match no second one can come, since the types are    *)
(* unique, and the element that moves into the gap is not the deleted one.  *)
LEMMA LoopStep ==
    ASSUME IInv, Looped
    PROVE  IInv' /\ conditions' = conditions /\ call' = call
<1>0. /\ conditions \in Seq(List!Condition) /\ ecs \in Seq(List!Condition)
      /\ length \in 0..Len(ecs) /\ idx \in 1..(Len(ecs) + 1)
      /\ call \in {List!Idle, List!Panicked} \cup {List!Deleting(t) : t \in Type}
                  \cup {List!Setting(c) : c \in List!Condition}
      /\ List!Unique(conditions) /\ call # List!Panicked
  BY Zenon DEF IInv, List!TypeOK
<1>1. ASSUME NEW t \in Type, List!DeleteSkip(t)
      PROVE  IInv' /\ conditions' = conditions /\ call' = call
  <2>0. UNCHANGED <<conditions, call, ecs, length>> /\ idx' = idx + 1 /\ idx \in 1..Len(ecs)
        /\ ecs[idx].type # t /\ call = List!Deleting(t)
    BY Zenon, <1>1 DEF List!DeleteSkip
  <2>1. List!TypeOK'
    BY <1>0, <2>0 DEF List!TypeOK
  <2>2. CASE NotYet(t)
    <3>1. NotYet(t)'
      BY <1>0, <2>0, <2>2 DEF NotYet
    <3> QED BY Zenon, <1>0, <2>0, <2>1, <3>1, Calls DEF IInv, List!Unique
  <2>3. ASSUME NEW m \in 1..Len(conditions), Done(m, t) PROVE IInv'
    <3>1. Done(m, t)' /\ m \in 1..Len(conditions')
      BY <1>0, <2>0, <2>3 DEF Done, Closed
    <3> QED BY Zenon, <1>0, <2>0, <2>1, <3>1, Calls DEF IInv, List!Unique
  <2> QED BY Zenon, <2>0, <2>2, <2>3 DEF IInv
<1>2. ASSUME NEW t \in Type, List!DeleteMatch(t)
      PROVE  IInv' /\ conditions' = conditions /\ call' = call
  <2>0. /\ conditions' = conditions /\ call = List!Deleting(t)
        /\ idx \in 1..Len(ecs) /\ ecs[idx].type = t
    BY Zenon, <1>2 DEF List!DeleteMatch
  <2>1. NotYet(t)
    <3> SUFFICES ASSUME NEW m \in 1..Len(conditions), Done(m, t) PROVE FALSE
      BY Zenon, <2>0 DEF IInv
    <3>1. /\ m < idx /\ conditions[m].type = t
          /\ Len(ecs) = Len(conditions) /\ ecs[idx] = Closed(m, idx)
      BY Zenon, <2>0 DEF Done
    <3>2. CASE idx < Len(conditions)
      <4>1. conditions[idx + 1].type = t /\ idx + 1 \in 1..Len(conditions) /\ m # idx + 1
        BY <1>0, <2>0, <3>1, <3>2 DEF Closed
      <4> QED BY Zenon, <1>0, <3>1, <4>1 DEF List!Unique
    <3>3. CASE idx = Len(conditions)
      <4>1. conditions[idx].type = t /\ idx \in 1..Len(conditions) /\ m # idx
        BY <1>0, <2>0, <3>1, <3>3 DEF Closed
      <4> QED BY Zenon, <1>0, <3>1, <4>1 DEF List!Unique
    <3> QED BY <1>0, <2>0, <3>1, <3>2, <3>3
  <2>2. ecs = conditions /\ length = Len(conditions) /\ idx <= length
    BY <1>0, <2>0, <2>1 DEF NotYet
  <2>3. /\ ecs' = [j \in 1..Len(ecs) |-> IF j >= idx /\ j < length THEN ecs[j + 1] ELSE ecs[j]]
        /\ length' = length - 1 /\ idx' = idx + 1 /\ call' = call
    BY Zenon, <1>2, <2>2 DEF List!DeleteMatch, List!Remove
  <2>4. ecs' \in [1..Len(conditions) -> List!Condition] /\ Len(conditions) \in Nat
    BY <1>0, <2>2, <2>3
  <2>5. ecs' \in Seq(List!Condition) /\ Len(ecs') = Len(conditions)
    BY Zenon, <2>4, FunctionIsSequence
  <2>6. List!TypeOK'
    BY <1>0, <2>0, <2>2, <2>3, <2>5 DEF List!TypeOK
  <2>7. \E m \in 1..Len(conditions') : Done(m, t)'
    <3>0. PICK m \in 1..Len(conditions) : m = idx
      BY Zenon, <2>0, <2>2
    <3>1. m < idx' /\ conditions'[m].type = t /\ Len(ecs') = Len(conditions')
          /\ length' = Len(conditions') - 1
      BY <1>0, <2>0, <2>2, <2>3, <2>5, <3>0
    <3>2. \A j \in 1..Len(conditions) :
             ecs'[j] = IF j >= m /\ j < Len(conditions) THEN conditions[j + 1] ELSE conditions[j]
      BY Zenon, <2>2, <2>3, <3>0
    <3>3. Done(m, t)'
      BY Zenon, <2>0, <3>1, <3>2 DEF Done, Closed
    <3> QED BY Zenon, <2>0, <3>3
  <2> QED BY <1>0, <2>0, <2>3, <2>6, <2>7, Calls DEF IInv, List!Unique
<1>3. ASSUME NEW c \in List!Condition, List!SetSkip(c)
      PROVE  IInv' /\ conditions' = conditions /\ call' = call
  <2>0. UNCHANGED <<conditions, call, ecs, length>> /\ idx' = idx + 1 /\ idx \in 1..Len(ecs)
        /\ ecs[idx].type # c.type /\ call = List!Setting(c)
    BY Zenon, <1>3 DEF List!SetSkip
  <2>1. List!TypeOK'
    BY <1>0, <2>0 DEF List!TypeOK
  <2>2. NotYet(c.type)
    BY Zenon, <2>0 DEF IInv
  <2>3. NotYet(c.type)'
    BY <1>0, <2>0, <2>2 DEF NotYet
  <2> QED BY Zenon, <1>0, <2>0, <2>1, <2>3, Calls DEF IInv, List!Unique
<1> QED BY Zenon, <1>1, <1>2, <1>3 DEF Looped

(* The list a call returns has unique types, keeps the order of the         *)
(* conditions it had, and shows the callers exactly the change asked for.   *)
Ordered ==
    \A i, j \in 1..Len(conditions'), k, l \in 1..Len(conditions) :
        /\ i < j
        /\ conditions'[i].type = conditions[k].type
        /\ conditions'[j].type = conditions[l].type
        => k < l

View == [u \in Type |-> ValueIn(conditions, u)]

(* ... when one element is removed;                                         *)
LEMMA DeletedList ==
    ASSUME conditions \in Seq(List!Condition), List!Unique(conditions),
           NEW t \in Type, NEW m \in 1..Len(conditions), Deleted(m, t)
    PROVE  /\ List!Unique(conditions') /\ Ordered
           /\ View' = [View EXCEPT ![t] = List!NoValue]
<1> DEFINE Old(j) == IF j >= m THEN j + 1 ELSE j
<1>0. conditions' \in Seq(List!Condition) /\ conditions[m].type = t
      /\ Len(conditions') = Len(conditions) - 1 /\ Len(conditions) \in Nat
  BY DEF Deleted
<1>1. \A j \in 1..Len(conditions') : /\ Old(j) \in 1..Len(conditions) /\ Old(j) # m
                                      /\ conditions'[j] = conditions[Old(j)]
  <2> SUFFICES ASSUME NEW j \in 1..Len(conditions')
               PROVE  /\ Old(j) \in 1..Len(conditions) /\ Old(j) # m
                      /\ conditions'[j] = conditions[Old(j)]
    OBVIOUS
  <2>1. j \in 1..Len(conditions) - 1 /\ conditions'[j] = Closed(m, j)
    BY Zenon, <1>0 DEF Deleted
  <2>2. CASE j >= m
    BY <1>0, <2>1, <2>2 DEF Closed
  <2>3. CASE j < m
    BY <1>0, <2>1, <2>3 DEF Closed
  <2> QED BY <1>0, <2>2, <2>3
<1>2. \A i, j \in 1..Len(conditions') : i < j => Old(i) < Old(j)
  BY <1>0
<1>3. \A k \in 1..Len(conditions) : k # m => \E j \in 1..Len(conditions') : Old(j) = k
  <2> SUFFICES ASSUME NEW k \in 1..Len(conditions), k # m
               PROVE  \E j \in 1..Len(conditions') : Old(j) = k
    OBVIOUS
  <2>1. CASE k < m
    <3>1. k \in 1..Len(conditions') /\ Old(k) = k
      BY <1>0, <2>1
    <3> QED BY Zenon, <3>1
  <2>2. CASE k > m
    <3>1. k - 1 \in 1..Len(conditions') /\ Old(k - 1) = k
      BY <1>0, <2>2
    <3> QED BY Zenon, <3>1
  <2> QED BY <2>1, <2>2
<1>4. \A i, j \in 1..Len(conditions') : Old(i) = Old(j) => i = j
  BY <1>0
<1> HIDE DEF Old
<1>5. List!Unique(conditions')
  BY <1>1, <1>4 DEF List!Unique
<1>6. Ordered
  <2> SUFFICES ASSUME NEW i \in 1..Len(conditions'), NEW j \in 1..Len(conditions'),
                      NEW k \in 1..Len(conditions), NEW l \in 1..Len(conditions), i < j,
                      conditions'[i].type = conditions[k].type,
                      conditions'[j].type = conditions[l].type
               PROVE  k < l
    BY DEF Ordered
  <2>1. Old(i) = k /\ Old(j) = l
    BY Zenon, <1>1 DEF List!Unique
  <2> QED BY Zenon, <1>2, <2>1
<1>7. ASSUME NEW u \in Type
      PROVE  ValueIn(conditions', u) = IF u = t THEN List!NoValue ELSE ValueIn(conditions, u)
  <2>1. CASE u = t
    <3>1. \A j \in 1..Len(conditions') : conditions'[j].type # t
      BY Zenon, <1>0, <1>1 DEF List!Unique
    <3> QED BY Zenon, <2>1, <3>1, ValueNotThere
  <2>2. ASSUME u # t, NEW k \in 1..Len(conditions), conditions[k].type = u
        PROVE  ValueIn(conditions', u) = ValueIn(conditions, u)
    <3>1. PICK j \in 1..Len(conditions') : Old(j) = k
      BY Zenon, <1>0, <1>3, <2>2
    <3>2. conditions'[j] = conditions[k]
      BY Zenon, <1>1, <3>1
    <3>3. ValueIn(conditions', conditions'[j].type) = conditions'[j].value
      BY Zenon, <1>0, <1>5, ValueThere
    <3>4. ValueIn(conditions, conditions[k].type) = conditions[k].value
      BY Zenon, ValueThere
    <3> QED BY Zenon, <2>2, <3>2, <3>3, <3>4
  <2>3. ASSUME \A k \in 1..Len(conditions) : conditions[k].type # u
        PROVE  ValueIn(conditions', u) = ValueIn(conditions, u)
    <3>1. \A j \in 1..Len(conditions') : conditions'[j].type # u
      BY Zenon, <1>1, <2>3
    <3> QED BY Zenon, <2>3, <3>1, ValueNotThere
  <2> QED BY <2>1, <2>2, <2>3
<1>8. View' = [u \in Type |-> ValueIn(conditions', u)]
  BY DEF View, ValueIn
<1> QED BY Zenon, <1>5, <1>6, <1>7, <1>8 DEF View

(* ... when one is replaced;                                                *)
LEMMA ReplacedList ==
    ASSUME conditions \in Seq(List!Condition), List!Unique(conditions),
           NEW c \in List!Condition, NEW m \in 1..Len(conditions), Replaced(m, c)
    PROVE  /\ List!Unique(conditions') /\ Ordered
           /\ View' = [View EXCEPT ![c.type] = c.value]
<1>0. conditions' \in Seq(List!Condition) /\ conditions[m].type = c.type
      /\ Len(conditions') = Len(conditions)
      /\ conditions'[m] = c /\ \A j \in 1..Len(conditions) : j # m => conditions'[j] = conditions[j]
  BY Zenon DEF Replaced
<1>1. \A j \in 1..Len(conditions) : conditions'[j].type = conditions[j].type
  BY Zenon, <1>0
<1>2. List!Unique(conditions')
  BY Zenon, <1>0, <1>1 DEF List!Unique
<1>3. Ordered
  BY Zenon, <1>0, <1>1 DEF Ordered, List!Unique
<1>4. ASSUME NEW u \in Type
      PROVE  ValueIn(conditions', u) = IF u = c.type THEN c.value ELSE ValueIn(conditions, u)
  <2>1. CASE u = c.type
    BY Zenon, <1>0, <1>2, <2>1, ValueThere
  <2>2. ASSUME u # c.type, NEW k \in 1..Len(conditions), conditions[k].type = u
        PROVE  ValueIn(conditions', u) = ValueIn(conditions, u)
    <3>1. conditions'[k] = conditions[k] /\ k \in 1..Len(conditions')
      BY Zenon, <1>0, <2>2
    <3>2. ValueIn(conditions', conditions'[k].type) = conditions'[k].value
      BY Zenon, <1>0, <1>2, <3>1, ValueThere
    <3>3. ValueIn(conditions, conditions[k].type) = conditions[k].value
      BY Zenon, ValueThere
    <3> QED BY Zenon, <2>2, <3>1, <3>2, <3>3
  <2>3. ASSUME \A k \in 1..Len(conditions) : conditions[k].type # u
        PROVE  ValueIn(conditions', u) = ValueIn(conditions, u)
    <3>1. \A j \in 1..Len(conditions') : conditions'[j].type # u
      BY Zenon, <1>0, <1>1, <2>3
    <3> QED BY Zenon, <2>3, <3>1, ValueNotThere
  <2> QED BY Zenon, <2>1, <2>2, <2>3
<1>5. View' = [u \in Type |-> ValueIn(conditions', u)]
  BY DEF View, ValueIn
<1> QED BY Zenon, <1>2, <1>3, <1>4, <1>5 DEF View

(* ... and when a new one is appended.                                      *)
LEMMA AddedList ==
    ASSUME conditions \in Seq(List!Condition), List!Unique(conditions),
           NEW c \in List!Condition, Added(c)
    PROVE  /\ List!Unique(conditions') /\ Ordered
           /\ View' = [View EXCEPT ![c.type] = c.value]
<1> DEFINE n == Len(conditions) + 1
<1>0. /\ conditions' \in Seq(List!Condition) /\ Len(conditions') = n
      /\ n \in 1..n /\ conditions'[n] = c
      /\ \A j \in 1..Len(conditions) : j \in 1..n /\ j # n /\ conditions'[j] = conditions[j]
      /\ \A j \in 1..Len(conditions) : conditions[j].type # c.type
      /\ \A j \in 1..n : j # n => j \in 1..Len(conditions)
  BY DEF Added
<1> HIDE DEF n
<1>2. List!Unique(conditions')
  BY <1>0 DEF List!Unique
<1>3. Ordered
  <2>1. \A i \in 1..Len(conditions'), k \in 1..Len(conditions) :
           conditions'[i].type = conditions[k].type => i = k
    BY Zenon, <1>0 DEF List!Unique
  <2> QED BY Zenon, <2>1 DEF Ordered
<1>4. ASSUME NEW u \in Type
      PROVE  ValueIn(conditions', u) = IF u = c.type THEN c.value ELSE ValueIn(conditions, u)
  <2>1. CASE u = c.type
    BY Zenon, <1>0, <1>2, <2>1, ValueThere
  <2>2. ASSUME u # c.type, NEW k \in 1..Len(conditions), conditions[k].type = u
        PROVE  ValueIn(conditions', u) = ValueIn(conditions, u)
    <3>1. conditions'[k] = conditions[k] /\ k \in 1..Len(conditions')
      BY <1>0, <2>2
    <3>2. ValueIn(conditions', conditions'[k].type) = conditions'[k].value
      BY Zenon, <1>0, <1>2, <3>1, ValueThere
    <3>3. ValueIn(conditions, conditions[k].type) = conditions[k].value
      BY Zenon, ValueThere
    <3> QED BY Zenon, <2>2, <3>1, <3>2, <3>3
  <2>3. ASSUME u # c.type, \A k \in 1..Len(conditions) : conditions[k].type # u
        PROVE  ValueIn(conditions', u) = ValueIn(conditions, u)
    <3>1. \A j \in 1..Len(conditions') : conditions'[j].type # u
      BY Zenon, <1>0, <2>3
    <3> QED BY Zenon, <2>3, <3>1, ValueNotThere
  <2> QED BY Zenon, <2>1, <2>2, <2>3
<1>5. View' = [u \in Type |-> ValueIn(conditions', u)]
  BY Zenon DEF View, ValueIn
<1> QED BY Zenon, <1>2, <1>3, <1>4, <1>5 DEF View

-----------------------------------------------------------------------------
(* Every step keeps the invariant and the order.                            *)
LEMMA ReturnStep ==
    ASSUME IInv, Returned
    PROVE  IInv' /\ Ordered
<1>0. conditions \in Seq(List!Condition) /\ List!Unique(conditions)
  BY Zenon DEF IInv, List!TypeOK
<1>1. conditions' \in Seq(List!Condition) /\ List!Unique(conditions') /\ Ordered
  <2>1. ASSUME NEW t \in Type, NotThere(t) PROVE List!Unique(conditions') /\ Ordered
    BY Zenon, <1>0, <2>1 DEF NotThere, List!Unique, Ordered
  <2>2. ASSUME NEW t \in Type, NEW m \in 1..Len(conditions), Deleted(m, t)
        PROVE  List!Unique(conditions') /\ Ordered
    BY Zenon, <1>0, <2>2, DeletedList
  <2>3. ASSUME NEW c \in List!Condition, Added(c) PROVE List!Unique(conditions') /\ Ordered
    BY Zenon, <1>0, <2>3, AddedList
  <2>4. ASSUME NEW c \in List!Condition, NEW m \in 1..Len(conditions), Replaced(m, c)
        PROVE  List!Unique(conditions') /\ Ordered
    BY Zenon, <1>0, <2>4, ReplacedList
  <2>5. conditions' \in Seq(List!Condition)
    BY Zenon, <1>0 DEF Returned, NotThere, Deleted, Added, Replaced
  <2> QED BY Zenon, <2>1, <2>2, <2>3, <2>4, <2>5 DEF Returned
<1>2. call' = List!Idle /\ ecs' = <<>> /\ length' = 0 /\ idx' = 1
  BY Zenon DEF Returned
<1>3. List!TypeOK'
  BY <1>1, <1>2 DEF List!TypeOK
<1> QED BY Zenon, <1>1, <1>2, <1>3, Calls DEF IInv, List!Unique

(* Beginning a call keeps the invariant and the list.                       *)
LEMMA AskStep ==
    ASSUME IInv, Asked
    PROVE  IInv' /\ conditions' = conditions
<1>0. conditions \in Seq(List!Condition) /\ List!Unique(conditions)
  BY DEF IInv, List!TypeOK
<1>1. /\ conditions' = conditions /\ ecs' = conditions
      /\ length' = Len(conditions) /\ idx' = 1
      /\ call' \in {List!Deleting(t) : t \in Type} \cup {List!Setting(c) : c \in List!Condition}
  BY Zenon DEF Asked, Begun
<1>2. List!TypeOK'
  BY <1>0, <1>1 DEF List!TypeOK
<1>3. \A t : NotYet(t)'
  BY <1>0, <1>1 DEF NotYet
<1> QED BY Zenon, <1>0, <1>1, <1>2, <1>3, Calls DEF IInv, List!Unique

(* A list that does not change is in order.                                 *)
LEMMA SameList ==
    ASSUME IInv, conditions' = conditions
    PROVE  Ordered
  BY Zenon DEF IInv, List!TypeOK, List!Unique, Ordered

(* Every step keeps the invariant and the order.                            *)
LEMMA InvStep ==
    ASSUME IInv, [List!Next]_(List!vars)
    PROVE  IInv' /\ Ordered
<1>1. CASE List!Next
  BY Zenon, <1>1, Steps, AskStep, LoopStep, ReturnStep, SameList
<1>2. CASE UNCHANGED List!vars
  <2>1. UNCHANGED <<conditions, call, ecs, length, idx>>
    BY Zenon, <1>2 DEF List!vars
  <2>2. IInv'
    BY <2>1 DEF IInv, List!TypeOK, List!Unique, NotYet, Done, Closed
  <2> QED BY Zenon, <2>1, <2>2, SameList
<1> QED BY <1>1, <1>2

(* The inductive invariant, from which everything below follows.            *)
THEOREM InvariantHolds == List!Spec => []IInv
<1>1. List!Init => IInv
  BY Zenon, InvInit
<1>2. IInv /\ [List!Next]_(List!vars) => IInv'
  BY InvStep
<1> QED BY <1>1, <1>2, PTL DEF List!Spec

(* For lists of any length: no condition type appears twice, and the loop   *)
(* of DeleteCondition, which shortens the slice it ranges over, never       *)
(* slices beyond its end.                                                   *)
THEOREM NoDuplicatesNoPanic == List!Spec => []UniqueAndNoPanic
<1>1. IInv => UniqueAndNoPanic
  BY DEF IInv, UniqueAndNoPanic, List!UniqueAndNoPanic
<1> QED BY <1>1, InvariantHolds, PTL

(* For lists of any length: SetConditions and DeleteCondition keep the      *)
(* order of the conditions they do not touch.                               *)
THEOREM OrderKept == List!Spec => KeepsOrder
<1> DEFINE InOrder ==
        \A i, j \in 1..Len(conditions'), k, l \in 1..Len(conditions) :
            /\ i < j
            /\ conditions'[i].type = conditions[k].type
            /\ conditions'[j].type = conditions[l].type
            => k < l
<1>1. IInv /\ [List!Next]_(List!vars) => [InOrder]_(List!vars)
  BY InvStep DEF Ordered
<1>2. List!Spec => [][InOrder]_(List!vars)
  BY <1>1, InvariantHolds, PTL DEF List!Spec
<1> QED BY Zenon, <1>2 DEF KeepsOrder, List!KeepsOrder

-----------------------------------------------------------------------------
(* The list implements the map.                                             *)

(* The view of the callers is GetCondition of every type.                   *)
LEMMA ViewIsGet == View = [t \in Type |-> List!GetCondition(t)]
  BY Zenon DEF View, ValueIn, List!GetCondition

(* A list a package comes with represents an initial map.                   *)
LEMMA MapInit ==
    ASSUME IInv, List!Init
    PROVE  List!Map!Init
<1>1. View \in [Type -> List!Value \cup {List!NoValue}]
  BY Zenon, ValueType DEF View, IInv, List!TypeOK
<1>2. call = List!Map!Idle
  BY DEF List!Init, List!Idle, List!Map!Idle
<1> QED BY Zenon, <1>1, <1>2, ViewIsGet DEF List!Map!Init

(* A step of the list is a step of the map, or changes nothing of it.       *)
LEMMA MapStep ==
    ASSUME IInv, [List!Next]_(List!vars)
    PROVE  [List!Map!Next]_<<[t \in Type |-> List!GetCondition(t)], call>>
<1> DEFINE Same == View' = View /\ call' = call
           Stepped == \E t \in Type :
              \/ call = List!Idle /\ call' = List!Deleting(t) /\ View' = View
              \/ /\ call = List!Deleting(t) /\ call' = List!Idle
                 /\ View' = [View EXCEPT ![t] = List!NoValue]
              \/ \E v \in List!Value :
                   LET c == [type |-> t, value |-> v] IN
                   \/ call = List!Idle /\ call' = List!Setting(c) /\ View' = View
                   \/ call = List!Setting(c) /\ call' = List!Idle /\ View' = [View EXCEPT ![t] = v]
<1>0. conditions \in Seq(List!Condition) /\ List!Unique(conditions)
  BY Zenon DEF IInv, List!TypeOK
<1>1. ASSUME conditions' = conditions PROVE View' = View
  BY Zenon, <1>1 DEF View, ValueIn
<1>2. ASSUME UNCHANGED List!vars PROVE Stepped \/ Same
  BY Zenon, <1>1, <1>2 DEF List!vars
<1>c. \A c \in List!Condition : /\ c.type \in Type /\ c.value \in List!Value
                                /\ c = [type |-> c.type, value |-> c.value]
  BY DEF List!Condition
<1>3. ASSUME Asked PROVE Stepped \/ Same
  <2>1. View' = View /\ call = List!Idle
    BY Zenon, <1>1, <1>3 DEF Asked, Begun
  <2>2. ASSUME NEW t \in Type, Begun(List!Deleting(t)) PROVE Stepped
    BY Zenon, <2>1, <2>2 DEF Begun
  <2>3. ASSUME NEW c \in List!Condition, Begun(List!Setting(c)) PROVE Stepped
    BY Zenon, <1>c, <2>1, <2>3 DEF Begun
  <2> QED BY Zenon, <1>3, <2>2, <2>3 DEF Asked
<1>4. ASSUME Looped PROVE Stepped \/ Same
  BY Zenon, <1>1, <1>4, LoopStep
<1>5. ASSUME Returned PROVE Stepped \/ Same
  <2>0. call' = List!Idle
    BY Zenon, <1>5 DEF Returned
  <2>1. ASSUME NEW t \in Type, call = List!Deleting(t), NotThere(t) PROVE Stepped
    <3>1. View' = View
      BY Zenon, <1>1, <2>1 DEF NotThere
    <3>2. View[t] = List!NoValue
      BY Zenon, <2>1, ValueNotThere DEF View, NotThere
    <3>3. View' = [View EXCEPT ![t] = List!NoValue]
      BY Zenon, <3>1, <3>2 DEF View
    <3> QED BY Zenon, <2>0, <2>1, <3>3
  <2>2. ASSUME NEW t \in Type, call = List!Deleting(t), NEW m \in 1..Len(conditions), Deleted(m, t)
        PROVE  Stepped
    BY Zenon, <1>0, <2>0, <2>2, DeletedList
  <2>3. ASSUME NEW c \in List!Condition, call = List!Setting(c),
               View' = [View EXCEPT ![c.type] = c.value]
        PROVE  Stepped
    BY Zenon, <1>c, <2>0, <2>3
  <2>4. ASSUME NEW c \in List!Condition, call = List!Setting(c), Added(c) PROVE Stepped
    <3>1. View' = [View EXCEPT ![c.type] = c.value]
      BY Zenon, <1>0, <2>4, AddedList
    <3> QED BY Zenon, <2>3, <2>4, <3>1
  <2>5. ASSUME NEW c \in List!Condition, call = List!Setting(c),
               NEW m \in 1..Len(conditions), Replaced(m, c)
        PROVE  Stepped
    <3>1. View' = [View EXCEPT ![c.type] = c.value]
      BY Zenon, <1>0, <2>5, ReplacedList
    <3> QED BY Zenon, <2>3, <2>5, <3>1
  <2> QED BY Zenon, <1>5, <2>1, <2>2, <2>4, <2>5 DEF Returned
<1>6. Stepped \/ Same
  BY Zenon, <1>2, <1>3, <1>4, <1>5, Steps
<1>7. View' = [t \in Type |-> List!GetCondition(t)]'
  BY Zenon DEF View, ValueIn, List!GetCondition
<1>8. Same => UNCHANGED <<[t \in Type |-> List!GetCondition(t)], call>>
  BY Zenon, <1>7, ViewIsGet
<1>9. Stepped => List!Map!Next
  BY Zenon, <1>7, ViewIsGet
  DEF List!Map!Next, List!Map!Ask, List!Map!Delete, List!Map!Set, List!Map!Idle,
      List!Map!Deleting, List!Map!Setting, List!Idle, List!Deleting, List!Setting
<1> QED BY Zenon, <1>6, <1>8, <1>9

(* For lists of any length: the list of conditions is a map from types to   *)
(* values of which every call changes the one entry it names.               *)
THEOREM ListIsMap == List!Spec => ImplementsMap
<1>1. IInv /\ List!Init => List!Map!Init
  BY Zenon, MapInit
<1>2. IInv /\ [List!Next]_(List!vars) =>
        [List!Map!Next]_<<[t \in Type |-> List!GetCondition(t)], call>>
  BY Zenon, MapStep
<1> QED BY <1>1, <1>2, InvariantHolds, PTL
        DEF List!Spec, ImplementsMap, List!ImplementsMap, List!Map!Spec

-----------------------------------------------------------------------------
(* The specializers, in SpecializerController.                              *)

Revisions == [here : BOOLEAN, published : BOOLEAN, gated : BOOLEAN, conds : SUBSET Kinds]
SeenType == [wanted : SUBSET Kinds, published : BOOLEAN, gated : BOOLEAN]
WorkerType == [pc : {"idle", "variant", "read", "process", "update"}, seen : SeenType,
               copy : Package]

(* What the functions of v leave of a package p.                            *)
Derived(v, c, p) ==
    /\ p.here /\ c.text = p.text /\ c.published = p.published /\ c.gate = p.gate
    /\ \A k \in Kinds \ Serves[v] : c.cond[k] = p.cond[k]

(* A copy whose version is still the latest one differs from the package    *)
(* only in what the controller itself has worked out.                       *)
CopyOK(v, r, latest, p) ==
    /\ r.seen.wanted \subseteq Serves[v]
    /\ r.pc = "process" /\ latest => p.here /\ r.copy = p
    /\ r.pc = "update" /\ latest => Derived(v, r.copy, p)
    /\ r.pc = "update" /\ v \in Generic => r.copy.gate # "True"

SpecializerInv ==
    /\ pkg \in Package /\ cache \in Revisions
    /\ worker \in [Workers -> WorkerType]
    /\ \A v \in Workers : CopyOK(v, worker[v], v \in fresh, pkg)

(* What EditsKept and ReadyIsKept say of a step.                            *)
OnlyOwn == \A v \in Workers : WritesOwnOnly(v)

NotReady == \A v \in Workers \intersect Generic : WritesUnready(v)

LEMMA Packages ==
    /\ Absent \in Package
    /\ \A p \in Package :
         /\ Rendered(p) \in Package
         /\ Rendered(p).text = p.text
         /\ Rendered(p).published = p.published
         /\ Rendered(p).cond = p.cond
         /\ Revision(p) \in Revisions
<1>1. Absent \in Package
  BY DEF Absent, Package, Status
<1>2. ASSUME NEW p \in Package
      PROVE  /\ Rendered(p) \in Package
             /\ Rendered(p).text = p.text
             /\ Rendered(p).published = p.published
             /\ Rendered(p).cond = p.cond
  BY Zenon DEF Rendered, Package, Status
<1>3. ASSUME NEW p \in Package
      PROVE  Revision(p) \in Revisions
  BY Zenon DEF Revision, Package, Revisions
<1> QED BY Zenon, <1>1, <1>2, <1>3

LEMMA IdleSpecializer ==
    /\ Idle \in WorkerType
    /\ \A v, latest, p : CopyOK(v, Idle, latest, p)
<1>1. Idle.pc = "idle" /\ Idle.seen.wanted = {}
  BY Zenon DEF Idle, Nothing
<1>2. Idle \in WorkerType
  BY Zenon, Packages DEF Idle, Nothing, WorkerType, SeenType
<1> QED BY Zenon, <1>1, <1>2 DEF CopyOK

LEMMA SpecializerInitial == Init => SpecializerInv
<1> SUFFICES ASSUME Init PROVE SpecializerInv
  OBVIOUS
<1>1. pkg \in Package /\ cache \in Revisions
  BY Packages DEF Init, NewPackages
<1>2. worker = [v \in Workers |-> Idle]
  BY Zenon DEF Init
<1> QED BY Zenon, <1>1, <1>2, IdleSpecializer DEF SpecializerInv

(* A new version makes every copy an old one.                               *)
LEMMA NewVersion ==
    ASSUME SpecializerInv, pkg' \in Package, fresh' = {},
           cache' = cache, worker' = worker
    PROVE  SpecializerInv' /\ OnlyOwn /\ NotReady
<1>1. \A v \in Workers : ~Writes(v)
  BY Zenon DEF Writes
<1>2. SpecializerInv'
  BY Zenon DEF SpecializerInv, CopyOK
<1> QED BY Zenon, <1>1, <1>2
          DEF OnlyOwn, NotReady, WritesOwnOnly, WritesUnready

LEMMA PackageEdited ==
    ASSUME SpecializerInv,
           \/ EditText \/ EditSpec \/ Publish
           \/ Delete \/ Create
    PROVE  SpecializerInv' /\ OnlyOwn /\ NotReady
<1> SUFFICES pkg' \in Package /\ fresh' = {} /\ cache' = cache /\ worker' = worker
  BY Zenon, NewVersion
<1>0. pkg \in Package
  BY Zenon DEF SpecializerInv
<1>1. CASE EditText
  BY Zenon, <1>0, <1>1 DEF EditText, Edit, Package
<1>2. CASE EditSpec
  <2>1. PICK k \in Kinds : Edit(Rendered([pkg EXCEPT !.cond[k] = "False"]))
    BY Zenon, <1>2 DEF EditSpec
  <2>2. [pkg EXCEPT !.cond[k] = "False"] \in Package
    BY <1>0 DEF Package, Status
  <2> QED BY Zenon, <2>1, <2>2, Packages DEF Edit
<1>3. CASE Publish
  BY Zenon, <1>0, <1>3 DEF Publish, Edit, Package
<1>4. CASE Delete
  BY Zenon, <1>4, Packages DEF Delete, Edit
<1>5. CASE Create
  <2>1. \A p \in NewPackages : p \in Package
    BY Zenon, Packages DEF NewPackages
  <2> QED BY Zenon, <1>5, <2>1 DEF Create, Edit
<1> QED BY Zenon, <1>1, <1>2, <1>3, <1>4, <1>5

LEMMA SpecializerUndisturbed ==
    ASSUME SpecializerInv, pkg' = pkg, fresh' = fresh, worker' = worker, cache' \in Revisions
    PROVE  SpecializerInv' /\ OnlyOwn /\ NotReady
BY DEF SpecializerInv, CopyOK, OnlyOwn, NotReady, WritesOwnOnly,
       WritesUnready, Writes

LEMMA SpecializerEnvironment ==
    ASSUME SpecializerInv, Environment
    PROVE  SpecializerInv' /\ OnlyOwn /\ NotReady
<1>1. CASE SetPackageVariant
  BY Zenon, <1>1, SpecializerUndisturbed DEF SetPackageVariant, SpecializerInv
<1>2. CASE CacheSync
  BY Zenon, <1>2, SpecializerUndisturbed, Packages
  DEF CacheSync, counters, SpecializerInv
<1>3. CASE Crash
  <2>1. /\ pkg' = pkg /\ cache' = Revision(pkg)
        /\ worker' = [v \in Workers |-> Idle]
    BY <1>3 DEF Crash
  <2>2. SpecializerInv'
    BY Zenon, <2>1, Packages, IdleSpecializer DEF SpecializerInv
  <2> QED BY Zenon, <2>1, <2>2
          DEF OnlyOwn, NotReady, WritesOwnOnly, WritesUnready,
              Writes
<1> QED BY Zenon, <1>1, <1>2, <1>3, PackageEdited DEF Environment

(* A step of one worker that leaves the package alone.                      *)
LEMMA WorkerMoves ==
    ASSUME SpecializerInv, NEW v \in Workers, NEW r \in WorkerType,
           worker' = [worker EXCEPT ![v] = r], pkg' = pkg, cache' = cache,
           fresh' \subseteq fresh \union {v}, CopyOK(v, r, v \in fresh', pkg)
    PROVE  SpecializerInv' /\ OnlyOwn /\ NotReady
<1>1. worker' \in [Workers -> WorkerType] /\ worker'[v] = r
      /\ \A x \in Workers \ {v} : worker'[x] = worker[x]
  BY Zenon DEF SpecializerInv
<1>2. \A x \in Workers \ {v} : CopyOK(x, worker'[x], x \in fresh', pkg)
  BY Zenon, <1>1 DEF SpecializerInv, CopyOK
<1>3. SpecializerInv'
  BY Zenon, <1>1, <1>2 DEF SpecializerInv
<1> QED BY Zenon, <1>3
          DEF OnlyOwn, NotReady, WritesOwnOnly, WritesUnready,
              Writes

LEMMA SpecializerLeaves ==
    ASSUME SpecializerInv, NEW v \in Workers, Leave(v), pkg' = pkg, cache' = cache
    PROVE  SpecializerInv' /\ OnlyOwn /\ NotReady
BY Zenon, WorkerMoves, IdleSpecializer DEF Leave

(* The copy is only made, or only worked on, in these steps.                *)
LEMMA SpecializerGoes ==
    ASSUME SpecializerInv, NEW v \in Workers, NEW step \in {"variant", "read", "process", "update"},
           NEW seen \in SeenType, NEW copy \in Package,
           Goto(v, step, seen, copy), pkg' = pkg, cache' = cache,
           fresh' \subseteq fresh \union {v},
           CopyOK(v, [pc |-> step, seen |-> seen, copy |-> copy], v \in fresh', pkg)
    PROVE  SpecializerInv' /\ OnlyOwn /\ NotReady
<1>1. [pc |-> step, seen |-> seen, copy |-> copy] \in WorkerType
  BY Zenon DEF WorkerType
<1> QED BY Zenon, <1>1, WorkerMoves DEF Goto

LEMMA SpecializerReads ==
    ASSUME SpecializerInv, NEW v \in Workers, Get(v)
    PROVE  SpecializerInv' /\ OnlyOwn /\ NotReady
<1> DEFINE rev == IF v \in Generic THEN Revision(pkg) ELSE cache
           seen == Seen(v, rev)
<1>1. pkg' = pkg /\ cache' = cache /\ fresh' = fresh
  BY DEF Get, Porch
<1>2. CASE worker' = worker
  BY Zenon, <1>1, <1>2, SpecializerUndisturbed DEF SpecializerInv
<1>3. ASSUME NEW step \in {"variant", "read"},
             Goto(v, step, seen, Absent)
      PROVE  SpecializerInv' /\ OnlyOwn /\ NotReady
  <2>1. rev \in Revisions
    BY Zenon, Packages DEF SpecializerInv
  <2>2. seen \in SeenType /\ seen.wanted \subseteq Serves[v]
    <3> HIDE DEF rev
    <3> QED BY Zenon, <2>1
            DEF Seen, HasSpecificTypeConditions, Revisions, SeenType
  <2> HIDE DEF seen
  <2>3. CopyOK(v, [pc |-> step, seen |-> seen, copy |-> Absent], v \in fresh', pkg)
    BY Zenon, <2>2 DEF CopyOK
  <2> QED BY Zenon, <1>1, <1>3, <2>2, <2>3, SpecializerGoes, Packages
<1>4. \/ worker' = worker
      \/ \E step \in {"variant", "read"} : Goto(v, step, seen, Absent)
  BY DEF Get
<1> QED BY Zenon, <1>2, <1>3, <1>4

LEMMA WorkerFields ==
    ASSUME SpecializerInv, NEW v \in Workers
    PROVE  /\ worker[v].seen \in SeenType /\ worker[v].copy \in Package
           /\ CopyOK(v, worker[v], v \in fresh, pkg)
BY Zenon DEF SpecializerInv, WorkerType

LEMMA SpecializerWaits ==
    ASSUME SpecializerInv, NEW v \in Workers, PackageVariantReady(v)
    PROVE  SpecializerInv' /\ OnlyOwn /\ NotReady
<1>1. pkg' = pkg /\ cache' = cache
  BY DEF PackageVariantReady, Porch
<1>2. CASE Leave(v)
  BY Zenon, <1>1, <1>2, SpecializerLeaves
<1>3. CASE Goto(v, "read", worker[v].seen, Absent) /\ fresh' = fresh
  <2>1. CopyOK(v, [pc |-> "read", seen |-> worker[v].seen, copy |-> Absent],
               v \in fresh', pkg)
    BY Zenon, WorkerFields DEF CopyOK
  <2> QED BY Zenon, <1>1, <1>3, <2>1, SpecializerGoes, Packages, WorkerFields
<1> QED BY Zenon, <1>2, <1>3
        DEF PackageVariantReady, Return, Requeue

LEMMA ResourcesRead ==
    ASSUME SpecializerInv, NEW v \in Workers, GetResources(v)
    PROVE  SpecializerInv' /\ OnlyOwn /\ NotReady
<1>1. pkg' = pkg /\ cache' = cache
  BY DEF GetResources, Porch
<1>2. CASE Requeue(v)
  BY Zenon, <1>1, <1>2, SpecializerLeaves DEF Requeue
<1>3. CASE pkg.here /\ Goto(v, "process", worker[v].seen, pkg)
           /\ fresh' = fresh \union {v}
  <2>1. CopyOK(v, [pc |-> "process", seen |-> worker[v].seen, copy |-> pkg], v \in fresh', pkg)
    BY Zenon, <1>3, WorkerFields DEF CopyOK
  <2>2. pkg \in Package
    BY Zenon DEF SpecializerInv
  <2> QED BY Zenon, <1>1, <1>3, <2>1, <2>2, SpecializerGoes, WorkerFields
<1> QED BY Zenon, <1>2, <1>3 DEF GetResources

LEMMA SpecializerPersists ==
    ASSUME SpecializerInv, NEW v \in Workers, NEW c \in Package,
           worker[v].pc = "process", Persist(v, c), pkg' = pkg, cache' = cache,
           c.text = worker[v].copy.text, c.published = worker[v].copy.published,
           c.gate = worker[v].copy.gate,
           \A k \in Kinds \ Serves[v] : c.cond[k] = worker[v].copy.cond[k]
    PROVE  SpecializerInv' /\ OnlyOwn /\ NotReady
<1>1. CASE Return(v)
  BY Zenon, <1>1, SpecializerLeaves DEF Return
<1>2. CASE /\ Goto(v, "update", worker[v].seen, c) /\ fresh' = fresh
           /\ v \in Generic => ~PackageRevisionIsReady(worker[v].seen, c)
  <2>1. v \in fresh => Derived(v, c, pkg)
    BY WorkerFields DEF CopyOK, Derived
  <2>2. v \in Generic => c.gate # "True"
    BY Zenon, <1>2 DEF PackageRevisionIsReady
  <2>3. CopyOK(v, [pc |-> "update", seen |-> worker[v].seen, copy |-> c], v \in fresh', pkg)
    BY Zenon, <1>2, <2>1, <2>2, WorkerFields DEF CopyOK
  <2> QED BY Zenon, <1>2, <2>3, SpecializerGoes, WorkerFields
<1> QED BY Zenon, <1>1, <1>2 DEF Persist

(* The functions answer for the kinds of their controller only.             *)
LEMMA SpecializerProcesses ==
    ASSUME SpecializerInv, NEW v \in Workers,
           Process(v) \/ ProcessFails(v)
    PROVE  SpecializerInv' /\ OnlyOwn /\ NotReady
<1>1. pkg' = pkg /\ cache' = cache /\ worker[v].pc = "process"
  BY Zenon DEF Process, ProcessFails, Porch
<1>2. CASE Process(v)
  <2>1. PICK down \in SUBSET worker[v].seen.wanted :
          Persist(v, Processed(worker[v].copy, worker[v].seen.wanted, down))
    BY Zenon, <1>2 DEF Process
  <2>2. PICK p, ks, c : /\ p = worker[v].copy /\ ks = worker[v].seen.wanted
                        /\ c = Processed(p, ks, down)
    OBVIOUS
  <2>3. ks \in SUBSET Serves[v] /\ p \in Package
    BY Zenon, <2>2, WorkerFields DEF CopyOK
  <2>4. /\ c \in Package
        /\ c.text = p.text /\ c.published = p.published /\ c.gate = p.gate
        /\ \A k \in Kinds \ Serves[v] : c.cond[k] = p.cond[k]
    BY Zenon, <2>2, <2>3 DEF Processed, Package, Status
  <2>5. Persist(v, c)
    BY Zenon, <2>1, <2>2
  <2> QED BY Zenon, <1>1, <2>2, <2>4, <2>5, SpecializerPersists
<1>3. CASE ProcessFails(v)
  BY Zenon, <1>1, <1>3, SpecializerLeaves, SpecializerPersists, WorkerFields
  DEF ProcessFails, Return
<1> QED BY Zenon, <1>2, <1>3

LEMMA SpecializerUpdates ==
    ASSUME SpecializerInv, NEW v \in Workers, Update(v)
    PROVE  SpecializerInv' /\ OnlyOwn /\ NotReady
<1>1. CASE Requeue(v) /\ pkg' = pkg
  BY Zenon, <1>1, SpecializerLeaves DEF Requeue, Update
<1>2. CASE /\ v \in fresh /\ pkg' = Rendered(worker[v].copy)
           /\ fresh' = {} \/ (pkg' = pkg /\ fresh' = fresh \ {v})
           /\ worker' = [worker EXCEPT ![v] = Idle]
  <2>0. worker[v].pc = "update" /\ cache' = cache
    BY Zenon DEF Update
  <2>1. CASE pkg' = pkg
    BY Zenon, <1>2, <2>0, <2>1, WorkerMoves, IdleSpecializer
  <2>2. CASE fresh' = {}
    <3>1. pkg' \in Package /\ Derived(v, worker[v].copy, pkg)
          /\ (v \in Generic => worker[v].copy.gate # "True")
      BY Zenon, <1>2, <2>0, WorkerFields, Packages DEF CopyOK
    <3>2. /\ worker' \in [Workers -> WorkerType] /\ worker'[v] = Idle
          /\ \A x \in Workers \ {v} : worker'[x] = worker[x]
      BY Zenon, <1>2, IdleSpecializer DEF SpecializerInv
    <3>3. \A x \in Workers \ {v} : CopyOK(x, worker'[x], x \in fresh', pkg')
      BY Zenon, <2>2, <3>2 DEF SpecializerInv, CopyOK
    <3>4. SpecializerInv'
      BY Zenon, <2>0, <3>1, <3>2, <3>3, IdleSpecializer DEF SpecializerInv
    <3>5. \A x \in Workers : Writes(x) => x = v
      BY Zenon, <3>2 DEF Writes
    <3>6. /\ pkg.here /\ pkg'.text = pkg.text /\ pkg'.published = pkg.published
          /\ \A k \in Kinds \ Serves[v] : pkg'.cond[k] = pkg.cond[k]
          /\ v \in Generic => pkg.gate # "True"
      BY Zenon, <1>2, <3>1, WorkerFields, Packages DEF Derived
    <3> QED BY Zenon, <3>4, <3>5, <3>6
          DEF OnlyOwn, NotReady, WritesOwnOnly, WritesUnready
  <2> QED BY Zenon, <1>2, <2>1, <2>2
<1> QED BY Zenon, <1>1, <1>2 DEF Update

LEMMA SpecializerStep ==
    ASSUME SpecializerInv, [Next]_vars
    PROVE  SpecializerInv' /\ OnlyOwn /\ NotReady
<1>1. CASE UNCHANGED vars
  BY Zenon, <1>1, SpecializerUndisturbed DEF vars, SpecializerInv
<1>2. ASSUME NEW v \in Workers, CallFails(v)
      PROVE  SpecializerInv' /\ OnlyOwn /\ NotReady
  BY Zenon, <1>2, SpecializerLeaves
  DEF CallFails, Requeue, Porch
<1> QED BY Zenon, <1>1, <1>2, SpecializerEnvironment, SpecializerReads, SpecializerWaits,
           ResourcesRead, SpecializerProcesses, SpecializerUpdates
        DEF Next, Reconcile

(* The specializers, any number of them, with users and Porch in between,   *)
(* write back a whole package and change nothing in it but the conditions   *)
(* of their own kinds and the gate.                                         *)
THEOREM SpecializerKeepsEdits == Spec => EditsKept
<1>1. SpecializerInv /\ [Next]_vars => SpecializerInv'
  BY Zenon, SpecializerStep
<1>2. SpecializerInv /\ [Next]_vars =>
        [\A w \in Workers : WritesOwnOnly(w)]_vars
  BY Zenon, SpecializerStep DEF OnlyOwn
<1> QED BY <1>1, <1>2, SpecializerInitial, PTL
        DEF Spec, EditsKept

(* The generic specializer never writes a package that meets its gate,      *)
(* whatever it makes of the claims when it refreshes them.                  *)
THEOREM ReadyPackageKept == Spec => ReadyIsKept
<1>1. SpecializerInv /\ [Next]_vars => SpecializerInv'
  BY SpecializerStep
<1>2. SpecializerInv /\ [Next]_vars =>
        [\A w \in Generic : WritesUnready(w)]_vars
  BY Zenon, SpecializerStep, SpecializerConstants DEF NotReady
<1> QED BY <1>1, <1>2, SpecializerInitial, PTL
        DEF Spec, ReadyIsKept
=============================================================================
