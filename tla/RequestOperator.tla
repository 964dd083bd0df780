--------------------------- MODULE RequestOperator ---------------------------
(***************************************************************************)
(* The operator behind the O2IMS interface beside that of its client:      *)
(* O2imsOperator, with bounds of its own.                                  *)
(***************************************************************************)
EXTENDS Naturals

CONSTANTS RenderTimeout, CreationTimeout,
          MaxOpEdits, MaxOpFaults                \* MaxEdits and MaxFaults

ASSUME O2imsBounds ==
    RenderTimeout \in Nat /\ CreationTimeout \in Nat /\ MaxOpEdits \in Nat /\ MaxOpFaults \in Nat

VARIABLES pr, done, handled, resume, pv, cluster, op, opEdits, opFaults

Operator ==
    INSTANCE O2imsOperator
    WITH edits <- opEdits, faults <- opFaults, MaxEdits <- MaxOpEdits, MaxFaults <- MaxOpFaults

OperatorSpec == Operator!FairSpec

(* The status follows the lifecycle that clients of the interface rely on.  *)
ImplementsRequest == Operator!ImplementsRequest

(* A decision stands until a restart of the operator.                       *)
DecisionStands == Operator!DecisionStands

(* The timeouts end every wait.                                             *)
EventuallyOver == Operator!EventuallyOver
==============================================================================
