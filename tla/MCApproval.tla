----------------------------- MODULE MCApproval -----------------------------
(***************************************************************************)
(* An instance of the approval controller: revisions with and without      *)
(* owner, with every policy and with delays that are bad, over and not.    *)
(***************************************************************************)
EXTENDS ApprovalController

Variant(p, d, o) == [policy |-> p, delay |-> d, owned |-> o]

MCVariants ==
    {Variant("initial", NoDelay, TRUE), Variant("initial", BadDelay, FALSE),
     Variant("always", 1, FALSE), Variant("other", NoDelay, FALSE)}
=============================================================================
