------------------------ MODULE ProvisioningRequest -------------------------
(***************************************************************************)
(* What an O-Cloud promises about a ProvisioningRequest to those who       *)
(* submit one and read its status: it goes from nothing over progressing   *)
(* to fulfilled or failed, is refused at once if it is not valid, and may  *)
(* be worked on again after it was decided.  When it is withdrawn it goes, *)
(* at once or after a while.                                               *)
(***************************************************************************)

VARIABLE request

States == {"none", "progressing", "deleting", "fulfilled", "failed"}

NoRequest == [here |-> FALSE, deleting |-> FALSE, state |-> "none"]
NewRequest == [NoRequest EXCEPT !.here = TRUE]

Decided == {"fulfilled", "failed"}

Moves == {<<"none", "progressing">>, <<"none", "failed">>} \union ({"progressing"} \X Decided)

Init == request = NoRequest

Submit == ~request.here /\ request' = NewRequest

Work ==
    /\ request.here /\ ~request.deleting
    /\ \E s \in States : /\ <<request.state, s>> \in Moves
                         /\ request' = [request EXCEPT !.state = s]

WorkAgain ==
    /\ request.here /\ ~request.deleting /\ request.state \in Decided
    /\ request' = [request EXCEPT !.state = "progressing"]

Withdraw ==
    /\ request.here /\ ~request.deleting
    /\ request' \in {NoRequest, [request EXCEPT !.deleting = TRUE]}

Remove ==
    /\ request.deleting
    /\ \/ request.state # "deleting" /\ request' = [request EXCEPT !.state = "deleting"]
       \/ request' = NoRequest

Next == Submit \/ Work \/ WorkAgain \/ Withdraw \/ Remove

Spec == Init /\ [][Next]_request
=============================================================================
