----------------------------- MODULE MCBootstrap -----------------------------
(* Two clusters with unrelated names; every resource for the first one names *)
(* it, and one of those for the second does not.                             *)
EXTENDS ClusterControllers, SequencesExt

MCNameIn == [c \in Clusters |-> {c}]
MCLists == {<<"edge">>, <<"core", "edge">>}
MCAnnotated == [edge |-> Resources, core |-> {"namespace"}]
MCOrders == SetToSeqs(Clusters)
MCStarts == {{"bootstrap-secret", "bootstrap-packages"}, {"workloadidentity"}}
==============================================================================
