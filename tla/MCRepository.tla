---------------------------- MODULE MCRepository ----------------------------
(* A Repository that is created with a description or without. *)
EXTENDS RepositoryController

MCDesired == {<<"nil", "a">>, <<"a", "a">>, <<"b", "b">>}
=============================================================================
