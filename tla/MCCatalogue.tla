---------------------------- MODULE MCCatalogue ----------------------------
(* Requests to the catalogue one after the other: even then a user who asks  *)
(* for the removal of a resource for himself takes it out of the index that  *)
(* everybody searches.                                                       *)
EXTENDS Catalogue

CONSTANTS u1, u2
TwoUsers == {u1, u2}
=============================================================================
