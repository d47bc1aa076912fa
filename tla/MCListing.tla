------------------------------ MODULE MCListing ------------------------------
(* Listing on a small instance.                                             *)
EXTENDS Listing, TLC

\* Tasks and event ids are only ever compared for equality.
Symmetry == Permutations(Tasks) \cup Permutations(EventIds)
=============================================================================
