---------------------------- MODULE MCSourceListing ----------------------------
(* Five notices on pages of one or two, and a page size that is refused.    *)
EXTENDS SourceListing, TLC

CONSTANTS n1, n2, n3, n4, n5

Symmetry == Permutations(Notices)
================================================================================
