---------------------------- MODULE MCAttachments ----------------------------
(* Two or three attachments, a limit below their number, two collectors.   *)
EXTENDS Attachments, TLC

CONSTANTS c1, c2

Symmetry == Permutations(Collectors)
=============================================================================
