----------------------------- MODULE MCWorkspace -----------------------------
(* One managed company, two sessions that match, read and review;            *)
(* two sources, one of which may change its words or only their spacing.     *)
EXTENDS Workspace, TLC

CONSTANTS s1, s2, a1

CompanyProfiles == <<1>>

FirstNotice == [identity |-> "bizinfo", snapshot |-> 1, reference |-> 2]

SourceNotices ==
  {FirstNotice,
   [identity |-> "bizinfo", snapshot |-> 1, reference |-> 1],
   [identity |-> "bizinfo", snapshot |-> 2, reference |-> 2],
   [identity |-> "kstartup", snapshot |-> 1, reference |-> 1]}

Symmetry == Permutations(Sessions)
=============================================================================
