-------------------------- MODULE MCNoticeIngest --------------------------
(***************************************************************************)
(* Two identities of two sources (or two notices of one source), titles    *)
(* that differ in case only, one deadline or none.                         *)
(***************************************************************************)
EXTENDS NoticeIngest, TLC

CONSTANTS i1, i2, s1, s2, r1, r2

MCFolded == [t \in {"aid", "Aid"} |-> "aid"]

MCSimilar == {<<"aid", "aid">>}

MCContents == {[title |-> "aid", end |-> 1], [title |-> "Aid", end |-> 1],
               [title |-> "aid", end |-> NoDate]}

MCNoticeId == [i \in Identities |-> IF i = i1 THEN 1 ELSE 2]

TwoSources == [i \in Identities |-> IF i = i1 THEN s1 ELSE s2]

OneSource == [i \in Identities |-> s1]

Symmetry == Permutations(Ingestors)
=============================================================================
