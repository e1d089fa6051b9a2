--------------------------- MODULE CaseLifecycle ---------------------------
(***************************************************************************)
(* What the case workflow promises: each support case follows one path     *)
(* through the stage graph, one stage at a time, and nobody ever edits     *)
(* the part of the path already walked.                                    *)
(***************************************************************************)
EXTENDS Naturals, Sequences, CaseStages

CONSTANT Cases

VARIABLE trail   \* the stages each case has been through

Init == trail = [c \in Cases |-> <<"recommended">>]

Move(c) ==
  \E s \in NextStages[trail[c][Len(trail[c])]] :
    trail' = [trail EXCEPT ![c] = Append(@, s)]

Next == \E c \in Cases : Move(c)

Spec == Init /\ [][Next]_trail
=============================================================================
