----------------------------- MODULE CaseStages -----------------------------
(***************************************************************************)
(* The support-case workflow graph (domain/enums.py, _next_stages).        *)
(***************************************************************************)

CaseStage ==
  {"recommended", "contacted", "consulted", "applying", "submitted",
   "selected", "not_selected", "closed"}

NextStages ==
  [recommended  |-> {"contacted", "closed"},
   contacted    |-> {"consulted", "closed"},
   consulted    |-> {"applying", "closed"},
   applying     |-> {"submitted", "closed"},
   submitted    |-> {"selected", "not_selected", "closed"},
   selected     |-> {"closed"},
   not_selected |-> {"closed"},
   closed       |-> {}]
=============================================================================
