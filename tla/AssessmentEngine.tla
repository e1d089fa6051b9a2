-------------------------- MODULE AssessmentEngine --------------------------
(***************************************************************************)
(* The deterministic assessment of one applicant profile against the rules *)
(* of one program: the evaluators of each rule kind, the promotion of      *)
(* contradictions between official sources, the final status, and the      *)
(* roadmap derived from it (rules/*.py, matching/roadmap.py).              *)
(*                                                                         *)
(* The engine keeps no state.  What changes between two assessments of a   *)
(* program is its rule rows and the reference date: they are the variables *)
(* here, and an assessment is an operator over them.  Rule rows are any    *)
(* the engine accepts, not only the required ones that need review which   *)
(* documents/ingest.py stores.  Explanations, error ids and evidence ids   *)
(* are left out; codes are compared after normalized_code, URLs after      *)
(* canonical_http_url.                                                     *)
(***************************************************************************)
EXTENDS Integers, Sequences, FiniteSets, Eligibility

CONSTANTS
  Nothing,   \* an absent fact, metric or canonical URL
  Blank,     \* a code that is empty once normalized
  Calendar,  \* bound: the reference dates
  Profiles,  \* applicant profiles
  Pool,      \* rule rows a program may get
  MaxRules   \* bound: rules of the program

Date == [y: Int, m: 1..12, d: 1..31]

AgeKinds == {"business_age_months", "representative_age"}

SetKinds == {"region", "industry", "duplicate_benefit"}

RuleKind == AgeKinds \cup SetKinds \cup {"performance", "natural_language"}

VARIABLES
  reference,  \* reference date of an assessment made now
  profile,    \* the applicant
  rules       \* rules of the program in the order of their ids

vars == <<reference, profile, rules>>

-----------------------------------------------------------------------------
(* The calendar: datetime.date and calendar.monthrange.                    *)

IsLeap(y) == (y % 4 = 0 /\ y % 100 # 0) \/ y % 400 = 0

DaysIn(y, m) ==
  CASE m = 2                -> IF IsLeap(y) THEN 29 ELSE 28
    [] m \in {4, 6, 9, 11}  -> 30
    [] OTHER                -> 31

Before(a, b) ==
  \/ a.y < b.y
  \/ a.y = b.y /\ a.m < b.m
  \/ a.y = b.y /\ a.m = b.m /\ a.d < b.d

Following(day) ==
  CASE day.d < DaysIn(day.y, day.m) -> [day EXCEPT !.d = @ + 1]
    [] day.d = DaysIn(day.y, day.m) /\ day.m < 12
         -> [day EXCEPT !.d = 1, !.m = @ + 1]
    [] day.d = DaysIn(day.y, day.m) /\ day.m = 12
         -> [y |-> day.y + 1, m |-> 1, d |-> 1]

(* The day of the month is cut to the length of the month it falls in.     *)
Anniversary(founded, months) ==
  LET y == founded.y + (founded.m - 1 + months) \div 12
      m == ((founded.m - 1 + months) % 12) + 1
  IN  [y |-> y, m |-> m,
       d |-> IF founded.d < DaysIn(y, m) THEN founded.d ELSE DaysIn(y, m)]

MonthsBetween(founded, day) == (day.y - founded.y) * 12 + day.m - founded.m

(* Seeded fault: compares days of the month, uncut.                        *)
FaultUncut(founded, day) ==
  IF day.d < founded.d THEN MonthsBetween(founded, day) - 1
                       ELSE MonthsBetween(founded, day)

CompletedMonths(founded, day) ==
  LET months == MonthsBetween(founded, day) IN
  IF Before(day, Anniversary(founded, months)) THEN months - 1 ELSE months

-----------------------------------------------------------------------------
(* A value is a "number", a list of "codes", a "metric" with its threshold *)
(* or "malformed"; numbers are whole.                                      *)
Facts == {"founded", "born", "regions", "industries", "benefits", "performance"}

ASSUME EngineAssumption ==
  /\ \A day \in Calendar : day \in Date /\ day.d <= DaysIn(day.y, day.m)
  /\ \A p \in Profiles :
       /\ DOMAIN p = Facts
       /\ p.founded = Nothing \/ p.founded \in Date
  /\ \A r \in Pool :
       /\ r.id \in Nat /\ r.kind \in RuleKind /\ r.required \in BOOLEAN
       /\ r.expected.form = "number" => r.expected.limit \in Int
  /\ MaxRules \in Nat

-----------------------------------------------------------------------------
(* Evaluators.                                                             *)

Verdict(holds) == IF holds THEN "satisfied" ELSE "unsatisfied"

(* Seeded fault: the inclusive bounds are exchanged.                       *)
FaultExchanged(actual, operator, limit) ==
  CASE operator = "lte" -> Verdict(actual >= limit)
    [] operator = "gte" -> Verdict(actual <= limit)
    [] OTHER            -> "unknown"

NumericComparison(actual, operator, limit) ==
  CASE operator = "lte" -> Verdict(actual <= limit)
    [] operator = "lt"  -> Verdict(actual < limit)
    [] operator = "gte" -> Verdict(actual >= limit)
    [] operator = "gt"  -> Verdict(actual > limit)
    [] OTHER            -> "unknown"

(* A negative age is a malformed profile.                                  *)
AgeStatus(age, rule) ==
  IF rule.expected.form # "number" \/ age < 0 THEN "unknown"
  ELSE NumericComparison(age, rule.operator, rule.expected.limit)

BusinessAgeStatus(p, rule, day) ==
  IF p.founded = Nothing THEN "unknown"
  ELSE AgeStatus(CompletedMonths(p.founded, day), rule)

RepresentativeAgeStatus(p, rule, day) ==
  IF p.born = Nothing THEN "unknown" ELSE AgeStatus(day.y - p.born, rule)

(* performance holds the numbers of the profile whose key is in normal     *)
(* form: the metric is normalized, the keys it is looked up in are not.    *)
PerformanceStatus(p, rule) ==
  IF \/ rule.expected.form # "metric"
     \/ rule.expected.metric \notin DOMAIN p.performance
  THEN "unknown"
  ELSE NumericComparison(p.performance[rule.expected.metric],
                         rule.operator, rule.expected.limit)

Overlap(a, b) == a \cap b # {}

(* Seeded fault: who has no codes has none of the excluded ones.           *)
FaultVacuous(facts, rule) ==
  IF rule.expected.form # "codes" \/ Blank \in facts THEN "unknown"
  ELSE Verdict(Overlap(facts, rule.expected.codes) = (rule.operator = "in"))

CodeSetStatus(facts, rule) ==
  IF \/ facts = {} \/ Blank \in facts
     \/ rule.expected.form # "codes"
     \/ rule.operator \notin {"in", "not_in"}
  THEN "unknown"
  ELSE Verdict(Overlap(facts, rule.expected.codes) = (rule.operator = "in"))

RegionStatus(p, rule) == CodeSetStatus(p.regions, rule)

IndustryStatus(p, rule) == CodeSetStatus(p.industries, rule)

(* The same tests in another order, with codes of their own.               *)
DuplicateBenefitStatus(p, rule) == CodeSetStatus(p.benefits, rule)

(***************************************************************************)
(* The status of one rule.  A RuntimeError of an injected evaluator would  *)
(* be "unknown" as well; the built-in ones raise none.                     *)
(***************************************************************************)
Evaluated(p, rule, day) ==
  CASE rule.kind = "business_age_months" -> BusinessAgeStatus(p, rule, day)
    [] rule.kind = "representative_age"  -> RepresentativeAgeStatus(p, rule, day)
    [] rule.kind = "performance"         -> PerformanceStatus(p, rule)
    [] rule.kind = "region"              -> RegionStatus(p, rule)
    [] rule.kind = "industry"            -> IndustryStatus(p, rule)
    [] rule.kind = "duplicate_benefit"   -> DuplicateBenefitStatus(p, rule)
    [] rule.kind = "natural_language"    -> "unknown"

(* An optional rule that is not met is a condition, not an exclusion.      *)
RawStatus(rule, status) ==
  IF ~rule.required /\ status = "unsatisfied" THEN "conditional" ELSE status

-----------------------------------------------------------------------------
(* Contradictions between sources (conflicts.py).  evidence is the set of  *)
(* document and canonical URL of a rule's evidence rows.                   *)

Documents(rule) == {e.document : e \in rule.evidence}

Urls(rule) == {e.url : e \in rule.evidence}

(* Two attachments of one notice carry the URL of that notice.             *)
DistinctSources(left, right) ==
  /\ ~Overlap(Documents(left), Documents(right))
  /\ Nothing \notin Urls(left) \cup Urls(right)
  /\ ~Overlap(Urls(left), Urls(right))

Direction(rule) ==
  CASE rule.operator \in {"gte", "gt"} -> "lower"
    [] rule.operator \in {"lte", "lt"} -> "upper"
    [] OTHER                           -> "none"

SameDirection(left, right) ==
  Direction(left) = Direction(right) /\ Direction(left) # "none"

Comparable(left, right) ==
  /\ left.kind = right.kind
  /\ \/ left.kind \in AgeKinds /\ SameDirection(left, right)
     \/ /\ left.kind = "performance" /\ SameDirection(left, right)
        /\ left.expected.form = "metric" /\ right.expected.form = "metric"
        /\ left.expected.metric = right.expected.metric
     \/ /\ left.kind \in SetKinds
        /\ left.expected.form = "codes" /\ right.expected.form = "codes"
        /\ Overlap(left.expected.codes, right.expected.codes)

Opposed(s, t) == {s, t} = {"satisfied", "unsatisfied"}

(* Seeded fault: only the rule that comes first has to be required.        *)
FaultFirstRequired(left, s, right, t) ==
  /\ left.required
  /\ Opposed(s, t) /\ DistinctSources(left, right) /\ Comparable(left, right)

Contradicts(left, s, right, t) ==
  /\ left.required /\ right.required
  /\ Opposed(s, t)
  /\ DistinctSources(left, right)
  /\ Comparable(left, right)

(* Seeded fault: only the second rule of a pair is promoted.               *)
FaultSecondOnly(list, raw) ==
  [i \in DOMAIN raw |->
     IF \E j \in DOMAIN raw :
          j < i /\ Contradicts(list[j], raw[j], list[i], raw[i])
     THEN "conflict" ELSE raw[i]]

(* promote_conflicts: every pair is looked at once, the earlier rule left. *)
Promoted(list, raw) ==
  [i \in DOMAIN raw |->
     IF \E j \in DOMAIN raw :
          \/ i < j /\ Contradicts(list[i], raw[i], list[j], raw[j])
          \/ j < i /\ Contradicts(list[j], raw[j], list[i], raw[i])
     THEN "conflict" ELSE raw[i]]

-----------------------------------------------------------------------------
(* One assessment and its roadmap.                                         *)

(* _validate_rules; rows have an id and one program by their query.        *)
InputErrors(list) ==
  CASE list = <<>> -> {"empty_rules"}
    [] \E i \in DOMAIN list : list[i].evidence = {} -> {"missing_evidence_id"}
    [] /\ \A i \in DOMAIN list : list[i].evidence # {}
       /\ \E i, j \in DOMAIN list : list[i].version # list[j].version
         -> {"mixed_rule_versions"}
    [] OTHER -> {}

RawItems(p, list, day) ==
  [i \in DOMAIN list |-> RawStatus(list[i], Evaluated(p, list[i], day))]

Items(p, list, day) == Promoted(list, RawItems(p, list, day))

StatusesOf(items) == {items[i] : i \in DOMAIN items}

(* Seeded fault: the rows decide, whatever the outcome is.                 *)
FaultRowsOnly(list, items) ==
  IF \E i \in DOMAIN list : list[i].review = "review_required"
  THEN "review_required" ELSE "automatic"

ReviewOf(list, items) ==
  IF \/ \E i \in DOMAIN list : list[i].review = "review_required"
     \/ Overlap(StatusesOf(items), {"unknown", "conflict"})
  THEN "review_required" ELSE "automatic"

Assessment(p, list, day) ==
  LET items == Items(p, list, day) IN
  [items  |-> items,
   final  |-> AggregateFinalStatus(StatusesOf(items)),
   review |-> ReviewOf(list, items)]

(* Conditions to satisfy; other final statuses keep questions only.        *)
RoadmapActions(a) ==
  {i \in DOMAIN a.items : /\ a.final \in {"conditional", "needs_review"}
                          /\ a.items[i] = "conditional"}

OpenItems(a) == {i \in DOMAIN a.items : a.items[i] \in {"unknown", "conflict"}}

(* 0 stands for the question about the assessment as a whole.              *)
RoadmapQuestions(a) ==
  IF a.final = "needs_review" /\ OpenItems(a) = {} THEN {0} ELSE OpenItems(a)

-----------------------------------------------------------------------------
Init ==
  /\ reference \in Calendar
  /\ profile \in Profiles
  /\ rules = <<>>

(***************************************************************************)
(* One more row of eligibility_rules that can be loaded.  Pool may hold    *)
(* any row that _load_rule accepts; those extracted from documents are     *)
(* always required and to be reviewed.                                     *)
(***************************************************************************)
LearnRule ==
  /\ Len(rules) < MaxRules
  /\ \E r \in Pool :
       /\ \A i \in DOMAIN rules : rules[i].id < r.id
       /\ rules' = Append(rules, r)
  /\ UNCHANGED <<reference, profile>>

(***************************************************************************)
(* The program's reference date moves on, by the days between two dates of *)
(* its current notices, so that no boundary between them is stepped over.  *)
(***************************************************************************)
NextDay ==
  /\ Following(reference) \in Calendar
  /\ reference' = Following(reference)
  /\ UNCHANGED <<profile, rules>>

Next == LearnRule \/ NextDay

Spec == Init /\ [][Next]_vars

Assessable == InputErrors(rules) = {}

Current == Assessment(profile, rules, reference)

-----------------------------------------------------------------------------
(* Properties.                                                             *)

(* Every assessment that is made is made of the statuses of domain/enums.  *)
TypeOK ==
  /\ reference \in Calendar
  /\ profile \in Profiles
  /\ rules \in Seq(Pool) /\ Len(rules) <= MaxRules
  /\ Assessable => /\ Current.items \in [DOMAIN rules -> ConditionStatus]
                   /\ Current.final \in FinalStatus
                   /\ Current.review \in ReviewStatus

(***************************************************************************)
(* completed_business_age_months returns the number of monthly             *)
(* anniversaries that have passed, cut to short months, around every month *)
(* end and leap day: the last one counted is not in the future, and the    *)
(* next one is.                                                            *)
(***************************************************************************)
CountsAnniversaries(founded, day) ==
  LET n == CompletedMonths(founded, day) IN
  /\ ~Before(day, Anniversary(founded, n))
  /\ Before(day, Anniversary(founded, n + 1))

MonthsAreCompleted ==
  profile.founded # Nothing => CountsAnniversaries(profile.founded, reference)

(***************************************************************************)
(* As days pass the age of a business never goes back and never skips a    *)
(* month, so an upper bound that is broken stays broken and a lower bound  *)
(* that is met stays met.                                                  *)
(***************************************************************************)
AgeVerdict(rule, day) == BusinessAgeStatus(profile, rule, day)

VerdictsAgeOneWay ==
  [][profile.founded # Nothing =>
      /\ CompletedMonths(profile.founded, reference')
           - CompletedMonths(profile.founded, reference) \in {0, 1}
      /\ \A i \in DOMAIN rules : rules[i].kind = "business_age_months" =>
           LET before == AgeVerdict(rules[i], reference)
               after  == AgeVerdict(rules[i], reference')
           IN  /\ Direction(rules[i]) = "upper" /\ before = "unsatisfied"
                    => after = "unsatisfied"
               /\ Direction(rules[i]) = "lower" /\ before = "satisfied"
                    => after = "satisfied"]_vars

(***************************************************************************)
(* Which rules come out as conflicts does not depend on the order in which *)
(* the rows are read, although promote_conflicts looks at each pair from   *)
(* one side only.                                                          *)
(***************************************************************************)
Arrangements(n) ==
  {p \in [1..n -> 1..n] : /\ \A i, j \in 1..n : i # j => p[i] # p[j]
                          /\ \A k \in 1..n : \E j \in 1..n : p[j] = k}

PromotionIgnoresOrder ==
  \A p \in Arrangements(Len(rules)) :
    LET other == [i \in 1..Len(rules) |-> rules[p[i]]] IN
    \A i \in 1..Len(rules) :
      Items(profile, other, reference)[i] = Current.items[p[i]]

(***************************************************************************)
(* When two required rules of independent sources put comparable           *)
(* constraints on a fact and the applicant meets one only, neither source  *)
(* wins: both are shown as conflicts and asked about, a human has to look, *)
(* and the result is negative only because of some other rule.             *)
(***************************************************************************)
ContradictionsAreNotDecided ==
  Assessable =>
    \A i, j \in DOMAIN rules :
      LET raw == RawItems(profile, rules, reference) IN
      /\ rules[i].required /\ rules[j].required
      /\ raw[i] = "satisfied" /\ raw[j] = "unsatisfied"
      /\ DistinctSources(rules[i], rules[j]) /\ Comparable(rules[i], rules[j])
      => /\ {i, j} \subseteq RoadmapQuestions(Current)
         /\ Current.review = "review_required"
         /\ Current.final # "needs_review" =>
              /\ Current.final = "ineligible"
              /\ \E k \in DOMAIN rules \ {i, j} : raw[k] = "unsatisfied"

(***************************************************************************)
(* A profile that leaves a fact out is never judged better for it: what it *)
(* is eligible for, it is eligible for with the fact as well.              *)
(***************************************************************************)
LessKnown ==
  {[profile EXCEPT !.founded = Nothing], [profile EXCEPT !.born = Nothing],
   [profile EXCEPT !.regions = {}], [profile EXCEPT !.industries = {}],
   [profile EXCEPT !.benefits = {}], [profile EXCEPT !.performance = <<>>]}

SilenceNeverQualifies ==
  Assessable =>
    \A p \in LessKnown :
      Assessment(p, rules, reference).final = "eligible"
        => Current.final = "eligible"

(***************************************************************************)
(* The roadmap explains the final status: a review is about a condition it *)
(* names, a conditional result names what to satisfy and nothing else, an  *)
(* eligible one leaves nothing open, and nothing is asked of an assessment *)
(* that no human has to see.                                               *)
(***************************************************************************)
RoadmapExplainsTheVerdict ==
  Assessable =>
    LET actions   == RoadmapActions(Current)
        questions == RoadmapQuestions(Current)
    IN
    /\ 0 \notin questions
    /\ Current.final = "needs_review" => questions # {}
    /\ Current.final = "conditional"  => actions # {} /\ questions = {}
    /\ Current.final = "eligible"     => actions \cup questions = {}
    /\ Current.review = "automatic"   => questions = {}
=============================================================================
