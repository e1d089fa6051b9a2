----------------------- MODULE AssessmentEngineProofs -----------------------
(***************************************************************************)
(* What the engine promises, for every rule pool, every applicant and      *)
(* every calendar; and the ranking of a search, for every catalogue.       *)
(***************************************************************************)
EXTENDS Matching, TLAPS

(* Outcomes of an evaluator, and of a rule before promotion.               *)
Outcomes == {"satisfied", "unsatisfied", "unknown"}

RawStatuses == Outcomes \cup {"conditional"}

-----------------------------------------------------------------------------
(* Completed months.                                                       *)

(* k months after month fm of year fy comes month m of year y.             *)
LeadsTo(fy, fm, k, y, m) ==
  /\ fy + (fm - 1 + k) \div 12 = y
  /\ ((fm - 1 + k) % 12) + 1 = m

LEMMA MonthArithmetic ==
  ASSUME NEW fy \in Int, NEW fm \in Int, NEW y \in Int, NEW m \in 1..12,
         NEW k \in Int, k = (y - fy) * 12 + m - fm
  PROVE  LeadsTo(fy, fm, k, y, m)
<1>1. fm - 1 + k = (y - fy) * 12 + (m - 1)
  OBVIOUS
<1>2. ((y - fy) * 12 + (m - 1)) \div 12 = y - fy
  OBVIOUS
<1>3. ((y - fy) * 12 + (m - 1)) % 12 = m - 1
  OBVIOUS
<1> QED
  BY <1>1, <1>2, <1>3 DEF LeadsTo

(***************************************************************************)
(* The anniversary after as many months as lie between the founding and    *)
(* some month falls into that month, whatever its day is cut to.           *)
(***************************************************************************)
FallsInto(f, k, y, m) == Anniversary(f, k).y = y /\ Anniversary(f, k).m = m

LEMMA AnniversaryMonth ==
  ASSUME NEW f \in Date, NEW y \in Int, NEW m \in 1..12,
         NEW k \in Int, k = (y - f.y) * 12 + m - f.m
  PROVE  FallsInto(f, k, y, m)
<1>1. f.y \in Int /\ f.m \in Int
  BY DEF Date
<1>2. LeadsTo(f.y, f.m, k, y, m)
  BY <1>1, MonthArithmetic
<1>3. /\ Anniversary(f, k).y = f.y + (f.m - 1 + k) \div 12
      /\ Anniversary(f, k).m = ((f.m - 1 + k) % 12) + 1
  BY DEF Anniversary
<1> QED
  BY <1>2, <1>3 DEF LeadsTo, FallsInto

(***************************************************************************)
(* The anniversary one month before the month of a day is past, the one a  *)
(* month after it is to come.                                              *)
(***************************************************************************)
SoonerMonth(a, b) == a.y < b.y \/ (a.y = b.y /\ a.m < b.m)

LEMMA EarlierMonth ==
  ASSUME NEW f \in Date, NEW day \in Date
  PROVE  /\ Anniversary(f, MonthsBetween(f, day) - 1).y \in Int
         /\ Anniversary(f, MonthsBetween(f, day) - 1).m \in Int
         /\ SoonerMonth(Anniversary(f, MonthsBetween(f, day) - 1), day)
         /\ SoonerMonth(day, Anniversary(f, MonthsBetween(f, day) + 1))
<1> DEFINE past   == MonthsBetween(f, day) - 1
           coming == MonthsBetween(f, day) + 1
<1>1. f.y \in Int /\ f.m \in 1..12 /\ day.y \in Int /\ day.m \in 1..12
  BY DEF Date
<1>2. past \in Int /\ coming \in Int
  BY <1>1 DEF MonthsBetween
<1>3. IF day.m = 1 THEN FallsInto(f, past, day.y - 1, 12)
                   ELSE FallsInto(f, past, day.y, day.m - 1)
  <2>1. CASE day.m = 1
    <3>1. past = ((day.y - 1) - f.y) * 12 + 12 - f.m
      BY <1>1, <2>1 DEF MonthsBetween
    <3> HIDE DEF past
    <3> QED
      BY <1>1, <1>2, <2>1, <3>1, AnniversaryMonth
  <2>2. CASE day.m # 1
    <3>1. past = (day.y - f.y) * 12 + (day.m - 1) - f.m
      BY <1>1, <2>2 DEF MonthsBetween
    <3> HIDE DEF past
    <3> QED
      BY <1>1, <1>2, <2>2, <3>1, AnniversaryMonth
  <2> QED
    BY <2>1, <2>2
<1>4. IF day.m = 12 THEN FallsInto(f, coming, day.y + 1, 1)
                    ELSE FallsInto(f, coming, day.y, day.m + 1)
  <2>1. CASE day.m = 12
    <3>1. coming = ((day.y + 1) - f.y) * 12 + 1 - f.m
      BY <1>1, <2>1 DEF MonthsBetween
    <3> HIDE DEF coming
    <3> QED
      BY <1>1, <1>2, <2>1, <3>1, AnniversaryMonth
  <2>2. CASE day.m # 12
    <3>1. coming = (day.y - f.y) * 12 + (day.m + 1) - f.m
      BY <1>1, <2>2 DEF MonthsBetween
    <3> HIDE DEF coming
    <3> QED
      BY <1>1, <1>2, <2>2, <3>1, AnniversaryMonth
  <2> QED
    BY <2>1, <2>2
<1> HIDE DEF past, coming
<1>5. /\ Anniversary(f, past).y \in Int /\ Anniversary(f, past).m \in Int
      /\ SoonerMonth(Anniversary(f, past), day)
  BY <1>1, <1>3 DEF FallsInto, SoonerMonth
<1>6. SoonerMonth(day, Anniversary(f, coming))
  BY <1>1, <1>4 DEF FallsInto, SoonerMonth
<1> QED
  BY <1>5, <1>6 DEF past, coming

(***************************************************************************)
(* completed_business_age_months, for every founding date and every day,   *)
(* in the future of it or not: the anniversary it counts last has come and *)
(* the next one has not.                                                   *)
(***************************************************************************)
THEOREM CompletedMonthsAreCounted ==
  ASSUME NEW f \in Date, NEW day \in Date
  PROVE  CountsAnniversaries(f, day)
<1> DEFINE n == MonthsBetween(f, day)
<1>1. n \in Int
  BY DEF MonthsBetween, Date
<1>2. ~Before(day, Anniversary(f, n - 1))
  BY EarlierMonth DEF SoonerMonth, Before, Date
<1>3. Before(day, Anniversary(f, n + 1))
  BY EarlierMonth DEF SoonerMonth, Before
<1>4. CASE Before(day, Anniversary(f, n))
  <2>1. CompletedMonths(f, day) = n - 1
    BY <1>4 DEF CompletedMonths
  <2>2. (n - 1) + 1 = n
    BY <1>1
  <2> HIDE DEF n
  <2> QED
    BY <1>2, <1>4, <2>1, <2>2 DEF CountsAnniversaries
<1>5. CASE ~Before(day, Anniversary(f, n))
  <2>1. CompletedMonths(f, day) = n
    BY <1>5 DEF CompletedMonths
  <2> HIDE DEF n
  <2> QED
    BY <1>3, <1>5, <2>1 DEF CountsAnniversaries
<1> QED
  BY <1>4, <1>5
-----------------------------------------------------------------------------
(* Types.                                                                  *)

LEMMA EvaluatedOutcome ==
  ASSUME NEW p, NEW r \in Pool, NEW day
  PROVE  Evaluated(p, r, day) \in Outcomes
<1>1. \A a, op, n : NumericComparison(a, op, n) \in Outcomes
  BY DEF NumericComparison, Verdict, Outcomes
<1>2. \A age : AgeStatus(age, r) \in Outcomes
  BY <1>1 DEF AgeStatus, Outcomes
<1>3. BusinessAgeStatus(p, r, day) \in Outcomes
  BY <1>2 DEF BusinessAgeStatus, Outcomes
<1>4. RepresentativeAgeStatus(p, r, day) \in Outcomes
  BY <1>2 DEF RepresentativeAgeStatus, Outcomes
<1>5. PerformanceStatus(p, r) \in Outcomes
  BY <1>1 DEF PerformanceStatus, Outcomes
<1>6. \A facts : CodeSetStatus(facts, r) \in Outcomes
  BY DEF CodeSetStatus, Verdict, Outcomes
<1>7. r.kind \in RuleKind
  BY EngineAssumption
<1>8. "unknown" \in Outcomes
  BY DEF Outcomes
<1> QED
  BY <1>3, <1>4, <1>5, <1>6, <1>7, <1>8
  DEF Evaluated, RegionStatus, IndustryStatus, DuplicateBenefitStatus,
      RuleKind, AgeKinds, SetKinds

LEMMA RawItemsType ==
  ASSUME NEW p, NEW list \in Seq(Pool), NEW day
  PROVE  RawItems(p, list, day) \in [DOMAIN list -> RawStatuses]
<1>1. \A i \in DOMAIN list : list[i] \in Pool
  OBVIOUS
<1> QED
  BY <1>1, EvaluatedOutcome DEF RawItems, RawStatus, RawStatuses, Outcomes

LEMMA ItemsType ==
  ASSUME NEW p, NEW list \in Seq(Pool), NEW day
  PROVE  Items(p, list, day) \in [DOMAIN list -> ConditionStatus]
BY RawItemsType DEF Items, Promoted, RawStatuses, Outcomes, ConditionStatus

LEMMA FinalType ==
  ASSUME NEW S
  PROVE  AggregateFinalStatus(S) \in FinalStatus
BY DEF AggregateFinalStatus, FinalStatus

LEMMA TypeInductive == Spec => [](/\ reference \in Calendar
                                  /\ profile \in Profiles
                                  /\ rules \in Seq(Pool)
                                  /\ Len(rules) <= MaxRules)
<1> DEFINE I == /\ reference \in Calendar
                /\ profile \in Profiles
                /\ rules \in Seq(Pool)
                /\ Len(rules) <= MaxRules
<1>1. Init => I
  BY EngineAssumption DEF Init
<1>2. I /\ [Next]_vars => I'
  <2> SUFFICES ASSUME I, [Next]_vars PROVE I'
    OBVIOUS
  <2>1. CASE LearnRule
    BY <2>1, EngineAssumption DEF LearnRule
  <2>2. CASE NextDay
    BY <2>2 DEF NextDay
  <2>3. CASE UNCHANGED vars
    BY <2>3 DEF vars
  <2> QED
    BY <2>1, <2>2, <2>3 DEF Next
<1> QED
  BY <1>1, <1>2, PTL DEF Spec

(* The statuses of every assessment are those of domain/enums.py.          *)
THEOREM TypeCorrect == Spec => []TypeOK
<1>1. /\ reference \in Calendar /\ profile \in Profiles
      /\ rules \in Seq(Pool) /\ Len(rules) <= MaxRules
      => TypeOK
  <2> SUFFICES ASSUME reference \in Calendar, profile \in Profiles,
                      rules \in Seq(Pool), Len(rules) <= MaxRules
               PROVE  TypeOK
    OBVIOUS
  <2>1. Current.items \in [DOMAIN rules -> ConditionStatus]
    BY ItemsType DEF Current, Assessment
  <2>2. Current.final \in FinalStatus
    BY FinalType DEF Current, Assessment
  <2>3. Current.review \in ReviewStatus
    BY DEF Current, Assessment, ReviewOf, ReviewStatus
  <2> QED
    BY <2>1, <2>2, <2>3 DEF TypeOK
<1> QED
  BY <1>1, TypeInductive, PTL

(* Months are counted right in every assessment that is made.              *)
THEOREM MonthsAreRight == Spec => []MonthsAreCompleted
<1>1. /\ reference \in Calendar /\ profile \in Profiles
      => MonthsAreCompleted
  BY EngineAssumption, CompletedMonthsAreCounted DEF MonthsAreCompleted
<1> QED
  BY <1>1, TypeInductive, PTL
-----------------------------------------------------------------------------
(* Promotion.                                                              *)

(* Which of two rules is looked at first makes no difference.              *)
LEMMA ContradictsSymmetric ==
  ASSUME NEW r \in Pool, NEW s, NEW q \in Pool, NEW t
  PROVE  Contradicts(r, s, q, t) <=> Contradicts(q, t, r, s)
<1>1. DistinctSources(r, q) <=> DistinctSources(q, r)
  BY DEF DistinctSources, Overlap
<1>2. SameDirection(r, q) <=> SameDirection(q, r)
  BY DEF SameDirection
<1>3. Comparable(r, q) <=> Comparable(q, r)
  BY <1>2 DEF Comparable, Overlap
<1>4. Opposed(s, t) <=> Opposed(t, s)
  BY DEF Opposed
<1> QED
  BY <1>1, <1>3, <1>4 DEF Contradicts

(* A rule is promoted exactly when it contradicts some other one.          *)
LEMMA PromotedItem ==
  ASSUME NEW list \in Seq(Pool), NEW raw, DOMAIN raw = DOMAIN list,
         NEW i \in DOMAIN list
  PROVE  Promoted(list, raw)[i] =
           IF \E j \in DOMAIN list \ {i} :
                Contradicts(list[i], raw[i], list[j], raw[j])
           THEN "conflict" ELSE raw[i]
<1>1. \A j \in DOMAIN list : list[j] \in Pool /\ j \in Int
  OBVIOUS
<1>2. \A j \in DOMAIN list :
        \/ i < j /\ Contradicts(list[i], raw[i], list[j], raw[j])
        \/ j < i /\ Contradicts(list[j], raw[j], list[i], raw[i])
        <=> j # i /\ Contradicts(list[i], raw[i], list[j], raw[j])
  BY <1>1, ContradictsSymmetric
<1> QED
  BY <1>2 DEF Promoted

(***************************************************************************)
(* promote_conflicts is a function of the set of rules: no order in which  *)
(* a query returns them changes the outcome of any of them.                *)
(***************************************************************************)
THEOREM OrderIsIrrelevant == Spec => []PromotionIgnoresOrder
<1>1. rules \in Seq(Pool) => PromotionIgnoresOrder
  <2> SUFFICES ASSUME rules \in Seq(Pool),
                      NEW p \in Arrangements(Len(rules)),
                      NEW i \in 1..Len(rules)
               PROVE  Items(profile, [k \in 1..Len(rules) |-> rules[p[k]]],
                            reference)[i] = Current.items[p[i]]
    BY DEF PromotionIgnoresOrder
  <2> DEFINE n     == Len(rules)
             other == [k \in 1..n |-> rules[p[k]]]
             rawO  == RawItems(profile, other, reference)
             rawR  == RawItems(profile, rules, reference)
  <2>1. /\ n \in Nat /\ DOMAIN rules = 1..n
        /\ \A k \in 1..n : rules[k] \in Pool
    OBVIOUS
  <2>2. /\ p \in [1..n -> 1..n]
        /\ \A j, k \in 1..n : j # k => p[j] # p[k]
    BY DEF Arrangements
  <2>3. other \in Seq(Pool) /\ DOMAIN other = 1..n
    BY <2>1, <2>2
  <2>4. \A k \in 1..n : other[k] = rules[p[k]] /\ rawO[k] = rawR[p[k]]
    BY <2>1, <2>2 DEF RawItems
  <2>5. DOMAIN rawO = 1..n /\ DOMAIN rawR = 1..n
    BY <2>1, <2>3 DEF RawItems
  <2>6. \A k \in 1..n : \E j \in 1..n : p[j] = k
    BY DEF Arrangements
  <2>7. p[i] \in 1..n
    BY <2>2
  <2> HIDE DEF other, rawO, rawR, n
  <2>8. (\E j \in 1..n \ {i} :
           Contradicts(other[i], rawO[i], other[j], rawO[j]))
        <=> (\E k \in 1..n \ {p[i]} :
               Contradicts(rules[p[i]], rawR[p[i]], rules[k], rawR[k]))
    <3>1. i \in 1..n
      BY DEF n
    <3>2. ASSUME NEW j \in 1..n \ {i},
                 Contradicts(other[i], rawO[i], other[j], rawO[j])
          PROVE  /\ p[j] \in 1..n \ {p[i]}
                 /\ Contradicts(rules[p[i]], rawR[p[i]],
                                rules[p[j]], rawR[p[j]])
      BY <2>2, <2>4, <3>1, <3>2
    <3>3. ASSUME NEW k \in 1..n \ {p[i]},
                 Contradicts(rules[p[i]], rawR[p[i]], rules[k], rawR[k])
          PROVE  \E j \in 1..n \ {i} :
                   Contradicts(other[i], rawO[i], other[j], rawO[j])
      <4>1. PICK j \in 1..n : p[j] = k
        BY <2>6
      <4> QED
        BY <2>4, <3>1, <3>3, <4>1
    <3> QED
      BY <3>2, <3>3
  <2>9. Promoted(other, rawO)[i] = Promoted(rules, rawR)[p[i]]
    <3>1. Promoted(other, rawO)[i] =
            IF \E j \in 1..n \ {i} :
                 Contradicts(other[i], rawO[i], other[j], rawO[j])
            THEN "conflict" ELSE rawO[i]
      BY <2>3, <2>5, PromotedItem DEF n
    <3>2. Promoted(rules, rawR)[p[i]] =
            IF \E k \in 1..n \ {p[i]} :
                 Contradicts(rules[p[i]], rawR[p[i]], rules[k], rawR[k])
            THEN "conflict" ELSE rawR[p[i]]
      BY <2>1, <2>5, <2>7, PromotedItem
    <3> QED
      BY <2>4, <2>8, <3>1, <3>2 DEF n
  <2> QED
    BY <2>9 DEF Items, Current, Assessment, other, rawO, rawR, n
<1> QED
  BY <1>1, TypeInductive, PTL
-----------------------------------------------------------------------------
(* Final status, roadmap and review.                                       *)

(* The precedence of aggregate_final_status, over what may occur.          *)
LEMMA Aggregation ==
  ASSUME NEW S \in SUBSET ConditionStatus
  PROVE  /\ AggregateFinalStatus(S) = "eligible" <=> S = {"satisfied"}
         /\ AggregateFinalStatus(S) = "conditional" <=>
              "conditional" \in S /\ S \subseteq {"satisfied", "conditional"}
         /\ AggregateFinalStatus(S) = "ineligible" <=> "unsatisfied" \in S
         /\ AggregateFinalStatus(S) = "needs_review" <=>
              \/ S = {}
              \/ /\ "unsatisfied" \notin S
                 /\ S \cap {"unknown", "conflict"} # {}
BY DEF AggregateFinalStatus, ConditionStatus

(* An assessment that is made has at least one item.                       *)
LEMMA AssessedItems ==
  ASSUME rules \in Seq(Pool), Assessable
  PROVE  /\ Current.items \in [DOMAIN rules -> ConditionStatus]
         /\ DOMAIN rules # {}
         /\ StatusesOf(Current.items) \in SUBSET ConditionStatus
         /\ StatusesOf(Current.items) # {}
         /\ Current.final = AggregateFinalStatus(StatusesOf(Current.items))
         /\ Current.review = ReviewOf(rules, Current.items)
<1>1. Current.items \in [DOMAIN rules -> ConditionStatus]
  BY ItemsType DEF Current, Assessment
<1>2. rules # <<>>
  BY DEF Assessable, InputErrors
<1>3. DOMAIN rules # {}
  BY <1>2
<1> QED
  BY <1>1, <1>3 DEF StatusesOf, Current, Assessment

(***************************************************************************)
(* build_roadmap explains every final status the engine can return.        *)
(***************************************************************************)
THEOREM RoadmapIsComplete == Spec => []RoadmapExplainsTheVerdict
<1>1. rules \in Seq(Pool) => RoadmapExplainsTheVerdict
  <2> SUFFICES ASSUME rules \in Seq(Pool), Assessable
               PROVE  RoadmapExplainsTheVerdict
    BY DEF RoadmapExplainsTheVerdict
  <2> DEFINE S == StatusesOf(Current.items)
  <2>1. /\ Current.items \in [DOMAIN rules -> ConditionStatus]
        /\ S \in SUBSET ConditionStatus /\ S # {}
        /\ Current.final = AggregateFinalStatus(S)
        /\ Current.review = ReviewOf(rules, Current.items)
    BY AssessedItems
  <2>2. 0 \notin DOMAIN rules
    OBVIOUS
  <2>3. S = {Current.items[i] : i \in DOMAIN rules}
    BY <2>1 DEF StatusesOf
  <2>4. OpenItems(Current) =
          {i \in DOMAIN rules : Current.items[i] \in {"unknown", "conflict"}}
    BY <2>1 DEF OpenItems
  <2>5. OpenItems(Current) = {} <=> S \cap {"unknown", "conflict"} = {}
    BY <2>3, <2>4
  <2> HIDE DEF S
  <2>6. Current.final = "needs_review" => OpenItems(Current) # {}
    BY <2>1, <2>5, Aggregation
  <2>7. RoadmapQuestions(Current) = OpenItems(Current)
    BY <2>6 DEF RoadmapQuestions
  <2>8. 0 \notin RoadmapQuestions(Current)
    BY <2>2, <2>4, <2>7
  <2>9. Current.final = "conditional" =>
          RoadmapActions(Current) # {} /\ RoadmapQuestions(Current) = {}
    <3> SUFFICES ASSUME Current.final = "conditional"
                 PROVE  /\ RoadmapActions(Current) # {}
                        /\ RoadmapQuestions(Current) = {}
      OBVIOUS
    <3>1. "conditional" \in S /\ S \subseteq {"satisfied", "conditional"}
      BY <2>1, Aggregation
    <3>2. PICK i \in DOMAIN rules : Current.items[i] = "conditional"
      BY <3>1, <2>3
    <3>3. i \in RoadmapActions(Current)
      BY <2>1, <3>2 DEF RoadmapActions
    <3> QED
      BY <2>5, <2>7, <3>1, <3>3
  <2>10. Current.final = "eligible" =>
           RoadmapActions(Current) \cup RoadmapQuestions(Current) = {}
    <3> SUFFICES ASSUME Current.final = "eligible"
                 PROVE  RoadmapActions(Current) \cup RoadmapQuestions(Current) = {}
      OBVIOUS
    <3>1. S = {"satisfied"}
      BY <2>1, Aggregation
    <3>2. RoadmapActions(Current) = {}
      BY DEF RoadmapActions
    <3> QED
      BY <2>5, <2>7, <3>1, <3>2
  <2>11. Current.review = "automatic" => RoadmapQuestions(Current) = {}
    BY <2>1, <2>5, <2>7 DEF ReviewOf, Overlap, S
  <2> QED
    BY <2>6, <2>7, <2>8, <2>9, <2>10, <2>11 DEF RoadmapExplainsTheVerdict
<1> QED
  BY <1>1, TypeInductive, PTL
-----------------------------------------------------------------------------
(* Contradictions.                                                         *)

(* Two sources that contradict each other are both conflicts.              *)
LEMMA BothPromoted ==
  ASSUME rules \in Seq(Pool),
         NEW i \in DOMAIN rules, NEW j \in DOMAIN rules, i # j,
         Contradicts(rules[i], RawItems(profile, rules, reference)[i],
                     rules[j], RawItems(profile, rules, reference)[j])
  PROVE  Current.items[i] = "conflict" /\ Current.items[j] = "conflict"
<1> DEFINE raw == RawItems(profile, rules, reference)
<1>1. DOMAIN raw = DOMAIN rules
  BY DEF RawItems
<1>2. rules[i] \in Pool /\ rules[j] \in Pool
  OBVIOUS
<1>3. Contradicts(rules[j], raw[j], rules[i], raw[i])
  BY <1>2, ContradictsSymmetric
<1>4. Contradicts(rules[i], raw[i], rules[j], raw[j])
  OBVIOUS
<1> HIDE DEF raw
<1>5. Promoted(rules, raw)[i] = "conflict"
  BY <1>1, <1>4, PromotedItem
<1>6. Promoted(rules, raw)[j] = "conflict"
  BY <1>1, <1>3, PromotedItem
<1> QED
  BY <1>5, <1>6 DEF Current, Assessment, Items, raw

(***************************************************************************)
(* When required rules of independent sources contradict each other the    *)
(* engine sides with neither, for every profile and every set of rules.    *)
(***************************************************************************)
THEOREM NoSideIsTaken == Spec => []ContradictionsAreNotDecided
<1>1. rules \in Seq(Pool) => ContradictionsAreNotDecided
  <2> DEFINE raw == RawItems(profile, rules, reference)
  <2> SUFFICES ASSUME rules \in Seq(Pool), Assessable,
                      NEW i \in DOMAIN rules, NEW j \in DOMAIN rules,
                      rules[i].required /\ rules[j].required,
                      raw[i] = "satisfied" /\ raw[j] = "unsatisfied",
                      DistinctSources(rules[i], rules[j]),
                      Comparable(rules[i], rules[j])
               PROVE  /\ {i, j} \subseteq RoadmapQuestions(Current)
                      /\ Current.review = "review_required"
                      /\ Current.final # "needs_review" =>
                           /\ Current.final = "ineligible"
                           /\ \E k \in DOMAIN rules \ {i, j} :
                                raw[k] = "unsatisfied"
    BY DEF ContradictionsAreNotDecided
  <2> DEFINE S == StatusesOf(Current.items)
  <2>1. /\ Current.items \in [DOMAIN rules -> ConditionStatus]
        /\ S \in SUBSET ConditionStatus
        /\ Current.final = AggregateFinalStatus(S)
        /\ Current.review = ReviewOf(rules, Current.items)
    BY AssessedItems
  <2>2. Current.items[i] = "conflict" /\ Current.items[j] = "conflict"
    <3>1. i # j
      OBVIOUS
    <3>2. Contradicts(rules[i], raw[i], rules[j], raw[j])
      BY DEF Contradicts, Opposed
    <3> QED
      BY <3>1, <3>2, BothPromoted
  <2>3. S = {Current.items[k] : k \in DOMAIN rules}
    BY <2>1 DEF StatusesOf
  <2>4. {i, j} \subseteq OpenItems(Current)
    BY <2>1, <2>2 DEF OpenItems
  <2>5. {i, j} \subseteq RoadmapQuestions(Current)
    BY <2>4 DEF RoadmapQuestions
  <2>6. "conflict" \in S
    BY <2>2, <2>3
  <2>7. Current.review = "review_required"
    BY <2>1, <2>6 DEF ReviewOf, Overlap
  <2>8. DOMAIN raw = DOMAIN rules
    BY DEF RawItems
  <2>9. \A k \in DOMAIN rules :
          Current.items[k] = "conflict" \/ Current.items[k] = raw[k]
    BY <2>8 DEF Current, Assessment, Items, Promoted
  <2> HIDE DEF S
  <2>10. Current.final # "needs_review" => "unsatisfied" \in S
    BY <2>1, <2>6, Aggregation DEF AggregateFinalStatus
  <2>11. "unsatisfied" \in S =>
           /\ Current.final = "ineligible"
           /\ \E k \in DOMAIN rules \ {i, j} : raw[k] = "unsatisfied"
    <3> SUFFICES ASSUME "unsatisfied" \in S
                 PROVE  /\ Current.final = "ineligible"
                        /\ \E k \in DOMAIN rules \ {i, j} :
                             raw[k] = "unsatisfied"
      OBVIOUS
    <3>1. PICK k \in DOMAIN rules : Current.items[k] = "unsatisfied"
      BY <2>3
    <3>2. k \notin {i, j} /\ raw[k] = "unsatisfied"
      BY <2>2, <2>9, <3>1
    <3>3. Current.final = "ineligible"
      BY <2>1, Aggregation
    <3> QED
      BY <3>2, <3>3
  <2> QED
    BY <2>5, <2>7, <2>10, <2>11
<1> QED
  BY <1>1, TypeInductive, PTL
-----------------------------------------------------------------------------
(* Missing facts.                                                          *)

(* A rule that is met without a fact does not look at it.                  *)
LEMMA SilentRule ==
  ASSUME profile \in Profiles, NEW p \in LessKnown, NEW r \in Pool,
         NEW day, Evaluated(p, r, day) = "satisfied"
  PROVE  Evaluated(profile, r, day) = "satisfied"
<1>1. DOMAIN profile = Facts
  BY EngineAssumption
<1>2. r.kind \in RuleKind
  BY EngineAssumption
<1>3. BusinessAgeStatus(p, r, day) = "satisfied"
        => BusinessAgeStatus(profile, r, day) = "satisfied"
  BY <1>1 DEF LessKnown, BusinessAgeStatus, Facts
<1>4. RepresentativeAgeStatus(p, r, day) = "satisfied"
        => RepresentativeAgeStatus(profile, r, day) = "satisfied"
  BY <1>1 DEF LessKnown, RepresentativeAgeStatus, Facts
<1>5. PerformanceStatus(p, r) = "satisfied"
        => PerformanceStatus(profile, r) = "satisfied"
  BY <1>1 DEF LessKnown, PerformanceStatus, Facts
<1>6. /\ p.regions = {} \/ p.regions = profile.regions
      /\ p.industries = {} \/ p.industries = profile.industries
      /\ p.benefits = {} \/ p.benefits = profile.benefits
  BY <1>1 DEF LessKnown, Facts
<1>7. CodeSetStatus({}, r) = "unknown"
  BY DEF CodeSetStatus
<1> QED
  BY <1>2, <1>3, <1>4, <1>5, <1>6, <1>7
  DEF Evaluated, RegionStatus, IndustryStatus, DuplicateBenefitStatus,
      RuleKind, AgeKinds, SetKinds

(* An assessment is eligible exactly when every rule is met.               *)
LEMMA EligibleItems ==
  ASSUME NEW p, NEW list \in Seq(Pool), NEW day, list # <<>>
  PROVE  Assessment(p, list, day).final = "eligible" <=>
           \A i \in DOMAIN list : Evaluated(p, list[i], day) = "satisfied"
<1>0. DOMAIN list # {}
  <2>1. list \in Seq(Pool) /\ list # <<>>
    OBVIOUS
  <2>2. Len(list) # 0
    BY <2>1
  <2>3. 1 \in DOMAIN list
    BY <2>1, <2>2
  <2> QED
    BY <2>3
<1> DEFINE items == Items(p, list, day)
           raw   == RawItems(p, list, day)
           S     == StatusesOf(items)
<1>1. /\ items \in [DOMAIN list -> ConditionStatus]
      /\ raw \in [DOMAIN list -> RawStatuses]
  BY ItemsType, RawItemsType
<1>2. S = {items[i] : i \in DOMAIN list}
  BY <1>1 DEF StatusesOf
<1>3. S \in SUBSET ConditionStatus
  BY <1>1, <1>2
<1>4. Assessment(p, list, day).final = AggregateFinalStatus(S)
  BY DEF Assessment
<1>5. \A i \in DOMAIN list :
        raw[i] = "satisfied" <=> Evaluated(p, list[i], day) = "satisfied"
  BY DEF RawItems, RawStatus
<1>6. ASSUME \A i \in DOMAIN list : raw[i] = "satisfied"
      PROVE  \A i \in DOMAIN list : items[i] = "satisfied"
  <2>1. \A i, j \in DOMAIN list :
          ~Contradicts(list[i], raw[i], list[j], raw[j])
    BY <1>6 DEF Contradicts, Opposed
  <2>2. \A i \in DOMAIN list : items[i] = raw[i]
    BY <1>1, <2>1 DEF Items, Promoted
  <2> QED
    BY <1>6, <2>2
<1>7. \A i \in DOMAIN list : items[i] = "satisfied" => raw[i] = "satisfied"
  BY <1>1 DEF Items, Promoted
<1> HIDE DEF items, raw, S
<1>9. S = {"satisfied"} <=> \A i \in DOMAIN list : items[i] = "satisfied"
  BY <1>2, <1>0
<1> QED
  BY <1>3, <1>4, <1>5, <1>6, <1>7, <1>9, Aggregation

(***************************************************************************)
(* No fact that is left out of a profile makes it eligible.                *)
(***************************************************************************)
THEOREM SilenceDoesNotQualify == Spec => []SilenceNeverQualifies
<1>1. rules \in Seq(Pool) /\ profile \in Profiles => SilenceNeverQualifies
  <2> SUFFICES ASSUME rules \in Seq(Pool), profile \in Profiles, Assessable,
                      NEW p \in LessKnown,
                      Assessment(p, rules, reference).final = "eligible"
               PROVE  Current.final = "eligible"
    BY DEF SilenceNeverQualifies
  <2>1. rules # <<>>
    BY DEF Assessable, InputErrors
  <2>2. \A i \in DOMAIN rules :
          Evaluated(p, rules[i], reference) = "satisfied"
    BY <2>1, EligibleItems
  <2>3. \A i \in DOMAIN rules : rules[i] \in Pool
    OBVIOUS
  <2>4. \A i \in DOMAIN rules :
          Evaluated(profile, rules[i], reference) = "satisfied"
    BY <2>2, <2>3, SilentRule
  <2> QED
    BY <2>1, <2>4, EligibleItems DEF Current
<1> QED
  BY <1>1, TypeInductive, PTL
-----------------------------------------------------------------------------
(* The next day.                                                           *)

(* The age computed on a day, and the two months it can be.                *)
LEMMA AgeInMonth ==
  ASSUME NEW f \in Date, NEW day \in Date
  PROVE  /\ MonthsBetween(f, day) \in Int
         /\ CompletedMonths(f, day) =
              IF Before(day, Anniversary(f, MonthsBetween(f, day)))
              THEN MonthsBetween(f, day) - 1 ELSE MonthsBetween(f, day)
BY DEF MonthsBetween, CompletedMonths, Date

(* The anniversary in the month of a day.                                  *)
LEMMA AnniversaryNow ==
  ASSUME NEW f \in Date, NEW day \in Date
  PROVE  /\ Anniversary(f, MonthsBetween(f, day)).y = day.y
         /\ Anniversary(f, MonthsBetween(f, day)).m = day.m
         /\ Anniversary(f, MonthsBetween(f, day)).d =
              IF f.d < DaysIn(day.y, day.m) THEN f.d ELSE DaysIn(day.y, day.m)
<1>1. day.y \in Int /\ day.m \in 1..12 /\ f.y \in Int /\ f.m \in 1..12
  BY DEF Date
<1> DEFINE n == MonthsBetween(f, day)
<1>2. n \in Int /\ n = (day.y - f.y) * 12 + day.m - f.m
  BY <1>1 DEF MonthsBetween
<1> HIDE DEF n
<1>3. FallsInto(f, n, day.y, day.m)
  BY <1>1, <1>2, AnniversaryMonth
<1>4. Anniversary(f, n).d =
        IF f.d < DaysIn(Anniversary(f, n).y, Anniversary(f, n).m)
        THEN f.d ELSE DaysIn(Anniversary(f, n).y, Anniversary(f, n).m)
  BY DEF Anniversary
<1> QED
  BY <1>3, <1>4 DEF FallsInto, n

(***************************************************************************)
(* Over a day within a month the anniversary can only be reached; on the   *)
(* last day of a month it has been, because it is cut to that day.         *)
(***************************************************************************)
LEMMA AgeOnTheNextDay ==
  ASSUME NEW f \in Date, NEW day \in Date,
         day.d <= DaysIn(day.y, day.m), Following(day) \in Date
  PROVE  CompletedMonths(f, Following(day)) - CompletedMonths(f, day) \in {0, 1}
<1> DEFINE next == Following(day)
           n    == MonthsBetween(f, day)
<1>1. /\ day.y \in Int /\ day.m \in 1..12 /\ day.d \in 1..31
      /\ f.y \in Int /\ f.m \in 1..12 /\ f.d \in 1..31
      /\ DaysIn(day.y, day.m) \in Int
  BY DEF Date, DaysIn
<1>2. CASE day.d < DaysIn(day.y, day.m)
  <2>1. next.y = day.y /\ next.m = day.m /\ next.d = day.d + 1
    BY <1>1, <1>2 DEF Following, Date
  <2>2. MonthsBetween(f, next) = n
    BY <2>1 DEF MonthsBetween
  <2>3. Before(next, Anniversary(f, n)) => Before(day, Anniversary(f, n))
    BY <1>1, <2>1, AnniversaryNow DEF Before
  <2> HIDE DEF next, n
  <2> QED
    BY <2>2, <2>3, AgeInMonth DEF next, n
<1>3. CASE day.d = DaysIn(day.y, day.m)
  <2>1. ~Before(day, Anniversary(f, n))
    BY <1>1, <1>3, AnniversaryNow DEF Before
  <2>2. MonthsBetween(f, next) = n + 1
    <3>1. CASE day.m < 12
      <4>1. next.y = day.y /\ next.m = day.m + 1
        BY <1>1, <1>3, <3>1 DEF Following, Date
      <4> QED
        BY <1>1, <4>1 DEF MonthsBetween
    <3>2. CASE day.m = 12
      <4>1. next.y = day.y + 1 /\ next.m = 1
        BY <1>1, <1>3, <3>2 DEF Following, Date
      <4> QED
        BY <1>1, <3>2, <4>1 DEF MonthsBetween
    <3> QED
      BY <1>1, <3>1, <3>2
  <2> QED
    BY <2>1, <2>2, AgeInMonth
<1> QED
  BY <1>1, <1>2, <1>3

(* A bound on the age in months is broken for good or met for good.        *)
LEMMA BoundsAge ==
  ASSUME NEW r \in Pool, NEW a \in Int, NEW b \in Int, a <= b
  PROVE  /\ Direction(r) = "upper" /\ AgeStatus(a, r) = "unsatisfied"
              => AgeStatus(b, r) = "unsatisfied"
         /\ Direction(r) = "lower" /\ AgeStatus(a, r) = "satisfied"
              => AgeStatus(b, r) = "satisfied"
<1>1. r.expected.form = "number" => r.expected.limit \in Int
  BY EngineAssumption
<1>2. CASE r.expected.form # "number" \/ a < 0
  BY <1>2 DEF AgeStatus
<1>3. CASE r.expected.form = "number" /\ ~(a < 0)
  <2> DEFINE limit == r.expected.limit
  <2>1. limit \in Int /\ ~(b < 0)
    BY <1>1, <1>3
  <2>2. /\ AgeStatus(a, r) = NumericComparison(a, r.operator, limit)
        /\ AgeStatus(b, r) = NumericComparison(b, r.operator, limit)
    BY <1>3, <2>1 DEF AgeStatus
  <2>3. /\ a > limit => b > limit
        /\ a >= limit => b >= limit
    BY <2>1
  <2> HIDE DEF limit
  <2>4. CASE r.operator = "lte"
    BY <2>1, <2>2, <2>3, <2>4 DEF NumericComparison, Verdict, Direction
  <2>5. CASE r.operator = "lt"
    BY <2>1, <2>2, <2>3, <2>5 DEF NumericComparison, Verdict, Direction
  <2>6. CASE r.operator = "gte"
    BY <2>1, <2>2, <2>3, <2>6 DEF NumericComparison, Verdict, Direction
  <2>7. CASE r.operator = "gt"
    BY <2>1, <2>2, <2>3, <2>7 DEF NumericComparison, Verdict, Direction
  <2>8. CASE r.operator \notin {"lte", "lt", "gte", "gt"}
    BY <2>8 DEF Direction
  <2> QED
    BY <2>4, <2>5, <2>6, <2>7, <2>8
<1> QED
  BY <1>2, <1>3

(***************************************************************************)
(* Whatever the founding date and the rules are, another day never takes a *)
(* month from a business and never turns a verdict that only time decides. *)
(***************************************************************************)
THEOREM TimeRunsOneWay == Spec => VerdictsAgeOneWay
<1> DEFINE Aged ==
      profile.founded # Nothing =>
      /\ CompletedMonths(profile.founded, reference')
           - CompletedMonths(profile.founded, reference) \in {0, 1}
      /\ \A i \in DOMAIN rules : rules[i].kind = "business_age_months" =>
           LET before == AgeVerdict(rules[i], reference)
               after  == AgeVerdict(rules[i], reference')
           IN  /\ Direction(rules[i]) = "upper" /\ before = "unsatisfied"
                    => after = "unsatisfied"
               /\ Direction(rules[i]) = "lower" /\ before = "satisfied"
                    => after = "satisfied"
           I == /\ reference \in Calendar
                /\ profile \in Profiles
                /\ rules \in Seq(Pool)
                /\ Len(rules) <= MaxRules
<1>1. I /\ I' /\ [Next]_vars => [Aged]_vars
  <2> SUFFICES ASSUME I, I', Next, profile.founded # Nothing
               PROVE  Aged
    BY DEF vars
  <2> DEFINE f == profile.founded
             a == CompletedMonths(f, reference)
             b == CompletedMonths(f, reference')
  <2>1. /\ f \in Date /\ reference \in Date /\ reference' \in Date
        /\ reference.d <= DaysIn(reference.y, reference.m)
    BY EngineAssumption
  <2>2. a \in Int /\ b \in Int
    BY <2>1, AgeInMonth
  <2>3. b - a \in {0, 1}
    <3>1. CASE LearnRule
      BY <2>2, <3>1 DEF LearnRule
    <3>2. CASE NextDay
      <4>1. reference' = Following(reference)
        BY <3>2 DEF NextDay
      <4> QED
        BY <2>1, <4>1, AgeOnTheNextDay
    <3> QED
      BY <3>1, <3>2 DEF Next
  <2>4. \A i \in DOMAIN rules :
          /\ rules[i] \in Pool
          /\ AgeVerdict(rules[i], reference) = AgeStatus(a, rules[i])
          /\ AgeVerdict(rules[i], reference') = AgeStatus(b, rules[i])
    BY DEF AgeVerdict, BusinessAgeStatus
  <2> HIDE DEF a, b
  <2>5. a <= b
    BY <2>2, <2>3
  <2>6. \A i \in DOMAIN rules :
          /\ Direction(rules[i]) = "upper"
               /\ AgeVerdict(rules[i], reference) = "unsatisfied"
               => AgeVerdict(rules[i], reference') = "unsatisfied"
          /\ Direction(rules[i]) = "lower"
               /\ AgeVerdict(rules[i], reference) = "satisfied"
               => AgeVerdict(rules[i], reference') = "satisfied"
    BY <2>2, <2>4, <2>5, BoundsAge
  <2> QED
    BY <2>3, <2>6 DEF a, b
<1> QED
  BY <1>1, TypeInductive, PTL DEF Spec, VerdictsAgeOneWay
-----------------------------------------------------------------------------
(* The ranking of a search.                                                *)

(* The following day comes later, so what is past stays past.              *)
LEMMA PastStaysPast ==
  ASSUME NEW e \in Date, NEW day \in Date,
         day.d <= DaysIn(day.y, day.m), Before(e, day)
  PROVE  Before(e, Following(day))
<1> DEFINE next == Following(day)
<1>1. /\ day.y \in Int /\ day.m \in 1..12 /\ day.d \in 1..31
      /\ e.y \in Int /\ e.m \in 1..12 /\ e.d \in 1..31
      /\ DaysIn(day.y, day.m) \in Int
  BY DEF Date, DaysIn
<1>2. CASE day.d < DaysIn(day.y, day.m)
  <2>1. next.y = day.y /\ next.m = day.m /\ next.d = day.d + 1
    BY <1>1, <1>2 DEF Following, Date
  <2> HIDE DEF next
  <2> QED
    BY <1>1, <2>1 DEF Before, next
<1>3. CASE day.d = DaysIn(day.y, day.m) /\ day.m < 12
  <2>1. next.y = day.y /\ next.m = day.m + 1
    BY <1>1, <1>3 DEF Following, Date
  <2> HIDE DEF next
  <2> QED
    BY <1>1, <2>1 DEF Before, next
<1>4. CASE day.d = DaysIn(day.y, day.m) /\ day.m = 12
  <2>1. next.y = day.y + 1
    BY <1>1, <1>4 DEF Following, Date
  <2> HIDE DEF next
  <2> QED
    BY <1>1, <2>1 DEF Before, next
<1> QED
  BY <1>1, <1>2, <1>3, <1>4

(* The state of a deadline, and the date that counts when it is open.      *)
LEMMA DeadlineFacts ==
  ASSUME NEW q \in Catalogue, NEW day
  PROVE  LET t == DeadlineFor(q, day) IN
         /\ t.state = "missing" <=> q.end = Nothing
         /\ t.state = "expired" <=> q.end # Nothing /\ Before(q.end, day)
         /\ t.state = "open" <=> q.end # Nothing /\ ~Before(q.end, day)
         /\ t.state = "open" => t.date = q.end /\ q.end \in Date
         /\ t.state \in {"open", "missing", "expired"}
BY CatalogueAssumption DEF DeadlineFor

LEMMA DeadlineRanks ==
  /\ DeadlineRank("open") = 0
  /\ DeadlineRank("missing") = 1
  /\ DeadlineRank("expired") = 2
BY DEF DeadlineRank

(***************************************************************************)
(* For two programs with the same verdict, another day changes which of    *)
(* them is listed first only by passing the deadline of the first one.     *)
(***************************************************************************)
LEMMA OrderOnTheNextDay ==
  ASSUME NEW a \in Catalogue, NEW b \in Catalogue, NEW day \in Date,
         day.d <= DaysIn(day.y, day.m),
         ClosesFirst(a, b, day),
         \/ DeadlineFor(a, day).state = "expired"
         \/ DeadlineFor(a, Following(day)).state # "expired"
  PROVE  ClosesFirst(a, b, Following(day))
<1> DEFINE next == Following(day)
           s  == DeadlineFor(a, day)
           t  == DeadlineFor(b, day)
           s2 == DeadlineFor(a, next)
           t2 == DeadlineFor(b, next)
<1>1. \A q \in Catalogue : q.end # Nothing /\ Before(q.end, day)
                             => Before(q.end, next)
  BY PastStaysPast, CatalogueAssumption
<1> HIDE DEF next
<1>2. s2.state = s.state /\ (s.state = "open" => s2.date = s.date)
  BY <1>1, DeadlineFacts DEF next
<1>3. /\ t.state = "missing" => t2.state = "missing"
      /\ t.state = "expired" => t2.state = "expired"
      /\ t.state = "open" => \/ t2.state = "open" /\ t2.date = t.date
                             \/ t2.state = "expired"
  BY <1>1, DeadlineFacts
<1>4. /\ s.state \in {"open", "missing", "expired"}
      /\ t.state \in {"open", "missing", "expired"}
  BY DeadlineFacts
<1>5. \/ DeadlineRank(s.state) < DeadlineRank(t.state)
      \/ s.state = "open" /\ t.state = "open" /\ Before(s.date, t.date)
      \/ /\ s.state = t.state
         /\ s.state = "open" => s.date = t.date
         /\ a.id < b.id
  BY DEF ClosesFirst
<1> HIDE DEF s, t, s2, t2
<1>6. \/ DeadlineRank(s2.state) < DeadlineRank(t2.state)
      \/ s2.state = "open" /\ t2.state = "open" /\ Before(s2.date, t2.date)
      \/ /\ s2.state = t2.state
         /\ s2.state = "open" => s2.date = t2.date
         /\ a.id < b.id
  BY <1>2, <1>3, <1>4, <1>5, DeadlineRanks
<1> QED
  BY <1>6 DEF ClosesFirst, s2, t2, next

(***************************************************************************)
(* For every catalogue, rule pool and applicant, a search reorders its     *)
(* list for a changed verdict or a passed deadline only.                   *)
(***************************************************************************)
THEOREM RankingMoves == Spec => RankingMovesByReason
<1> DEFINE I == /\ reference \in Calendar
                /\ profile \in Profiles
                /\ rules \in Seq(Pool)
                /\ Len(rules) <= MaxRules
           Moved ==
      \A a, b \in Ranked :
        RanksBefore(a, b, reference) /\ ~RanksBefore(a, b, reference') =>
          \/ Final(a, reference) # Final(a, reference')
          \/ Final(b, reference) # Final(b, reference')
          \/ HasJustClosed(a)
<1>1. I /\ [Next]_vars => [Moved]_vars
  <2> SUFFICES ASSUME I, Next, NEW a \in Ranked, NEW b \in Ranked,
                      RanksBefore(a, b, reference),
                      ~RanksBefore(a, b, reference'),
                      Final(a, reference) = Final(a, reference'),
                      Final(b, reference) = Final(b, reference')
               PROVE  HasJustClosed(a)
    BY DEF vars
  <2>1. CASE LearnRule
    BY <2>1 DEF LearnRule
  <2>2. CASE NextDay
    <3>1. /\ a \in Catalogue /\ b \in Catalogue
          /\ reference \in Date
          /\ reference.d <= DaysIn(reference.y, reference.m)
      BY EngineAssumption DEF Ranked
    <3>2. reference' = Following(reference)
      BY <2>2 DEF NextDay
    <3>3. /\ ClosesFirst(a, b, reference)
          /\ ~ClosesFirst(a, b, reference')
      BY DEF RanksBefore
    <3> QED
      BY <3>1, <3>2, <3>3, OrderOnTheNextDay DEF HasJustClosed
  <2> QED
    BY <2>1, <2>2 DEF Next
<1> QED
  BY <1>1, TypeInductive, PTL DEF Spec, RankingMovesByReason

(* The keys that are compared, as numbers.                                 *)
LEMMA DateOrder ==
  ASSUME NEW d \in Date, NEW e \in Date, NEW f \in Date
  PROVE  /\ ~Before(d, d)
         /\ Before(d, e) /\ Before(e, f) => Before(d, f)
         /\ d # e => Before(d, e) \/ Before(e, d)
<1>1. \A x \in {d, e, f} : x.y \in Int /\ x.m \in Int /\ x.d \in Int
  BY DEF Date
<1>2. d.y = e.y /\ d.m = e.m /\ d.d = e.d => d = e
  BY DEF Date
<1> QED
  BY <1>1, <1>2 DEF Before

LEMMA FinalRank ==
  ASSUME NEW q \in Ranked, NEW day
  PROVE  StatusRank(Final(q, day)) \in 0..3
BY FinalType DEF Final, Assessment, FinalStatus, StatusRank

(***************************************************************************)
(* What a search sorts by is a strict order of the programs, total where   *)
(* ids differ: the list it shows is one list, whatever order rows come in. *)
(***************************************************************************)
THEOREM RankingIsAnOrder ==
  ASSUME NEW day, NEW a \in Ranked, NEW b \in Ranked, NEW c \in Ranked
  PROVE  /\ ~RanksBefore(a, a, day)
         /\ RanksBefore(a, b, day) /\ RanksBefore(b, c, day)
              => RanksBefore(a, c, day)
         /\ a.id # b.id => RanksBefore(a, b, day) \/ RanksBefore(b, a, day)
<1> DEFINE D(q) == DeadlineFor(q, day)
           Closes(p, q) ==
             \/ DeadlineRank(D(p).state) < DeadlineRank(D(q).state)
             \/ /\ D(p).state = "open" /\ D(q).state = "open"
                /\ Before(D(p).date, D(q).date)
             \/ /\ D(p).state = D(q).state
                /\ D(p).state = "open" => D(p).date = D(q).date
                /\ p.id < q.id
<1>1. \A q \in {a, b, c} :
        /\ q \in Catalogue /\ q.id \in Nat
        /\ StatusRank(Final(q, day)) \in 0..3
        /\ D(q).state \in {"open", "missing", "expired"}
        /\ D(q).state = "open" => D(q).date \in Date
  BY FinalRank, DeadlineFacts, CatalogueAssumption DEF Ranked
<1>2. \A p, q \in {a, b, c} : ClosesFirst(p, q, day) <=> Closes(p, q)
  BY DEF ClosesFirst
<1> HIDE DEF D
<1>3. /\ ~Closes(a, a)
      /\ Closes(a, b) /\ Closes(b, c) => Closes(a, c)
      /\ a.id # b.id => Closes(a, b) \/ Closes(b, a)
  <2>1. ~Closes(a, a)
    BY <1>1, DateOrder, DeadlineRanks
  <2>2. Closes(a, b) /\ Closes(b, c) => Closes(a, c)
    BY <1>1, DateOrder, DeadlineRanks
  <2>3. a.id # b.id => Closes(a, b) \/ Closes(b, a)
    BY <1>1, DateOrder, DeadlineRanks
  <2> QED
    BY <2>1, <2>2, <2>3
<1> HIDE DEF Closes
<1> QED
  BY <1>1, <1>2, <1>3 DEF RanksBefore
=============================================================================
