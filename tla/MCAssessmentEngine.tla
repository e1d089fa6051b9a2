------------------------ MODULE MCAssessmentEngine ------------------------
(***************************************************************************)
(* Small rules and profiles around the ends of February in a common and a  *)
(* leap year and around the turn of a year.                                *)
(***************************************************************************)
EXTENDS Matching

CONSTANTS seoul, busan, revenue

Day(y, m, d) == [y |-> y, m |-> m, d |-> d]

MCCalendar ==
  {Day(2023, 2, 27), Day(2023, 2, 28), Day(2023, 3, 1),
   Day(2023, 12, 30), Day(2023, 12, 31), Day(2024, 1, 1),
   Day(2024, 2, 28), Day(2024, 2, 29), Day(2024, 3, 1)}

Foundings == {Day(2022, 12, 31), Day(2022, 2, 28), Day(2022, 3, 1),
              Day(2020, 2, 29), Day(2023, 1, 30), Day(2024, 3, 1)}

Known(founded) ==
  [founded |-> founded, born |-> 1984, regions |-> {seoul},
   industries |-> {busan}, benefits |-> {seoul},
   performance |-> [x \in {revenue} |-> 10]]

MCProfiles ==
  {Known(f) : f \in Foundings}
  \cup {[Known(Nothing) EXCEPT !.regions = {seoul, Blank}, !.born = Nothing],
        [Known(Day(2022, 3, 1)) EXCEPT !.performance = <<>>, !.benefits = {},
                                       !.born = 2030]}

Number(n) == [form |-> "number", limit |-> n]
CodeList(s) == [form |-> "codes", codes |-> s]
Metric(m, n) == [form |-> "metric", metric |-> m, limit |-> n]

Source(d, u) == {[document |-> d, url |-> u]}

Rule(id, kind, operator, expected, evidence) ==
  [id |-> id, kind |-> kind, operator |-> operator, expected |-> expected,
   required |-> TRUE, review |-> "automatic", version |-> "v1",
   evidence |-> evidence]

MCPool ==
  {Rule(1, "business_age_months", "lte", Number(12), Source(1, 1)),
   Rule(2, "business_age_months", "lt", Number(24), Source(2, 2)),
   Rule(3, "business_age_months", "gte", Number(12), Source(3, 1)),
   [Rule(4, "business_age_months", "lte", Number(36), Source(4, 4))
      EXCEPT !.required = FALSE],
   Rule(5, "region", "in", CodeList({seoul}), Source(1, 1)),
   Rule(6, "region", "not_in", CodeList({seoul, busan}), Source(2, 2)),
   Rule(7, "representative_age", "lt", Number(40), Source(1, 1)),
   Rule(8, "performance", "gte", Metric(revenue, 10), Source(2, 2)),
   Rule(9, "performance", "gt", Metric(revenue, 10), Source(3, Nothing)),
   Rule(10, "duplicate_benefit", "not_in", CodeList({busan}), Source(2, 2)),
   Rule(11, "industry", "in", Number(7), Source(1, 1)),
   [Rule(12, "natural_language", "eq", CodeList({seoul}), Source(2, 2))
      EXCEPT !.review = "review_required"],
   [Rule(13, "performance", "gt", Metric(revenue, 10), Source(4, 4))
      EXCEPT !.version = "v2", !.required = FALSE],
   Rule(14, "business_age_months", "eq", Number(12), {})}

(* Open, closing, closed and open-ended programs, two of which the         *)
(* applicant grows into or out of, and one that has no rules.              *)
Offered(id, end, ids) ==
  [id |-> id, end |-> end,
   rules |-> [n \in 1..Cardinality(ids) |-> CHOOSE r \in MCPool :
                r.id \in ids /\ Cardinality({i \in ids : i < r.id}) = n - 1]]

MCCatalogue ==
  {Offered(1, Day(2023, 2, 28), {7}), Offered(2, Nothing, {7}),
   Offered(3, Day(2023, 3, 1), {7}), Offered(4, Day(2023, 12, 31), {1}),
   Offered(5, Day(2024, 2, 28), {1, 2}), Offered(6, Day(2024, 2, 29), {3}),
   Offered(7, Day(2024, 2, 28), {5, 8}), Offered(8, Day(2024, 3, 1), {})}
=============================================================================
