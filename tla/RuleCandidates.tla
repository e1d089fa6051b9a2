---------------------------- MODULE RuleCandidates ----------------------------
(***************************************************************************)
(* RegexRuleCandidateProvider: which passages of a text become eligibility *)
(* rules.                                                                  *)
(*                                                                         *)
(* A text is a sequence of the words the patterns know: "age" is the words *)
(* for business age, "bound" a number with its unit and operator, "rep" a  *)
(* whole bound on the representative's age, "located" the words for being  *)
(* located there, "industry" an industry and "generic" a noun that only    *)
(* looks like one, "support" the word before a refusal, "reject" and       *)
(* "exclude" the two refusals; "comma" separates bounds too, "stop" does   *)
(* not, "tilde" does nothing else; "word" is any other.                    *)
(***************************************************************************)
EXTENDS Naturals, Sequences

Punctuation == {"comma", "stop"}

Separators == {"comma", "tilde"}

Refusals == {"reject", "exclude"}

Has(text, i, words) == i \in DOMAIN text /\ text[i] \in words

(* The place after an optional word.                                       *)
After(text, i, words) == IF Has(text, i, words) THEN i + 1 ELSE i

(* _has_following_negation and _has_following_age_bound at place i.        *)
HasNegation(text, i) ==
  Has(text, After(text, After(text, i, Punctuation), {"support"}), Refusals)

HasAgeBound(text, i) == Has(text, After(text, i, Separators), {"bound"})

Match(kind, operator, first, last) ==
  [kind |-> kind, operator |-> operator, first |-> first, last |-> last]

(* Seeded fault: the negation behind an age is overlooked.                 *)
FaultIgnoresNegation(text) ==
  {Match("business_age", "bound", i, i + 1) :
     i \in {j \in DOMAIN text :
       Has(text, j, {"age"}) /\ Has(text, j + 1, {"bound"})
       /\ ~HasAgeBound(text, j + 2)}}

BusinessAges(text) ==
  {Match("business_age", "bound", i, i + 1) :
     i \in {j \in DOMAIN text :
       /\ Has(text, j, {"age"}) /\ Has(text, j + 1, {"bound"})
       /\ ~HasNegation(text, j + 2) /\ ~HasAgeBound(text, j + 2)}}

RepresentativeAges(text) ==
  {Match("representative_age", "bound", i, i) :
     i \in {j \in DOMAIN text : Has(text, j, {"rep"}) /\ ~HasNegation(text, j + 1)}}

(* The end of an exclusion whose subject ends before i: an optional        *)
(* particle, then what may separate it, then the word itself.              *)
Exclusion(text, i, between) ==
  After(text, After(text, i, {"particle"}), between)

RegionExclusions(text) ==
  {Match("region", "not_in", i, Exclusion(text, i + 2, Punctuation)) :
     i \in {j \in DOMAIN text :
       /\ Has(text, j, {"region"}) /\ Has(text, j + 1, {"located"})
       /\ Has(text, Exclusion(text, j + 2, Punctuation), {"exclude"})}}

RegionInclusions(text) ==
  {Match("region", "in", i, i + 1) :
     i \in {j \in DOMAIN text :
       Has(text, j, {"region"}) /\ Has(text, j + 1, {"located"})}}

(* The nouns that only look like industries match and are dropped again.   *)
IndustryExclusions(text) ==
  {Match("industry", "not_in", i, Exclusion(text, i + 1, {})) :
     i \in {j \in DOMAIN text :
       /\ Has(text, j, {"industry"})
       /\ Has(text, Exclusion(text, j + 1, {}), {"exclude"})}}

Candidates(text) ==
  BusinessAges(text) \cup RepresentativeAges(text) \cup
  RegionExclusions(text) \cup RegionInclusions(text) \cup
  IndustryExclusions(text)

Overlaps(a, b) == a.first <= b.last /\ b.first <= a.last

(* Earlier first, and of those in one place the longer.                    *)
Preferred(a, b) ==
  a.first < b.first \/ (a.first = b.first /\ a.last > b.last)

(* What is kept of some candidates in the order of preference: each that   *)
(* overlaps nothing kept before it.                                        *)
IsGreedy(kept, candidates) ==
  /\ kept \subseteq candidates
  /\ \A c \in candidates :
       c \in kept <=> \A k \in kept : Preferred(k, c) => ~Overlaps(k, c)

(* _matches                                                                *)
Chosen(text) ==
  CHOOSE kept \in SUBSET Candidates(text) : IsGreedy(kept, Candidates(text))

-----------------------------------------------------------------------------
(* What a text says, for comparison: a passage is refused at once when a   *)
(* refusal follows it with no more than a particle, punctuation and the    *)
(* word for support between.  A refusal behind a noun or a clause of its   *)
(* own is not looked for here, nor by any pattern of the code.             *)
Refused(text, c) ==
  LET joined == After(text, After(text, c.last + 1, {"particle"}), Punctuation)
  IN Has(text, After(text, joined, {"support"}), Refusals)

(***************************************************************************)
(* The two ways in which the patterns are known to miss such a refusal:    *)
(* behind a region they look for "exclude" alone, behind an age for no     *)
(* particle.                                                               *)
(***************************************************************************)
IsKnownMiss(text, c) ==
  IF c.kind = "region"
  THEN ~Has(text, Exclusion(text, c.last + 1, Punctuation), {"exclude"})
  ELSE Has(text, c.last + 1, {"particle"})
===============================================================================
