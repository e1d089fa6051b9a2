-------------------------- MODULE SourceListingProofs --------------------------
(***************************************************************************)
(* For any page size, listing, limits and order of publications,           *)
(* withdrawals and answers: what a fresh collection has missed.            *)
(* ListingInv is the inductive invariant.                                  *)
(***************************************************************************)
EXTENDS SourceListing, FiniteSetTheorems, SequenceTheorems, TLAPS

(* What InsertAt and RemoveAt do, position by position.                    *)
IsInsertion(s, i, n, t) ==
  /\ Len(t) = Len(s) + 1
  /\ \A j \in 1..(Len(s) + 1) :
       t[j] = IF j < i THEN s[j] ELSE IF j = i THEN n ELSE s[j - 1]

IsRemoval(s, i, t) ==
  /\ Len(t) = Len(s) - 1
  /\ \A j \in 1..(Len(s) - 1) : t[j] = IF j < i THEN s[j] ELSE s[j + 1]

LEMMA Inserting ==
  ASSUME NEW S, NEW s \in Seq(S), NEW n \in S, NEW i \in 1..(Len(s) + 1)
  PROVE  InsertAt(s, i, n) \in Seq(S) /\ IsInsertion(s, i, n, InsertAt(s, i, n))
<1> DEFINE a == SubSeq(s, 1, i - 1)
           b == SubSeq(s, i, Len(s))
<1>1. a \in Seq(S) /\ Len(a) = i - 1 /\ \A j \in 1..(i - 1) : a[j] = s[j]
  BY SubSeqProperties
<1>2. /\ b \in Seq(S) /\ Len(b) = Len(s) + 1 - i
      /\ \A j \in 1..(Len(s) + 1 - i) : b[j] = s[i + j - 1]
  BY SubSeqProperties
<1>3. InsertAt(s, i, n) = (a \o <<n>>) \o b
  BY DEF InsertAt
<1> HIDE DEF a, b
<1>4. /\ a \o <<n>> \in Seq(S) /\ Len(a \o <<n>>) = i
      /\ \A j \in 1..i : (a \o <<n>>)[j] = IF j < i THEN s[j] ELSE n
  BY <1>1, ConcatProperties
<1>5. QED
  BY <1>2, <1>3, <1>4, ConcatProperties DEF IsInsertion

LEMMA Removing ==
  ASSUME NEW S, NEW s \in Seq(S), NEW i \in DOMAIN s
  PROVE  RemoveAt(s, i) \in Seq(S) /\ IsRemoval(s, i, RemoveAt(s, i))
<1> DEFINE a == SubSeq(s, 1, i - 1)
           b == SubSeq(s, i + 1, Len(s))
<1>0. i \in 1..Len(s) /\ Len(s) \in Nat
  OBVIOUS
<1>1. a \in Seq(S) /\ Len(a) = i - 1 /\ \A j \in 1..(i - 1) : a[j] = s[j]
  BY <1>0, SubSeqProperties
<1>2. /\ b \in Seq(S) /\ Len(b) = Len(s) - i
      /\ \A j \in 1..(Len(s) - i) : b[j] = s[i + j]
  BY <1>0, SubSeqProperties
<1>3. RemoveAt(s, i) = a \o b
  BY DEF RemoveAt
<1> HIDE DEF a, b
<1>4. /\ a \o b \in Seq(S) /\ Len(a \o b) = Len(s) - 1
      /\ \A j \in 1..(Len(s) - 1) :
           (a \o b)[j] = IF j <= i - 1 THEN a[j] ELSE b[j - (i - 1)]
  BY <1>0, <1>1, <1>2, ConcatProperties
<1>5. ASSUME NEW j \in 1..(Len(s) - 1)
      PROVE  (a \o b)[j] = IF j < i THEN s[j] ELSE s[j + 1]
  <2>1. CASE j < i
    BY <2>1, <1>0, <1>1, <1>4
  <2>2. CASE ~(j < i)
    <3>1. j - (i - 1) \in 1..(Len(s) - i) /\ i + (j - (i - 1)) = j + 1
      BY <2>2, <1>0
    <3>2. QED
      BY <2>2, <3>1, <1>0, <1>2, <1>4
  <2>3. QED
    BY <2>1, <2>2
<1>6. QED
  BY <1>3, <1>4, <1>5 DEF IsRemoval

(* The page at hand: the notices behind the pages read, up to its size.    *)
LEMMA WindowIsListed ==
  ASSUME listing \in Seq(Notices), size \in Nat \ {0}, page \in Nat \ {0}
  PROVE  /\ Window \in Seq(Notices)
         /\ \A i \in DOMAIN listing :
              (Passed < i /\ i <= Passed + size) => listing[i] \in Range(Window)
<1> DEFINE first == Passed + 1
           end == IF Passed + size < Len(listing) THEN Passed + size ELSE Len(listing)
<1>1. Passed \in Nat /\ Len(listing) \in Nat
  BY DEF Passed
<1>2. first \in Int /\ end \in Int /\ end <= Len(listing) /\ first >= 1
  BY <1>1
<1>3. \A i \in first..end : listing[i] \in Notices
  BY <1>2
<1>4. Window = SubSeq(listing, first, end)
  BY DEF Window
<1> HIDE DEF first, end
<1>5. /\ Window \in Seq(Notices)
      /\ Len(Window) = IF first <= end THEN end - first + 1 ELSE 0
      /\ \A k \in 1..(end - first + 1) : Window[k] = listing[first + k - 1]
  BY <1>2, <1>3, <1>4, SubSeqProperties
<1>6. ASSUME NEW i \in DOMAIN listing, Passed < i, i <= Passed + size
      PROVE  listing[i] \in Range(Window)
  <2>1. i \in 1..Len(listing)
    OBVIOUS
  <2>2. first <= i /\ i <= end
    BY <1>1, <1>6, <2>1 DEF first, end
  <2>3. i - first + 1 \in 1..(end - first + 1) /\ first + (i - first + 1) - 1 = i
    BY <1>2, <2>1, <2>2
  <2>4. i - first + 1 \in DOMAIN Window
    BY <1>2, <1>5, <2>2, <2>3
  <2>5. Window[i - first + 1] = listing[i]
    BY <1>5, <2>3
  <2>6. QED
    BY <2>4, <2>5 DEF Range
<1>7. QED
  BY <1>5, <1>6

(* An answer that is stored has a total, and it is a number.               *)
LEMMA StoredTotals ==
  ASSUME listing \in Seq(Notices), size \in Nat \ {0}, page \in Nat \ {0},
         NEW answer \in Pages, answer.code = "readable"
  PROVE  answer.total \in Nat
<1>1. Claims \subseteq Nat
  BY DEF Claims
<1>2. CASE source = "bizinfo"
  <2>1. PICK a \in BizinfoAnswers : answer = BizinfoPage(a)
    BY <1>2 DEF Pages
  <2> DEFINE known == Range(a.totals) \ {Unstated}
             total == IF known = {} THEN Len(a.items) ELSE CHOOSE t \in known : TRUE
  <2>2. a.items = Window /\ a.totals \in [DOMAIN Window -> Claims \cup {Unstated}]
    BY <2>1 DEF BizinfoAnswers
  <2>3. Len(a.items) \in Nat
    BY <2>2, WindowIsListed
  <2>4. known \subseteq Nat
    BY <1>1, <2>2 DEF Range
  <2>5. total \in Nat
    BY <2>3, <2>4
  <2>6. answer.total = total \/ answer.total = 0
    BY <2>1 DEF BizinfoPage, ParsedPage
  <2> HIDE DEF total
  <2>7. QED
    BY <2>5, <2>6
<1>3. CASE source # "bizinfo"
  <2>1. PICK a \in KStartupAnswers : answer = KStartupPage(a)
    BY <1>3 DEF Pages
  <2>2. a.total \in Nat
    BY <1>1, <2>1 DEF KStartupAnswers
  <2>3. QED
    BY <2>1, <2>2 DEF KStartupPage, ParsedPage
<1>4. QED
  BY <1>2, <1>3

-----------------------------------------------------------------------------
(* A finite set that gains at most one element.                            *)
LEMMA GainsOne ==
  ASSUME NEW A, NEW B, NEW x, IsFiniteSet(A), B \subseteq A \cup {x}
  PROVE  IsFiniteSet(B) /\ Cardinality(B) <= Cardinality(A) + 1
<1>0. Cardinality(A) \in Nat
  BY FS_CardinalityType
<1> DEFINE C == A \cup {x}
<1>a. IsFiniteSet(C) /\ Cardinality(C) = IF x \in A THEN Cardinality(A) ELSE Cardinality(A) + 1
  BY FS_AddElement
<1> HIDE DEF C
<1>1. IsFiniteSet(C) /\ Cardinality(C) <= Cardinality(A) + 1
  BY <1>0, <1>a
<1>2. B \subseteq C
  BY DEF C
<1>3. IsFiniteSet(B) /\ Cardinality(B) <= Cardinality(C)
  BY <1>1, <1>2, FS_Subset
<1>4. QED
  BY <1>0, <1>1, <1>3, FS_CardinalityType

LEMMA MovedBehindIsFinite ==
  ASSUME ListingInv
  PROVE  IsFiniteSet(MovedBehind) /\ Cardinality(MovedBehind) \in Nat
<1>1. Range(listing) \subseteq Notices
  BY DEF ListingInv, Range
<1>2. MovedBehind \subseteq Notices
  BY <1>1 DEF MovedBehind, ListingInv
<1>3. QED
  BY <1>2, ListingAssumption, FS_Subset, FS_CardinalityType

LEMMA InitInv == Init => ListingInv
<1> SUFFICES ASSUME Init PROVE ListingInv
  OBVIOUS
<1>1. listing \in Seq(Notices)
  <2>1. PICK S \in SUBSET Notices : listing \in SetToSeqs(S)
    BY DEF Init, SetToAllKPermutations
  <2>2. Cardinality(S) \in Nat
    BY ListingAssumption, FS_Subset, FS_CardinalityType
  <2>3. listing \in [1..Cardinality(S) -> S]
    BY <2>1 DEF SetToSeqs
  <2>4. QED
    BY <2>2, <2>3
<1>2. Passed = 0 /\ size \in Nat \ {0}
  BY ListingAssumption DEF Init, Passed
<1>3. MovedBehind = {}
  BY <1>1, <1>2 DEF MovedBehind
<1>4. Cardinality(MovedBehind) = 0
  BY <1>3, FS_EmptySet
<1>5. /\ page = 1 /\ lasting = Range(listing) /\ withdrawals = 0
      /\ misled = FALSE /\ result = "running"
  BY DEF Init
<1>6. misled \in BOOLEAN /\ FreshMissesOnlyTheMoved
  BY <1>5 DEF FreshMissesOnlyTheMoved
<1>7. Cardinality(MovedBehind) <= withdrawals /\ withdrawals \in Nat
  BY <1>4, <1>5
<1>8. QED
  BY <1>1, <1>2, <1>5, <1>6, <1>7 DEF ListingInv

(* A notice that comes in moves others away from the pages read.           *)
LEMMA PublishInv == ListingInv /\ Publish => ListingInv'
<1> SUFFICES ASSUME ListingInv, Publish PROVE ListingInv'
  OBVIOUS
<1>1. PICK n \in Notices \ Range(listing), i \in 1..(Len(listing) + 1) :
        listing' = InsertAt(listing, i, n)
  BY DEF Publish
<1>2. /\ listing' \in Seq(Notices) /\ Len(listing') = Len(listing) + 1
      /\ \A j \in 1..(Len(listing) + 1) :
           listing'[j] = IF j < i THEN listing[j]
                         ELSE IF j = i THEN n ELSE listing[j - 1]
  <2>1. listing \in Seq(Notices) /\ n \in Notices
    BY DEF ListingInv
  <2>2. InsertAt(listing, i, n) \in Seq(Notices)
        /\ IsInsertion(listing, i, n, InsertAt(listing, i, n))
    BY <2>1, Inserting
  <2>3. QED
    BY <1>1, <2>2 DEF IsInsertion
<1>3. listing \in Seq(Notices) /\ lasting \subseteq Range(listing) /\ n \notin lasting
  BY <1>1 DEF ListingInv
<1>4. lasting' \subseteq Range(listing')
  <2> SUFFICES ASSUME NEW m \in lasting PROVE m \in Range(listing')
    BY DEF Publish
  <2>1. PICK k \in 1..Len(listing) : listing[k] = m
    BY <1>3 DEF Range
  <2>2. CASE k < i
    <3>1. k \in DOMAIN listing' /\ listing'[k] = m
      BY <1>2, <1>3, <2>1, <2>2
    <3>2. QED
      BY <3>1 DEF Range
  <2>3. CASE ~(k < i)
    <3>1. k + 1 \in DOMAIN listing' /\ (k + 1) - 1 = k
      BY <1>2, <1>3, <2>1
    <3>2. listing'[k + 1] = listing[(k + 1) - 1]
      BY <1>2, <1>3, <2>1, <2>3
    <3>3. QED
      BY <2>1, <3>1, <3>2 DEF Range
  <2>4. QED
    BY <2>2, <2>3
<1>5. MovedBehind' \subseteq MovedBehind
  <2> SUFFICES ASSUME NEW m \in MovedBehind' PROVE m \in MovedBehind
    OBVIOUS
  <2>1. /\ m \in lasting \ stored /\ Passed' = Passed
        /\ \E j \in DOMAIN listing' : j <= Passed' /\ listing'[j] = m
    BY DEF MovedBehind, Publish, Passed
  <2>2. PICK j \in 1..(Len(listing) + 1) : j <= Passed /\ listing'[j] = m
    BY <1>2, <2>1
  <2>3. \E k \in 1..Len(listing) : k <= j /\ listing[k] = m
    <3>1. CASE j < i
      BY <1>1, <1>2, <1>3, <2>2, <3>1
    <3>2. CASE j = i
      BY <1>2, <1>3, <2>1, <2>2, <3>2
    <3>3. CASE j > i
      <4>1. j - 1 \in 1..Len(listing) /\ listing[j - 1] = m
        BY <1>2, <1>3, <2>2, <3>3
      <4>2. QED
        BY <2>2, <4>1
    <3>4. QED
      BY <2>2, <3>1, <3>2, <3>3
  <2>4. Passed \in Int
    BY DEF ListingInv, Passed
  <2>5. QED
    BY <1>3, <2>1, <2>2, <2>3, <2>4 DEF MovedBehind
<1>6. Cardinality(MovedBehind') <= Cardinality(MovedBehind)
  BY <1>5, MovedBehindIsFinite, FS_Subset
<1>7. Cardinality(MovedBehind') <= withdrawals
  BY <1>6, MovedBehindIsFinite, <1>5, FS_Subset, FS_CardinalityType
     DEF ListingInv, Publish
<1>8. QED
  BY <1>2, <1>4, <1>7 DEF ListingInv, Publish, FreshMissesOnlyTheMoved

(* A notice that goes may move the first one behind a page read onto it.   *)
LEMMA WithdrawInv == ListingInv /\ Withdraw => ListingInv'
<1> SUFFICES ASSUME ListingInv, Withdraw PROVE ListingInv'
  OBVIOUS
<1>1. PICK i \in DOMAIN listing :
        listing' = RemoveAt(listing, i) /\ lasting' = lasting \ {listing[i]}
  BY DEF Withdraw
<1>2. listing \in Seq(Notices) /\ lasting \subseteq Range(listing)
      /\ i \in 1..Len(listing) /\ Len(listing) \in Nat
  BY <1>1 DEF ListingInv
<1>3. /\ listing' \in Seq(Notices) /\ Len(listing') = Len(listing) - 1
      /\ \A j \in 1..(Len(listing) - 1) :
           listing'[j] = IF j < i THEN listing[j] ELSE listing[j + 1]
  <2>1. RemoveAt(listing, i) \in Seq(Notices)
        /\ IsRemoval(listing, i, RemoveAt(listing, i))
    BY <1>1, <1>2, Removing
  <2>2. QED
    BY <1>1, <2>1 DEF IsRemoval
<1>4. lasting' \subseteq Range(listing')
  <2> SUFFICES ASSUME NEW m \in lasting, m # listing[i] PROVE m \in Range(listing')
    BY <1>1
  <2>1. PICK k \in 1..Len(listing) : listing[k] = m
    BY <1>2 DEF Range
  <2>2. CASE k < i
    <3>1. k \in 1..Len(listing') /\ listing'[k] = m
      BY <1>2, <1>3, <2>1, <2>2
    <3>2. QED
      BY <1>3, <3>1 DEF Range
  <2>3. CASE ~(k < i)
    <3>1. k > i
      BY <1>2, <2>1, <2>3
    <3>2. k - 1 \in 1..(Len(listing) - 1) /\ ~(k - 1 < i) /\ (k - 1) + 1 = k
      BY <1>2, <2>1, <3>1
    <3>3. listing'[k - 1] = listing[(k - 1) + 1]
      BY <1>3, <3>2
    <3>4. k - 1 \in DOMAIN listing' /\ listing'[k - 1] = m
      BY <1>3, <2>1, <3>2, <3>3
    <3>5. QED
      BY <3>4 DEF Range
  <2>4. QED
    BY <2>2, <2>3
<1>5. MovedBehind' \subseteq MovedBehind \cup {listing[Passed + 1]}
  <2> SUFFICES ASSUME NEW m \in MovedBehind', m # listing[Passed + 1]
               PROVE  m \in MovedBehind
    OBVIOUS
  <2>1. /\ m \in lasting \ stored /\ Passed' = Passed /\ Passed \in Int
        /\ \E j \in DOMAIN listing' : j <= Passed' /\ listing'[j] = m
    BY <1>1 DEF MovedBehind, Withdraw, Passed, ListingInv
  <2>2. PICK j \in 1..(Len(listing) - 1) : j <= Passed /\ listing'[j] = m
    BY <1>3, <2>1
  <2>3. \E k \in 1..Len(listing) : k <= Passed /\ listing[k] = m
    <3>1. CASE j < i
      BY <1>2, <1>3, <2>2, <3>1
    <3>2. CASE ~(j < i)
      <4>1. listing[j + 1] = m /\ j + 1 \in 1..Len(listing)
        BY <1>2, <1>3, <2>2, <3>2
      <4>2. j + 1 # Passed + 1
        BY <4>1
      <4>3. j + 1 <= Passed
        BY <2>1, <2>2, <4>2
      <4>4. QED
        BY <4>1, <4>3
    <3>3. QED
      BY <3>1, <3>2
  <2>4. QED
    BY <1>2, <2>1, <2>3 DEF MovedBehind
<1>6. IsFiniteSet(MovedBehind') /\ Cardinality(MovedBehind') <= Cardinality(MovedBehind) + 1
  BY <1>5, MovedBehindIsFinite, GainsOne
<1>7. Cardinality(MovedBehind') <= withdrawals'
  BY <1>6, MovedBehindIsFinite, FS_CardinalityType DEF ListingInv, Withdraw
<1>8. QED
  BY <1>3, <1>4, <1>7 DEF ListingInv, Withdraw, FreshMissesOnlyTheMoved

(* What is behind the page just stored was behind the pages before it.     *)
LEMMA StorePageInv == ListingInv /\ StorePage => ListingInv'
<1> SUFFICES ASSUME ListingInv, StorePage PROVE ListingInv'
  OBVIOUS
<1>1. PICK answer \in Pages :
        /\ answer.code = "readable"
        /\ misled' = (misled \/ answer.total < Len(listing))
        /\ \/ HasNext(answer.total) /\ page' = page + 1 /\ UNCHANGED result
           \/ ~HasNext(answer.total) /\ result' = "fresh" /\ UNCHANGED page
  BY DEF StorePage
<1>2. /\ result = "running" /\ stored' = stored \cup Range(Window)
      /\ UNCHANGED <<size, listing, lasting, withdrawals>>
  BY DEF StorePage, CanAsk
<1>3. /\ listing \in Seq(Notices) /\ size \in Nat \ {0} /\ page \in Nat \ {0}
      /\ lasting \subseteq Range(listing) /\ Len(listing) \in Nat
  BY DEF ListingInv
<1>4. answer.total \in Nat
  BY <1>1, <1>3, StoredTotals
<1>5. Passed \in Nat /\ page * size = Passed + size
  BY <1>3 DEF Passed
<1>6. \A k \in DOMAIN listing :
        (k <= Passed + size /\ listing[k] \in lasting \ stored')
          => listing[k] \in MovedBehind
  BY <1>2, <1>3, <1>5, WindowIsListed DEF MovedBehind
<1>7. IsFiniteSet(MovedBehind) /\ Cardinality(MovedBehind) <= withdrawals
  BY <1>2, MovedBehindIsFinite DEF ListingInv
<1>8. CASE HasNext(answer.total) /\ page' = page + 1 /\ UNCHANGED result
  <2>1. Passed' = Passed + size
    BY <1>2, <1>3, <1>5, <1>8 DEF Passed
  <2>2. MovedBehind' \subseteq MovedBehind
    BY <1>2, <1>6, <2>1 DEF MovedBehind
  <2>3. Cardinality(MovedBehind') <= withdrawals
    BY <1>7, <2>2, FS_Subset, FS_CardinalityType, <1>3 DEF ListingInv
  <2>4. QED
    BY <1>1, <1>2, <1>3, <1>8, <2>3 DEF ListingInv, FreshMissesOnlyTheMoved
<1>9. CASE ~HasNext(answer.total) /\ result' = "fresh" /\ UNCHANGED page
  <2>1. ASSUME ~misled' PROVE Cardinality(lasting' \ stored') <= withdrawals
    <3>0. ~(answer.total < Len(listing))
      BY <1>1, <2>1, Zenon
    <3>1. Len(listing) <= Passed + size
      BY <1>3, <1>4, <1>5, <1>9, <3>0 DEF HasNext
    <3>2. lasting' \ stored' \subseteq MovedBehind
      BY <1>2, <1>3, <1>5, <1>6, <3>1 DEF Range
    <3>3. QED
      BY <1>7, <3>2, FS_Subset, FS_CardinalityType DEF ListingInv
  <2>2. QED
    BY <1>1, <1>2, <1>3, <1>9, <2>1 DEF ListingInv, FreshMissesOnlyTheMoved
<1>10. QED
  BY <1>1, <1>8, <1>9

LEMMA FailInv ==
  ASSUME ListingInv, NEW code, code # "running", code # "fresh", Fail(code)
  PROVE  ListingInv'
BY DEF Fail, ListingInv, FreshMissesOnlyTheMoved

LEMMA FailureCodes ==
  ASSUME NEW answer \in Pages
  PROVE  answer.code # "running" /\ answer.code # "fresh"
<1>1. CASE source = "bizinfo"
  <2>1. PICK a \in BizinfoAnswers : answer = BizinfoPage(a)
    BY <1>1 DEF Pages
  <2>2. a.form \in Forms
    BY <2>1 DEF BizinfoAnswers
  <2>3. answer.code \in Forms \cup {"invalid_response", "inconsistent_total_count"}
    BY <2>1, <2>2 DEF BizinfoPage, ParsedPage
  <2>4. QED
    BY <2>3 DEF Forms
<1>2. CASE source # "bizinfo"
  <2>1. PICK a \in KStartupAnswers : answer = KStartupPage(a)
    BY <1>2 DEF Pages
  <2>2. a.form \in Forms
    BY <2>1 DEF KStartupAnswers
  <2>3. answer.code \in Forms \cup {"invalid_response", "pagination_mismatch"}
    BY <2>1, <2>2 DEF KStartupPage, ParsedPage
  <2>4. QED
    BY <2>3 DEF Forms
<1>3. QED
  BY <1>1, <1>2

LEMMA NextInv == ListingInv /\ [Next]_vars => ListingInv'
<1> SUFFICES ASSUME ListingInv, [Next]_vars PROVE ListingInv'
  OBVIOUS
<1>1. CASE Publish
  BY <1>1, PublishInv
<1>2. CASE Withdraw
  BY <1>2, WithdrawInv
<1>3. CASE ExceedPageLimit
  BY <1>3, FailInv DEF ExceedPageLimit
<1>4. CASE RefusePageSize
  BY <1>4, FailInv DEF RefusePageSize
<1>5. CASE FailRequest
  BY <1>5, FailInv DEF FailRequest
<1>6. CASE RefuseAnswer
  BY <1>6, FailInv, FailureCodes DEF RefuseAnswer
<1>7. CASE StorePage
  BY <1>7, StorePageInv
<1>8. CASE UNCHANGED vars
  BY <1>8 DEF vars, ListingInv, FreshMissesOnlyTheMoved, MovedBehind, Passed
<1>9. QED
  BY <1>1, <1>2, <1>3, <1>4, <1>5, <1>6, <1>7, <1>8 DEF Next

-----------------------------------------------------------------------------
(* While pages are read, as many notices at most have slipped behind them  *)
(* unread as were withdrawn: the types and the strengthening are invariant *)
(* for every listing, page size and answer of a source (collect).          *)
THEOREM ListingInvariant == Spec => []ListingInv
BY InitInv, NextInv, PTL DEF Spec

(* A fresh collection misses, of what was listed all the while, at most    *)
(* one notice for each withdrawn one (Collector.collect with either        *)
(* adapter), as long as no answer claims too few.                          *)
THEOREM FreshMissesFew == Spec => []FreshMissesOnlyTheMoved
<1>1. ListingInv => FreshMissesOnlyTheMoved
  BY DEF ListingInv
<1>2. QED
  BY ListingInvariant, <1>1, PTL
================================================================================
