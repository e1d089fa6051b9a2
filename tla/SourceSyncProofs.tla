-------------------------- MODULE SourceSyncProofs --------------------------
(***************************************************************************)
(* For any sources, page sizes, page limit and number of synchronizations: *)
(* type correctness, and what the rows of source_runs tell their readers.  *)
(* SyncInv is the inductive invariant.                                     *)
(***************************************************************************)
EXTENDS SourceSync, TLAPS

(* What SyncInv says of one synchronization.                               *)
SessionInv(p) == OwnsItsRun(p) /\ CountsItsRun(p) /\ SkipsNoSource(p)

LEMMA NoSessionType == NoSession \in Session
<1>1. <<>> \in Seq(Sources)
  OBVIOUS
<1>2. QED
  BY <1>1 DEF NoSession, Session, Codes

LEMMA IdleSession ==
  ASSUME NEW p \in Syncs, session[p] = NoSession
  PROVE  SessionInv(p)
BY DEF SessionInv, NoSession, OwnsItsRun, CountsItsRun, SkipsNoSource,
       Collecting

LEMMA InitInv == Init => SyncInv
<1> SUFFICES ASSUME Init PROVE SyncInv
  OBVIOUS
<1>1. runs = <<>> /\ tally = <<>> /\ abandoned = {} /\ Len(runs) = 0
  BY DEF Init
<1>2. \A p \in Syncs : session[p] = NoSession
  BY DEF Init
<1>3. TypeOK
  BY <1>1, NoSessionType DEF Init, TypeOK
<1>4. \A p \in Syncs : SessionInv(p)
  BY <1>2, IdleSession
<1>5. SoleOwner
  BY <1>2 DEF SoleOwner, NoSession
<1>6. ClosedRunsAreCounted /\ OpenRunsAreHeld
  BY <1>1 DEF ClosedRunsAreCounted, OpenRunsAreHeld
<1>7. QED
  BY <1>3, <1>4, <1>5, <1>6 DEF SyncInv, SessionInv

(***************************************************************************)
(* What a step of synchronization p has to show: rows it does not own stay *)
(* as they are, the runs it lets go are closed or abandoned.               *)
(***************************************************************************)
Started == (1..Len(runs')) \ (1..Len(runs))

LEMMA StepInv ==
  ASSUME SyncInv, NEW p \in Syncs,
         runs' \in Seq(Run), tally' \in Seq(Tally),
         Len(tally') = Len(runs'), Len(runs) <= Len(runs'),
         session' \in [Syncs -> Session],
         \A q \in Syncs \ {p} : session'[q] = session[q],
         \A r \in (1..Len(runs)) \ session[p].own :
           runs'[r] = runs[r] /\ tally'[r] = tally[r],
         SessionInv(p)',
         session'[p].own \subseteq session[p].own \cup Started,
         \A r \in session[p].own \cup Started :
           /\ runs'[r].status = "succeeded" =>
                /\ tally'[r].ended
                /\ runs'[r].items = tally'[r].stored
           /\ runs'[r].status = "failed" =>
                tally'[r].stored \in runs'[r].items..(runs'[r].items + 1)
           /\ runs'[r].status = "running" =>
                r \in abandoned' \/ r \in session'[p].own,
         abandoned \subseteq abandoned', abandoned' \subseteq 1..Len(runs')
  PROVE  SyncInv'
<1>1. /\ runs \in Seq(Run) /\ tally \in Seq(Tally) /\ Len(tally) = Len(runs)
      /\ session \in [Syncs -> Session]
  BY DEF SyncInv, TypeOK
<1>2. Len(runs) \in Nat /\ Len(runs') \in Nat
  BY <1>1
<1>3. TypeOK'
  BY DEF TypeOK
<1>4. \A q \in Syncs \ {p} :
        /\ session[q].own \subseteq (1..Len(runs)) \ session[p].own
        /\ Collecting(session[q]) => session[q].run \in session[q].own
  BY DEF SyncInv, SoleOwner, OwnsItsRun
<1>5. \A q \in Syncs : SessionInv(q)'
  <2> SUFFICES ASSUME NEW q \in Syncs PROVE SessionInv(q)'
    OBVIOUS
  <2>1. CASE q = p
    BY <2>1
  <2>2. CASE q # p
    <3>1. session'[q] = session[q]
      BY <2>2
    <3>2. \A r \in session[q].own :
            runs'[r] = runs[r] /\ tally'[r] = tally[r] /\ r \in 1..Len(runs')
      BY <1>2, <1>4, <2>2
    <3>3. OwnsItsRun(q) /\ CountsItsRun(q) /\ SkipsNoSource(q)
      BY DEF SyncInv
    <3>4. OwnsItsRun(q)'
      BY <3>1, <3>2, <3>3 DEF OwnsItsRun, Collecting
    <3>5. CountsItsRun(q)'
      <4>1. CASE Collecting(session[q])
        <5>1. tally'[session[q].run] = tally[session[q].run]
          BY <1>4, <2>2, <3>2, <4>1
        <5>2. QED
          BY <3>1, <3>3, <5>1 DEF CountsItsRun
      <4>2. CASE ~Collecting(session[q])
        BY <3>1, <3>3, <4>2 DEF CountsItsRun, Collecting
      <4>3. QED
        BY <4>1, <4>2
    <3>6. SkipsNoSource(q)'
      BY <3>1, <3>2, <3>3 DEF SkipsNoSource
    <3>7. QED
      BY <3>4, <3>5, <3>6 DEF SessionInv
  <2>3. QED
    BY <2>1, <2>2
<1>6. SoleOwner'
  <2> SUFFICES ASSUME NEW q \in Syncs, NEW o \in Syncs, q # o
               PROVE  session'[q].own \cap session'[o].own = {}
    BY DEF SoleOwner
  <2>1. session[q].own \cap session[o].own = {}
    BY DEF SyncInv, SoleOwner
  <2>2. CASE q # p /\ o # p
    BY <2>1, <2>2
  <2>3. CASE q = p
    BY <1>4, <2>1, <2>3 DEF Started
  <2>4. CASE o = p
    BY <1>4, <2>1, <2>4 DEF Started
  <2>5. QED
    BY <2>2, <2>3, <2>4
<1>7. \A r \in 1..Len(runs') :
        \/ r \in session[p].own \cup Started
        \/ /\ r \in (1..Len(runs)) \ session[p].own
           /\ runs'[r] = runs[r] /\ tally'[r] = tally[r]
  BY DEF Started
<1>8. ClosedRunsAreCounted'
  BY <1>7 DEF SyncInv, ClosedRunsAreCounted
<1>9. OpenRunsAreHeld'
  <2> SUFFICES ASSUME NEW r \in 1..Len(runs'), runs'[r].status = "running"
               PROVE  \/ r \in abandoned'
                      \/ \E q \in Syncs : r \in session'[q].own
    BY DEF OpenRunsAreHeld
  <2>1. CASE r \in session[p].own \cup Started
    BY <2>1
  <2>2. CASE /\ r \in (1..Len(runs)) \ session[p].own
             /\ runs'[r] = runs[r]
    <3>1. r \in abandoned \/ \E q \in Syncs : r \in session[q].own
      BY <2>2 DEF SyncInv, OpenRunsAreHeld
    <3>2. ASSUME NEW q \in Syncs, r \in session[q].own
          PROVE  r \in session'[q].own
      BY <2>2, <3>2
    <3>3. QED
      BY <3>1, <3>2
  <2>3. QED
    BY <1>7, <2>1, <2>2
<1>10. QED
  BY <1>3, <1>5, <1>6, <1>8, <1>9 DEF SyncInv, SessionInv

(* A step that leaves both tables alone.                                   *)
LEMMA SessionStep ==
  ASSUME SyncInv, NEW p \in Syncs,
         UNCHANGED <<runs, tally>>,
         session' \in [Syncs -> Session],
         \A q \in Syncs \ {p} : session'[q] = session[q],
         SessionInv(p)',
         session'[p].own \subseteq session[p].own,
         \A r \in session[p].own \ session'[p].own :
           runs[r].status = "running" => r \in abandoned',
         abandoned \subseteq abandoned', abandoned' \subseteq 1..Len(runs)
  PROVE  SyncInv'
<1>1. runs \in Seq(Run) /\ tally \in Seq(Tally) /\ Len(tally) = Len(runs)
  BY DEF SyncInv, TypeOK
<1>2. session[p].own \subseteq 1..Len(runs) /\ Started = {}
  BY DEF SyncInv, OwnsItsRun, Started
<1>3. \A r \in session[p].own :
        /\ runs[r].status = "succeeded" =>
             tally[r].ended /\ runs[r].items = tally[r].stored
        /\ runs[r].status = "failed" =>
             tally[r].stored \in runs[r].items..(runs[r].items + 1)
        /\ runs[r].status = "running" =>
             r \in abandoned' \/ r \in session'[p].own
  BY <1>2 DEF SyncInv, ClosedRunsAreCounted
<1>4. Len(runs) \in Nat
  BY <1>1
<1>5. QED
  BY <1>1, <1>2, <1>3, <1>4, StepInv

LEMMA StartSyncInv ==
  ASSUME SyncInv, NEW p \in Syncs, NEW selection \in Selections,
         NEW keys \in KeySets, StartSync(p, selection, keys)
  PROVE  SyncInv'
<1> DEFINE s == [NoSession EXCEPT !.pc = "next", !.keys = keys,
                   !.todo = selection, !.asked = selection]
<1>1. selection \in Seq(Sources)
  BY SyncAssumption
<1>2. s \in Session
  BY <1>1, NoSessionType DEF Session, NoSession
<1>3. /\ session \in [Syncs -> Session]
      /\ abandoned \subseteq 1..Len(runs) /\ OwnsItsRun(p)
  BY DEF SyncInv, TypeOK
<1>4. /\ session' = [session EXCEPT ![p] = s]
      /\ UNCHANGED <<runs, tally, abandoned>>
      /\ session[p].pc = "idle"
  BY DEF StartSync
<1>5. session'[p] = s
  BY <1>3, <1>4
<1>6. SessionInv(p)'
  BY <1>1, <1>5 DEF SessionInv, OwnsItsRun, CountsItsRun, SkipsNoSource,
     NoSession, Collecting
<1>7. \A r \in session[p].own : runs[r].status # "running"
  BY <1>3, <1>4 DEF OwnsItsRun, Collecting
<1>8. session'[p].own = {}
  BY <1>5 DEF NoSession
<1>9. session' \in [Syncs -> Session]
  BY <1>2, <1>3, <1>4
<1>10. \A q \in Syncs \ {p} : session'[q] = session[q]
  BY <1>4
<1>11. QED
  BY <1>3, <1>4, <1>6, <1>7, <1>8, <1>9, <1>10, SessionStep

(* The head of a list is the source taken; the tail holds the others.      *)
LEMMA HeadOrTail ==
  ASSUME NEW S, NEW t \in Seq(S), t # <<>>
  PROVE  /\ Head(t) \in S /\ Tail(t) \in Seq(S)
         /\ \A j \in DOMAIN t :
              t[j] = Head(t) \/ \E i \in DOMAIN Tail(t) : Tail(t)[i] = t[j]
<1>1. Len(t) \in Nat \ {0} /\ Head(t) = t[1] /\ Tail(t) \in Seq(S)
      /\ Len(Tail(t)) = Len(t) - 1 /\ Head(t) \in S
  OBVIOUS
<1>2. \A i \in 1..(Len(t) - 1) : Tail(t)[i] = t[i + 1]
  BY <1>1
<1>3. ASSUME NEW j \in DOMAIN t, j # 1
      PROVE  \E i \in DOMAIN Tail(t) : Tail(t)[i] = t[j]
  <2>1. j \in 2..Len(t) /\ j - 1 \in 1..(Len(t) - 1)
    BY <1>1, <1>3
  <2>2. j - 1 \in DOMAIN Tail(t) /\ Tail(t)[j - 1] = t[j]
    BY <1>1, <1>2, <2>1
  <2>3. QED
    BY <2>2
<1>4. QED
  BY <1>1, <1>3

LEMMA SkipSourceInv ==
  ASSUME SyncInv, NEW p \in Syncs, SkipSource(p)
  PROVE  SyncInv'
<1> DEFINE t == session[p].todo
<1>1. /\ session \in [Syncs -> Session] /\ session[p] \in Session
      /\ abandoned \subseteq 1..Len(runs)
      /\ OwnsItsRun(p) /\ CountsItsRun(p) /\ SkipsNoSource(p)
  BY DEF SyncInv, TypeOK
<1>2. /\ session' = [session EXCEPT ![p].todo = Tail(t)]
      /\ UNCHANGED <<runs, tally, abandoned>>
      /\ t # <<>> /\ Head(t) \notin session[p].keys
  BY DEF SkipSource
<1>3. t \in Seq(Sources)
  BY <1>1 DEF Session
<1>4. /\ Tail(t) \in Seq(Sources)
      /\ \A j \in DOMAIN t :
           t[j] = Head(t) \/ \E i \in DOMAIN Tail(t) : Tail(t)[i] = t[j]
  BY <1>2, <1>3, HeadOrTail
<1>5. session'[p] = [session[p] EXCEPT !.todo = Tail(t)]
  BY <1>1, <1>2
<1>6. /\ session'[p] \in Session /\ session'[p].todo = Tail(t)
      /\ session'[p].own = session[p].own
      /\ session'[p].asked = session[p].asked
      /\ session'[p].keys = session[p].keys
      /\ session'[p].pc = session[p].pc
      /\ session'[p].run = session[p].run
      /\ session'[p].count = session[p].count
      /\ session'[p].more = session[p].more
  BY <1>1, <1>4, <1>5 DEF Session
<1>7. session' \in [Syncs -> Session]
  BY <1>1, <1>2, <1>6
<1>8. OwnsItsRun(p)' /\ CountsItsRun(p)'
  BY <1>1, <1>2, <1>6 DEF OwnsItsRun, CountsItsRun, Collecting
<1>9. ASSUME NEW i \in DOMAIN session[p].asked,
             session[p].asked[i] \in session[p].keys
      PROVE  \/ \E j \in DOMAIN Tail(t) : Tail(t)[j] = session[p].asked[i]
             \/ \E r \in session[p].own : runs[r].source = session[p].asked[i]
  <2>1. \/ \E j \in DOMAIN t : t[j] = session[p].asked[i]
        \/ \E r \in session[p].own : runs[r].source = session[p].asked[i]
    BY <1>1, <1>9 DEF SkipsNoSource
  <2>2. QED
    BY <1>2, <1>4, <1>9, <2>1
<1>10. SkipsNoSource(p)'
  <2> HIDE DEF t
  <2>1. QED
    BY <1>2, <1>6, <1>9 DEF SkipsNoSource
<1>11. SessionInv(p)'
  BY <1>8, <1>10 DEF SessionInv
<1>12. QED
  BY <1>1, <1>2, <1>6, <1>7, <1>11, SessionStep

(* A step inside a collection: the run stays open and its owner at work.   *)
LEMMA WorkStep ==
  ASSUME SyncInv, NEW p \in Syncs,
         Collecting(session[p]), Collecting(session'[p]),
         session' \in [Syncs -> Session],
         \A q \in Syncs \ {p} : session'[q] = session[q],
         session'[p].keys = session[p].keys,
         session'[p].todo = session[p].todo,
         session'[p].asked = session[p].asked,
         session'[p].run = session[p].run,
         session'[p].own = session[p].own,
         UNCHANGED <<runs, abandoned>>,
         tally' \in Seq(Tally), Len(tally') = Len(tally),
         \A r \in (1..Len(runs)) \ {session[p].run} : tally'[r] = tally[r],
         CountsItsRun(p)'
  PROVE  SyncInv'
<1>1. /\ runs \in Seq(Run) /\ Len(tally) = Len(runs) /\ Len(runs) \in Nat
      /\ abandoned \subseteq 1..Len(runs)
      /\ OwnsItsRun(p) /\ SkipsNoSource(p)
  BY DEF SyncInv, TypeOK
<1>2. /\ session[p].own \subseteq 1..Len(runs)
      /\ session[p].run \in session[p].own
      /\ runs[session[p].run].status = "running"
      /\ Started = {}
  BY <1>1 DEF OwnsItsRun, Started
<1>3. OwnsItsRun(p)' /\ SkipsNoSource(p)'
  BY <1>1 DEF OwnsItsRun, SkipsNoSource
<1>4. SessionInv(p)'
  BY <1>3 DEF SessionInv
<1>5. \A r \in session[p].own :
        /\ runs[r].status = "succeeded" =>
             tally'[r].ended /\ runs[r].items = tally'[r].stored
        /\ runs[r].status = "failed" =>
             tally'[r].stored \in runs[r].items..(runs[r].items + 1)
  <2> SUFFICES ASSUME NEW r \in session[p].own, r # session[p].run
               PROVE  /\ runs[r].status = "succeeded" =>
                           tally'[r].ended /\ runs[r].items = tally'[r].stored
                      /\ runs[r].status = "failed" =>
                           tally'[r].stored
                             \in runs[r].items..(runs[r].items + 1)
    BY <1>2
  <2>1. r \in 1..Len(runs) /\ tally'[r] = tally[r]
    BY <1>2
  <2>2. QED
    BY <2>1 DEF SyncInv, ClosedRunsAreCounted
<1>6. \A r \in (1..Len(runs)) \ session[p].own :
        runs'[r] = runs[r] /\ tally'[r] = tally[r]
  BY <1>2
<1>7. QED
  BY <1>1, <1>2, <1>4, <1>5, <1>6, StepInv

(* The parts of a session that LeavePages leaves alone.                    *)
LEMMA LeftPages ==
  ASSUME SyncInv, NEW p \in Syncs, NEW pc, NEW code \in Codes,
         pc \in {"complete", "fail"},
         LeavePages(p, pc, code)
  PROVE  /\ session' \in [Syncs -> Session]
         /\ \A q \in Syncs \ {p} : session'[q] = session[q]
         /\ session'[p].pc = pc
         /\ session'[p].keys = session[p].keys
         /\ session'[p].todo = session[p].todo
         /\ session'[p].asked = session[p].asked
         /\ session'[p].run = session[p].run
         /\ session'[p].own = session[p].own
         /\ session'[p].count = session[p].count
         /\ session'[p].code = code
<1>1. session \in [Syncs -> Session] /\ session[p] \in Session
  BY DEF SyncInv, TypeOK
<1>2. session' = [session EXCEPT ![p] =
        [session[p] EXCEPT !.pc = pc, !.code = code, !.page = 1, !.left = 0,
                           !.more = FALSE]]
  BY <1>1 DEF LeavePages
<1>3. [session[p] EXCEPT !.pc = pc, !.code = code, !.page = 1, !.left = 0,
                         !.more = FALSE] \in Session
  BY <1>1 DEF Session
<1>4. QED
  BY <1>1, <1>2, <1>3 DEF Session

LEMMA LeaveStep ==
  ASSUME SyncInv, NEW p \in Syncs, NEW pc, NEW code \in Codes,
         pc \in {"complete", "fail"}, Collecting(session[p]),
         LeavePages(p, pc, code), UNCHANGED <<runs, tally, abandoned>>,
         pc = "complete" => session[p].pc = "items" /\ ~session[p].more,
         pc = "fail" => session[p].pc = "fetch"
  PROVE  SyncInv'
<1>1. /\ tally \in Seq(Tally) /\ CountsItsRun(p) /\ OwnsItsRun(p)
      /\ Len(tally) = Len(runs) /\ session[p] \in Session
  BY DEF SyncInv, TypeOK
<1>2. /\ session' \in [Syncs -> Session]
      /\ \A q \in Syncs \ {p} : session'[q] = session[q]
      /\ session'[p].pc = pc
      /\ session'[p].keys = session[p].keys
      /\ session'[p].todo = session[p].todo
      /\ session'[p].asked = session[p].asked
      /\ session'[p].run = session[p].run
      /\ session'[p].own = session[p].own
      /\ session'[p].count = session[p].count
  BY LeftPages
<1>3. CountsItsRun(p)'
  BY <1>1, <1>2 DEF CountsItsRun
<1>4. Collecting(session'[p])
  BY <1>2 DEF Collecting
<1>5. QED
  BY <1>1, <1>2, <1>3, <1>4, WorkStep

LEMMA FetchPageInv ==
  ASSUME SyncInv, NEW p \in Syncs, FetchPage(p)
  PROVE  SyncInv'
<1> DEFINE r == session[p].run
<1>1. /\ session \in [Syncs -> Session] /\ session[p] \in Session
      /\ tally \in Seq(Tally) /\ Len(tally) = Len(runs)
      /\ OwnsItsRun(p) /\ CountsItsRun(p)
  BY DEF SyncInv, TypeOK
<1>2. session[p].pc = "fetch" /\ UNCHANGED <<runs, abandoned>>
  BY DEF FetchPage
<1>3. Collecting(session[p])
  BY <1>2 DEF Collecting
<1>4. r \in 1..Len(tally)
  BY <1>1, <1>3 DEF OwnsItsRun
<1>5. CASE PageLimit(p) /\ UNCHANGED tally
  <2>1. LeavePages(p, "fail", "known")
    BY <1>5 DEF PageLimit
  <2>2. "known" \in Codes
    BY DEF Codes
  <2>3. QED
    BY <1>2, <1>3, <1>5, <2>1, <2>2, LeaveStep
<1>6. CASE /\ \E code \in {"http_503", "known"} : LeavePages(p, "fail", code)
           /\ UNCHANGED tally
  <2>1. PICK code \in {"http_503", "known"} : LeavePages(p, "fail", code)
    BY <1>6
  <2>2. code \in Codes
    BY DEF Codes
  <2>3. QED
    BY <1>2, <1>3, <1>6, <2>1, <2>2, LeaveStep
<1>7. ASSUME NEW n \in PageItems, NEW more \in BOOLEAN,
             session' = [session EXCEPT ![p].pc = "items",
                           ![p].left = n, ![p].more = more],
             tally' = [tally EXCEPT ![r].ended = ~more]
      PROVE  SyncInv'
  <2>1. n \in Nat
    BY SyncAssumption
  <2>2. session'[p] = [session[p] EXCEPT !.pc = "items", !.left = n,
                                         !.more = more]
    BY <1>1, <1>7
  <2>3. /\ session'[p] \in Session
        /\ session'[p].pc = "items" /\ session'[p].more = more
        /\ session'[p].keys = session[p].keys
        /\ session'[p].todo = session[p].todo
        /\ session'[p].asked = session[p].asked
        /\ session'[p].run = r
        /\ session'[p].own = session[p].own
        /\ session'[p].count = session[p].count
    BY <1>1, <2>1, <2>2 DEF Session
  <2>4. /\ session' \in [Syncs -> Session]
        /\ \A q \in Syncs \ {p} : session'[q] = session[q]
    BY <1>1, <1>7, <2>3
  <2> DEFINE x == [tally[r] EXCEPT !.ended = ~more]
  <2>5. tally[r] \in Tally /\ tally' = [tally EXCEPT ![r] = x]
    BY <1>1, <1>4, <1>7
  <2>a. x.stored = tally[r].stored /\ x.ended = ~more
    BY <2>5 DEF Tally
  <2>b. x \in Tally
    BY <2>5 DEF Tally
  <2>6. /\ tally' \in Seq(Tally) /\ Len(tally') = Len(tally)
        /\ tally'[r].stored = tally[r].stored /\ tally'[r].ended = ~more
        /\ \A q \in (1..Len(runs)) \ {r} : tally'[q] = tally[q]
    <3> HIDE DEF x
    <3>1. tally'[r] = x
      BY <1>1, <1>4, <2>5
    <3>2. tally' \in Seq(Tally) /\ Len(tally') = Len(tally)
      BY <1>1, <1>4, <2>5, <2>b
    <3>3. \A q \in (1..Len(runs)) \ {r} : tally'[q] = tally[q]
      BY <1>1, <1>4, <2>5
    <3>4. QED
      BY <2>a, <3>1, <3>2, <3>3
  <2>7. tally[r].stored = session[p].count
    BY <1>1, <1>2 DEF CountsItsRun
  <2>8. CountsItsRun(p)'
    BY <2>3, <2>6, <2>7 DEF CountsItsRun
  <2>9. Collecting(session'[p])
    BY <2>3 DEF Collecting
  <2>10. QED
    BY <1>2, <1>3, <2>3, <2>4, <2>6, <2>8, <2>9, WorkStep
<1>8. QED
  BY <1>5, <1>6, <1>7 DEF FetchPage

LEMMA UpsertNoticeInv ==
  ASSUME SyncInv, NEW p \in Syncs, UpsertNotice(p)
  PROVE  SyncInv'
<1> DEFINE r == session[p].run
<1>1. /\ session \in [Syncs -> Session] /\ session[p] \in Session
      /\ tally \in Seq(Tally) /\ Len(tally) = Len(runs)
      /\ OwnsItsRun(p) /\ CountsItsRun(p)
  BY DEF SyncInv, TypeOK
<1>2. /\ session[p].pc = "items" /\ session[p].left > 0
      /\ UNCHANGED <<runs, abandoned>>
      /\ session' = [session EXCEPT ![p].pc = "attach"]
      /\ tally' = [tally EXCEPT ![r].stored = @ + 1]
  BY DEF UpsertNotice
<1>3. Collecting(session[p])
  BY <1>2 DEF Collecting
<1>4. r \in 1..Len(tally)
  BY <1>1, <1>3 DEF OwnsItsRun
<1>5. session'[p] = [session[p] EXCEPT !.pc = "attach"]
  BY <1>1, <1>2
<1>6. /\ session'[p] \in Session /\ session'[p].pc = "attach"
      /\ session'[p].more = session[p].more
      /\ session'[p].left = session[p].left
      /\ session'[p].keys = session[p].keys
      /\ session'[p].todo = session[p].todo
      /\ session'[p].asked = session[p].asked
      /\ session'[p].run = r
      /\ session'[p].own = session[p].own
      /\ session'[p].count = session[p].count
  BY <1>1, <1>5 DEF Session
<1>7. /\ session' \in [Syncs -> Session]
      /\ \A q \in Syncs \ {p} : session'[q] = session[q]
  BY <1>1, <1>2, <1>6
<1>8. tally[r] \in Tally /\ tally' = [tally EXCEPT ![r] =
        [tally[r] EXCEPT !.stored = tally[r].stored + 1]]
  BY <1>1, <1>2, <1>4
<1>9. /\ tally' \in Seq(Tally) /\ Len(tally') = Len(tally)
      /\ tally'[r].stored = tally[r].stored + 1
      /\ tally'[r].ended = tally[r].ended
      /\ \A q \in (1..Len(runs)) \ {r} : tally'[q] = tally[q]
  BY <1>1, <1>4, <1>8 DEF Tally
<1>10. tally[r].stored = session[p].count /\ tally[r].ended = ~session[p].more
  BY <1>1, <1>2 DEF CountsItsRun
<1>11. CountsItsRun(p)'
  BY <1>2, <1>6, <1>9, <1>10 DEF CountsItsRun
<1>12. Collecting(session'[p])
  BY <1>6 DEF Collecting
<1>13. QED
  BY <1>2, <1>3, <1>6, <1>7, <1>9, <1>11, <1>12, WorkStep

LEMMA ProcessAttachmentsInv ==
  ASSUME SyncInv, NEW p \in Syncs, ProcessAttachments(p)
  PROVE  SyncInv'
<1>1. /\ session \in [Syncs -> Session] /\ session[p] \in Session
      /\ tally \in Seq(Tally) /\ CountsItsRun(p)
  BY DEF SyncInv, TypeOK
<1>2. /\ session[p].pc = "attach" /\ UNCHANGED <<runs, tally, abandoned>>
      /\ session' = [session EXCEPT ![p].pc = "items", ![p].left = @ - 1,
                                    ![p].count = @ + 1]
  BY DEF ProcessAttachments
<1>3. session'[p] = [session[p] EXCEPT !.pc = "items",
        !.left = session[p].left - 1, !.count = session[p].count + 1]
  BY <1>1, <1>2
<1>4. session[p].left - 1 \in Nat /\ session[p].count + 1 \in Nat
  BY <1>1, <1>2 DEF Session, CountsItsRun
<1>5. /\ session'[p] \in Session /\ session'[p].pc = "items"
      /\ session'[p].more = session[p].more
      /\ session'[p].keys = session[p].keys
      /\ session'[p].todo = session[p].todo
      /\ session'[p].asked = session[p].asked
      /\ session'[p].run = session[p].run
      /\ session'[p].own = session[p].own
      /\ session'[p].count = session[p].count + 1
  BY <1>1, <1>3, <1>4 DEF Session
<1>6. /\ session' \in [Syncs -> Session]
      /\ \A q \in Syncs \ {p} : session'[q] = session[q]
  BY <1>1, <1>2, <1>5
<1>7. CountsItsRun(p)'
  BY <1>1, <1>2, <1>5 DEF CountsItsRun
<1>8. Collecting(session[p]) /\ Collecting(session'[p])
  BY <1>2, <1>5 DEF Collecting
<1>9. QED
  BY <1>1, <1>2, <1>5, <1>6, <1>7, <1>8, WorkStep

LEMMA NextPageInv ==
  ASSUME SyncInv, NEW p \in Syncs, NextPage(p)
  PROVE  SyncInv'
<1>1. /\ session \in [Syncs -> Session] /\ session[p] \in Session
      /\ tally \in Seq(Tally) /\ CountsItsRun(p)
  BY DEF SyncInv, TypeOK
<1>2. session[p].pc = "items" /\ UNCHANGED <<runs, tally, abandoned>>
  BY DEF NextPage
<1>3. Collecting(session[p])
  BY <1>2 DEF Collecting
<1>4. CASE ~session[p].more /\ LeavePages(p, "complete", "none")
  <2>1. "none" \in Codes
    BY DEF Codes
  <2>2. QED
    BY <1>2, <1>3, <1>4, <2>1, LeaveStep
<1>5. CASE session' = [session EXCEPT ![p].pc = "fetch", ![p].page = @ + 1]
  <2>1. session'[p] = [session[p] EXCEPT !.pc = "fetch",
                                         !.page = session[p].page + 1]
    BY <1>1, <1>5
  <2>a. session[p].page + 1 \in Nat
    BY <1>1 DEF Session
  <2>2. /\ session'[p] \in Session /\ session'[p].pc = "fetch"
        /\ session'[p].keys = session[p].keys
        /\ session'[p].todo = session[p].todo
        /\ session'[p].asked = session[p].asked
        /\ session'[p].run = session[p].run
        /\ session'[p].own = session[p].own
        /\ session'[p].count = session[p].count
    BY <1>1, <2>1, <2>a DEF Session
  <2>3. /\ session' \in [Syncs -> Session]
        /\ \A q \in Syncs \ {p} : session'[q] = session[q]
    BY <1>1, <1>5, <2>2
  <2>4. CountsItsRun(p)' /\ Collecting(session'[p])
    BY <1>1, <1>2, <2>2 DEF CountsItsRun, Collecting
  <2>5. QED
    BY <1>1, <1>2, <1>3, <2>2, <2>3, <2>4, WorkStep
<1>6. QED
  BY <1>4, <1>5 DEF NextPage

(* The row a synchronization closes is the one it owns.                    *)
LEMMA ClosedRow ==
  ASSUME SyncInv, NEW p \in Syncs, Collecting(session[p]),
         NEW status \in {"succeeded", "failed"}, NEW code \in Codes,
         Close(p, status, code)
  PROVE  /\ runs' \in Seq(Run) /\ Len(runs') = Len(runs)
         /\ session[p].run \in 1..Len(runs)
         /\ runs'[session[p].run].status = status
         /\ runs'[session[p].run].items = session[p].count
         /\ \A r \in 1..Len(runs) : runs'[r].source = runs[r].source
         /\ \A r \in (1..Len(runs)) \ {session[p].run} : runs'[r] = runs[r]
<1> DEFINE r == session[p].run
           x == [runs[r] EXCEPT !.status = status, !.items = session[p].count,
                                !.code = code]
<1>1. /\ runs \in Seq(Run) /\ session[p] \in Session /\ OwnsItsRun(p)
  BY DEF SyncInv, TypeOK
<1>2. r \in 1..Len(runs)
  BY <1>1 DEF OwnsItsRun
<1>3. runs[r] \in Run /\ session[p].count \in Nat
  BY <1>1, <1>2 DEF Session
<1>4. /\ x \in Run /\ x.status = status /\ x.items = session[p].count
      /\ x.source = runs[r].source
  BY <1>3 DEF Run
<1>5. runs' = [runs EXCEPT ![r] = x]
  BY <1>1, <1>2 DEF Close, RunToClose
<1> HIDE DEF x
<1>6. /\ runs' \in Seq(Run) /\ Len(runs') = Len(runs) /\ runs'[r] = x
      /\ \A q \in (1..Len(runs)) \ {r} : runs'[q] = runs[q]
  BY <1>1, <1>2, <1>4, <1>5
<1>7. \A q \in 1..Len(runs) : runs'[q].source = runs[q].source
  BY <1>4, <1>6
<1>8. QED
  BY <1>2, <1>4, <1>6, <1>7

(* A run is closed, and its owner goes on to its next source or ends.      *)
LEMMA CloseStep ==
  ASSUME SyncInv, NEW p \in Syncs, Collecting(session[p]),
         NEW status \in {"succeeded", "failed"}, NEW code \in Codes,
         Close(p, status, code), UNCHANGED <<tally, abandoned>>,
         status = "succeeded" => session[p].pc = "complete",
         session' \in [Syncs -> Session],
         \A q \in Syncs \ {p} : session'[q] = session[q],
         session'[p].pc \in {"next", "idle"}, session'[p].count = 0,
         session'[p].own \subseteq session[p].own,
         SkipsNoSource(p)'
  PROVE  SyncInv'
<1> DEFINE r == session[p].run
<1>1. /\ runs \in Seq(Run) /\ tally \in Seq(Tally) /\ Len(tally) = Len(runs)
      /\ Len(runs) \in Nat /\ session[p] \in Session
      /\ abandoned \subseteq 1..Len(runs)
      /\ OwnsItsRun(p) /\ CountsItsRun(p)
  BY DEF SyncInv, TypeOK
<1>2. /\ runs' \in Seq(Run) /\ Len(runs') = Len(runs)
      /\ r \in 1..Len(runs)
      /\ runs'[r].status = status /\ runs'[r].items = session[p].count
      /\ \A q \in (1..Len(runs)) \ {r} : runs'[q] = runs[q]
  BY ClosedRow
<1>3. /\ session[p].own \subseteq 1..Len(runs) /\ r \in session[p].own
      /\ \A q \in session[p].own \ {r} : runs[q].status # "running"
      /\ Started = {}
  BY <1>1, <1>2 DEF OwnsItsRun, Started
<1>4. /\ status = "succeeded" =>
           tally[r].ended /\ tally[r].stored = session[p].count
      /\ status = "failed" =>
           tally[r].stored \in session[p].count..(session[p].count + 1)
  <2>1. session[p].count \in Nat
    BY <1>1 DEF Session
  <2>2. QED
    BY <1>1, <2>1 DEF CountsItsRun, Collecting
<1>5. ASSUME NEW q \in session[p].own
      PROVE  /\ runs'[q].status # "running"
             /\ runs'[q].status = "succeeded" =>
                  tally[q].ended /\ runs'[q].items = tally[q].stored
             /\ runs'[q].status = "failed" =>
                  tally[q].stored \in runs'[q].items..(runs'[q].items + 1)
  <2>1. CASE q = r
    BY <1>2, <1>4, <2>1
  <2>2. CASE q # r
    <3>1. runs'[q] = runs[q] /\ q \in 1..Len(runs)
      BY <1>2, <1>3, <2>2
    <3>2. QED
      BY <1>3, <2>2, <3>1 DEF SyncInv, ClosedRunsAreCounted
  <2>3. QED
    BY <2>1, <2>2
<1>6. SessionInv(p)'
  <2>1. OwnsItsRun(p)'
    BY <1>2, <1>3, <1>5 DEF OwnsItsRun, Collecting
  <2>2. CountsItsRun(p)'
    BY DEF CountsItsRun
  <2>3. QED
    BY <2>1, <2>2 DEF SessionInv
<1>7. \A q \in (1..Len(runs)) \ session[p].own :
        runs'[q] = runs[q] /\ tally'[q] = tally[q]
  BY <1>2, <1>3
<1>8. QED
  BY <1>1, <1>2, <1>3, <1>5, <1>6, <1>7, StepInv

LEMMA NextSourceStep ==
  ASSUME SyncInv, NEW p \in Syncs, Collecting(session[p]),
         NEW status \in {"succeeded", "failed"}, NEW code \in Codes,
         Close(p, status, code), NextSource(p),
         UNCHANGED <<tally, abandoned>>,
         status = "succeeded" => session[p].pc = "complete",
         status = "failed" => session[p].pc = "fail"
  PROVE  SyncInv'
<1> DEFINE s == [NoSession EXCEPT !.pc = "next", !.keys = session[p].keys,
                   !.todo = session[p].todo, !.asked = session[p].asked,
                   !.own = session[p].own]
<1>1. /\ session \in [Syncs -> Session] /\ session[p] \in Session
      /\ OwnsItsRun(p) /\ SkipsNoSource(p)
  BY DEF SyncInv, TypeOK
<1>2. /\ s \in Session /\ s.pc = "next" /\ s.own = session[p].own /\ s.count = 0
      /\ s.keys = session[p].keys /\ s.todo = session[p].todo
      /\ s.asked = session[p].asked
  BY <1>1, NoSessionType DEF Session, NoSession
<1>3. session' = [session EXCEPT ![p] = s]
  BY DEF NextSource
<1> HIDE DEF s
<1>4. /\ session' \in [Syncs -> Session] /\ session'[p] = s
      /\ \A q \in Syncs \ {p} : session'[q] = session[q]
  BY <1>1, <1>2, <1>3
<1>5. \A r \in session[p].own : runs'[r].source = runs[r].source
  BY <1>1, ClosedRow DEF OwnsItsRun
<1>6. SkipsNoSource(p)'
  BY <1>1, <1>2, <1>4, <1>5 DEF SkipsNoSource
<1>7. QED
  BY <1>2, <1>4, <1>6, CloseStep

LEMMA CompleteRunInv ==
  ASSUME SyncInv, NEW p \in Syncs, CompleteRun(p)
  PROVE  SyncInv'
<1>1. "none" \in Codes /\ session[p].pc = "complete" /\ Collecting(session[p])
  BY DEF Codes, CompleteRun, Collecting
<1>2. QED
  BY <1>1, NextSourceStep DEF CompleteRun

LEMMA FailRunInv ==
  ASSUME SyncInv, NEW p \in Syncs, FailRun(p)
  PROVE  SyncInv'
<1>1. session[p].pc = "fail" /\ Collecting(session[p])
  BY DEF FailRun, Collecting
<1>2. session[p].code \in Codes
  BY DEF SyncInv, TypeOK, Session
<1>3. QED
  BY <1>1, <1>2, NextSourceStep DEF FailRun

LEMMA RaiseUnexpectedInv ==
  ASSUME SyncInv, NEW p \in Syncs, RaiseUnexpected(p)
  PROVE  SyncInv'
<1>1. /\ Collecting(session[p])
      /\ Close(p, "failed", "internal_collection_error")
  BY DEF RaiseUnexpected, Caught, Collecting
<1>2. /\ "internal_collection_error" \in Codes
      /\ session \in [Syncs -> Session]
  BY DEF SyncInv, TypeOK, Codes
<1>3. /\ session' \in [Syncs -> Session] /\ session'[p] = NoSession
      /\ \A q \in Syncs \ {p} : session'[q] = session[q]
  BY <1>2, NoSessionType DEF RaiseUnexpected, End
<1>4. /\ NoSession.pc = "idle" /\ NoSession.own = {} /\ NoSession.count = 0
      /\ NoSession.asked = <<>>
  BY DEF NoSession
<1>5. SkipsNoSource(p)'
  BY <1>3, <1>4 DEF SkipsNoSource
<1>6. QED
  BY <1>1, <1>2, <1>3, <1>4, <1>5, CloseStep DEF RaiseUnexpected

(* A synchronization ends between two runs, or leaves its run abandoned.   *)
LEMMA EndStep ==
  ASSUME SyncInv, NEW p \in Syncs, End(p), UNCHANGED <<runs, tally>>,
         abandoned' = IF Collecting(session[p])
                      THEN abandoned \cup {session[p].run} ELSE abandoned
  PROVE  SyncInv'
<1>1. /\ session \in [Syncs -> Session] /\ abandoned \subseteq 1..Len(runs)
      /\ OwnsItsRun(p)
  BY DEF SyncInv, TypeOK
<1>2. /\ session' \in [Syncs -> Session] /\ session'[p] = NoSession
      /\ \A q \in Syncs \ {p} : session'[q] = session[q]
  BY <1>1, NoSessionType DEF End
<1>3. NoSession.pc = "idle" /\ NoSession.own = {} /\ NoSession.asked = <<>>
  BY DEF NoSession
<1>4. SessionInv(p)'
  BY <1>2, <1>3 DEF SessionInv, OwnsItsRun, CountsItsRun, SkipsNoSource,
     Collecting
<1>5. \A r \in session[p].own :
        runs[r].status = "running" => r \in abandoned'
  BY <1>1 DEF OwnsItsRun
<1>6. abandoned \subseteq abandoned' /\ abandoned' \subseteq 1..Len(runs)
  BY <1>1 DEF OwnsItsRun
<1>7. QED
  BY <1>2, <1>3, <1>4, <1>5, <1>6, SessionStep

LEMMA ReportInv ==
  ASSUME SyncInv, NEW p \in Syncs, Report(p)
  PROVE  SyncInv'
<1>1. ~Collecting(session[p])
  BY DEF Report, Collecting
<1>2. QED
  BY <1>1, EndStep DEF Report

LEMMA DieInv ==
  ASSUME SyncInv, NEW p \in Syncs, Die(p)
  PROVE  SyncInv'
BY EndStep DEF Die

LEMMA StartRunInv ==
  ASSUME SyncInv, NEW p \in Syncs, StartRun(p)
  PROVE  SyncInv'
<1> DEFINE n == Len(runs) + 1
           t == session[p].todo
           x == [source |-> Head(t), status |-> "running", items |-> 0,
                 code |-> "none"]
           y == [stored |-> 0, ended |-> FALSE]
           s == [session[p] EXCEPT !.pc = "fetch", !.todo = Tail(t),
                   !.run = n, !.own = session[p].own \cup {n}]
<1>1. /\ runs \in Seq(Run) /\ tally \in Seq(Tally) /\ Len(tally) = Len(runs)
      /\ session \in [Syncs -> Session] /\ session[p] \in Session
      /\ abandoned \subseteq 1..Len(runs) /\ Len(runs) \in Nat
      /\ OwnsItsRun(p) /\ SkipsNoSource(p)
  BY DEF SyncInv, TypeOK
<1>2. /\ t \in Seq(Sources) /\ t # <<>>
      /\ session[p].pc = "next" /\ session[p].count \in Nat
      /\ session[p].own \subseteq 1..Len(runs)
  BY <1>1 DEF StartRun, Session, OwnsItsRun
<1>3. /\ Head(t) \in Sources /\ Tail(t) \in Seq(Sources)
      /\ \A j \in DOMAIN t :
           t[j] = Head(t) \/ \E i \in DOMAIN Tail(t) : Tail(t)[i] = t[j]
  BY <1>2, HeadOrTail
<1>4. x \in Run /\ x.source = Head(t) /\ x.status = "running"
  BY <1>3 DEF Run, Codes
<1>5. y \in Tally /\ y.stored = 0
  BY DEF Tally
<1>6. /\ s \in Session /\ s.pc = "fetch" /\ s.todo = Tail(t) /\ s.run = n
      /\ s.own = session[p].own \cup {n} /\ s.keys = session[p].keys
      /\ s.asked = session[p].asked /\ s.count = session[p].count
  <2>1. n \in Nat /\ session[p].own \cup {n} \in SUBSET Nat
    BY <1>1, <1>2
  <2>2. QED
    BY <1>1, <1>3, <2>1 DEF Session
<1>7. /\ runs' = Append(runs, x) /\ tally' = Append(tally, y)
      /\ session' = [session EXCEPT ![p] = s] /\ UNCHANGED abandoned
  BY <1>1 DEF StartRun
<1> HIDE DEF s, x, y
<1>8. /\ runs' \in Seq(Run) /\ tally' \in Seq(Tally)
      /\ Len(runs') = n /\ Len(tally') = n
      /\ runs'[n] = x /\ tally'[n] = y
      /\ \A r \in 1..Len(runs) : runs'[r] = runs[r] /\ tally'[r] = tally[r]
  BY <1>1, <1>4, <1>5, <1>7
<1>9. /\ session' \in [Syncs -> Session] /\ session'[p] = s
      /\ \A q \in Syncs \ {p} : session'[q] = session[q]
  BY <1>1, <1>6, <1>7
<1>10. Started = {n}
  BY <1>1, <1>8 DEF Started
<1>11. \A r \in session[p].own : runs[r].status # "running"
  BY <1>1, <1>2 DEF OwnsItsRun, Collecting
<1>12. OwnsItsRun(p)'
  <2>1. s.own \subseteq 1..n
    BY <1>1, <1>2, <1>6
  <2>2. \A r \in session[p].own : runs'[r].status # "running"
    BY <1>2, <1>8, <1>11
  <2>3. QED
    BY <1>4, <1>6, <1>8, <1>9, <2>1, <2>2 DEF OwnsItsRun, Collecting
<1>13. session[p].count = 0
  BY <1>2 DEF SyncInv, CountsItsRun
<1>14. CountsItsRun(p)'
  BY <1>5, <1>6, <1>8, <1>9, <1>13 DEF CountsItsRun
<1>15. SkipsNoSource(p)'
  <2>1. ASSUME NEW i \in DOMAIN session[p].asked,
               session[p].asked[i] \in session[p].keys
        PROVE  \/ \E j \in DOMAIN Tail(t) : Tail(t)[j] = session[p].asked[i]
               \/ \E r \in s.own : runs'[r].source = session[p].asked[i]
    <3>1. \/ \E j \in DOMAIN t : t[j] = session[p].asked[i]
          \/ \E r \in session[p].own : runs[r].source = session[p].asked[i]
      BY <1>1, <2>1 DEF SkipsNoSource
    <3>2. n \in s.own /\ runs'[n].source = Head(t)
      BY <1>4, <1>6, <1>8
    <3>3. \A r \in session[p].own :
            r \in s.own /\ runs'[r].source = runs[r].source
      BY <1>2, <1>6, <1>8
    <3>4. QED
      BY <1>3, <3>1, <3>2, <3>3
  <2> HIDE DEF t
  <2>2. QED
    BY <1>6, <1>9, <2>1 DEF SkipsNoSource
<1>16. SessionInv(p)'
  BY <1>12, <1>14, <1>15 DEF SessionInv
<1>17. \A r \in session[p].own \cup {n} :
         /\ runs'[r].status = "succeeded" =>
              tally'[r].ended /\ runs'[r].items = tally'[r].stored
         /\ runs'[r].status = "failed" =>
              tally'[r].stored \in runs'[r].items..(runs'[r].items + 1)
         /\ runs'[r].status = "running" => r \in s.own
  BY <1>2, <1>4, <1>6, <1>8 DEF SyncInv, ClosedRunsAreCounted
<1>18. QED
  <2>1. /\ Len(tally') = Len(runs') /\ Len(runs) <= Len(runs')
        /\ abandoned \subseteq abandoned' /\ abandoned' \subseteq 1..Len(runs')
    BY <1>1, <1>7, <1>8
  <2>2. session'[p].own = session[p].own \cup Started
    BY <1>6, <1>9, <1>10
  <2>3. \A r \in session[p].own \cup Started :
          /\ runs'[r].status = "succeeded" =>
               tally'[r].ended /\ runs'[r].items = tally'[r].stored
          /\ runs'[r].status = "failed" =>
               tally'[r].stored \in runs'[r].items..(runs'[r].items + 1)
          /\ runs'[r].status = "running" =>
               r \in abandoned' \/ r \in session'[p].own
    BY <1>9, <1>10, <1>17
  <2>4. QED
    BY <1>8, <1>9, <1>16, <2>1, <2>2, <2>3, StepInv

-----------------------------------------------------------------------------
(* Every step keeps SyncInv.                                               *)
LEMMA NextInv == SyncInv /\ [Next]_vars => SyncInv'
<1> SUFFICES ASSUME SyncInv, [Next]_vars PROVE SyncInv'
  OBVIOUS
<1>1. CASE UNCHANGED vars
  BY <1>1 DEF vars, SyncInv, TypeOK, OwnsItsRun, CountsItsRun, SkipsNoSource,
     SoleOwner, ClosedRunsAreCounted, OpenRunsAreHeld, Collecting
<1>2. ASSUME NEW p \in Syncs, SyncStep(p) PROVE SyncInv'
  BY <1>2, StartSyncInv, SkipSourceInv, StartRunInv, ReportInv, FetchPageInv,
     UpsertNoticeInv, ProcessAttachmentsInv, NextPageInv, CompleteRunInv,
     FailRunInv, RaiseUnexpectedInv, DieInv DEF SyncStep
<1>3. QED
  BY <1>1, <1>2 DEF Next

(* SyncInv is an invariant.                                                *)
THEOREM SyncInvariant == Spec => []SyncInv
BY InitInv, NextInv, PTL DEF Spec

(* Every row and session keeps its type, whatever the interleaving.        *)
THEOREM TypeCorrect == Spec => []TypeOK
<1>1. SyncInv => TypeOK
  BY DEF SyncInv
<1>2. QED
  BY SyncInvariant, <1>1, PTL

(***************************************************************************)
(* What load_one_source_freshness calls fresh was read to its last page    *)
(* and counts what it stored.                                              *)
(***************************************************************************)
THEOREM FreshIsComplete == Spec => []FreshMeansComplete
<1>1. SyncInv => FreshMeansComplete
  <2> SUFFICES ASSUME SyncInv, NEW s \in Sources, Freshness(s) = "fresh",
                      NEW r \in Newest(s)
               PROVE  tally[r].ended /\ runs[r].items = tally[r].stored
    BY DEF FreshMeansComplete
  <2>1. PICK q \in Newest(s) : runs[q].status = "succeeded"
    BY DEF Freshness
  <2>2. q = r /\ r \in 1..Len(runs)
    BY DEF Newest, RunsOf
  <2>3. QED
    BY <2>1, <2>2 DEF SyncInv, ClosedRunsAreCounted
<1>2. QED
  BY SyncInvariant, <1>1, PTL

(* A run is open only while a live collector is at work on it.             *)
THEOREM RunsEnd == Spec => []EveryRunEnds
<1>1. SyncInv => EveryRunEnds
  <2> SUFFICES ASSUME SyncInv, NEW r \in 1..Len(runs)
               PROVE  IF runs[r].status = "running"
                      THEN \/ r \in abandoned
                           \/ \E p \in Syncs : /\ Collecting(session[p])
                                               /\ session[p].run = r
                      ELSE tally[r].stored
                             \in runs[r].items..(runs[r].items + 1)
    BY DEF EveryRunEnds
  <2>1. runs[r] \in Run
    BY DEF SyncInv, TypeOK
  <2>2. CASE runs[r].status = "running"
    BY <2>2 DEF SyncInv, OpenRunsAreHeld, OwnsItsRun
  <2>3. CASE runs[r].status = "failed"
    BY <2>3 DEF SyncInv, ClosedRunsAreCounted
  <2>4. CASE runs[r].status = "succeeded"
    <3>1. runs[r].items = tally[r].stored
      BY <2>4 DEF SyncInv, ClosedRunsAreCounted
    <3>2. runs[r].items \in Nat
      BY <2>1 DEF Run
    <3>3. QED
      BY <2>4, <3>1, <3>2
  <2>5. QED
    BY <2>1, <2>2, <2>3, <2>4 DEF Run
<1>2. QED
  BY SyncInvariant, <1>1, PTL

(***************************************************************************)
(* Once the newest run of a source is closed, the source is stale exactly  *)
(* when the failure inventory lists it.                                    *)
(***************************************************************************)
THEOREM InventoryAgrees == Spec => []InventoryFollowsFreshness
<1>1. SyncInv => InventoryFollowsFreshness
  <2> SUFFICES ASSUME SyncInv, NEW s \in Sources, NEW r \in Newest(s),
                      runs[r].status # "running"
               PROVE  Freshness(s) = "stale" <=> FailureCandidates(s) # {}
    BY DEF InventoryFollowsFreshness
  <2>1. r \in 1..Len(runs) /\ \A q \in Newest(s) : q = r
    BY DEF Newest, RunsOf
  <2>2. runs[r].status \in {"succeeded", "failed"}
    <3>1. runs[r] \in Run
      BY <2>1 DEF SyncInv, TypeOK
    <3>2. QED
      BY <3>1 DEF Run
  <2>3. Freshness(s) = "stale" <=> runs[r].status = "failed"
    BY <2>1, <2>2 DEF Freshness
  <2>4. FailedNow(s) = {} <=> runs[r].status # "failed"
    BY <2>1 DEF FailedNow
  <2>5. FailureCandidates(s) = {} <=> FailedNow(s) = {}
    BY DEF FailureCandidates
  <2>6. QED
    BY <2>3, <2>4, <2>5
<1>2. QED
  BY SyncInvariant, <1>1, PTL

(* A report comes after a closed run of every source with a key.           *)
THEOREM FailuresAreIsolated == Spec => []KnownFailuresAreIsolated
<1>1. SyncInv => KnownFailuresAreIsolated
  <2> SUFFICES ASSUME SyncInv, NEW p \in Syncs,
                      session[p].pc = "next", session[p].todo = <<>>
               PROVE  /\ \A i \in DOMAIN session[p].asked :
                           session[p].asked[i] \in session[p].keys =>
                             \E r \in session[p].own :
                               runs[r].source = session[p].asked[i]
                      /\ \A r \in session[p].own :
                           runs[r].status # "running"
    BY DEF KnownFailuresAreIsolated
  <2>1. OwnsItsRun(p) /\ SkipsNoSource(p) /\ DOMAIN session[p].todo = {}
    BY DEF SyncInv
  <2>2. QED
    BY <2>1 DEF OwnsItsRun, SkipsNoSource, Collecting
<1>2. QED
  BY SyncInvariant, <1>1, PTL

(* Only the open run of its owner is ever written.                         *)
LEMMA ClosedStay ==
  ASSUME SyncInv, [Next]_vars, NEW r \in 1..Len(runs),
         runs[r].status # "running"
  PROVE  runs'[r] = runs[r]
<1>1. runs \in Seq(Run) /\ Len(runs) \in Nat
  BY DEF SyncInv, TypeOK
<1>2. CASE UNCHANGED runs
  BY <1>2
<1>3. ASSUME NEW p \in Syncs, StartRun(p) PROVE runs'[r] = runs[r]
  <2>1. PICK x : runs' = Append(runs, x)
    BY <1>3 DEF StartRun
  <2>2. QED
    BY <1>1, <2>1
<1>4. ASSUME NEW p \in Syncs, Collecting(session[p]),
             NEW status, NEW code, Close(p, status, code)
      PROVE  runs'[r] = runs[r]
  <2>1. r # session[p].run
    BY <1>4 DEF SyncInv, OwnsItsRun
  <2>2. QED
    BY <1>1, <1>4, <2>1 DEF Close, RunToClose
<1>5. ASSUME NEW p \in Syncs, CompleteRun(p) \/ FailRun(p) \/ RaiseUnexpected(p)
      PROVE  runs'[r] = runs[r]
  <2>1. Collecting(session[p])
    BY <1>5 DEF CompleteRun, FailRun, RaiseUnexpected, Collecting
  <2>2. QED
    BY <1>4, <1>5, <2>1 DEF CompleteRun, FailRun, RaiseUnexpected, Caught
<1>6. ASSUME NEW p \in Syncs, SyncStep(p) PROVE runs'[r] = runs[r]
  BY <1>2, <1>3, <1>5, <1>6 DEF SyncStep, StartSync, SkipSource, Report,
     FetchPage, UpsertNotice, ProcessAttachments, NextPage, Die
<1>7. QED
  BY <1>2, <1>6 DEF Next, vars

(***************************************************************************)
(* complete_source_run and fail_source_run never change a closed run,      *)
(* however synchronizations of one source overlap.                         *)
(***************************************************************************)
THEOREM ClosedRunsStay == Spec => ClosedRunsAreFinal
<1>1. SyncInv /\ [Next]_vars =>
        [\A r \in 1..Len(runs) :
           runs[r].status # "running" => runs'[r] = runs[r]]_vars
  BY ClosedStay
<1>2. QED
  BY SyncInvariant, <1>1, PTL DEF Spec, ClosedRunsAreFinal
=============================================================================
