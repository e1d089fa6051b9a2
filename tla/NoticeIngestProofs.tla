------------------------- MODULE NoticeIngestProofs -------------------------
(***************************************************************************)
(* Proofs about NoticeIngest, for any number of ingestors, identities,     *)
(* contents and attempts: types, the conflicts and consensus derived from  *)
(* the pointers, the change sets of an identity that is ingested by one at *)
(* a time, and the races that are lost.                                    *)
(***************************************************************************)
EXTENDS NoticeIngest, FiniteSetTheorems, TLAPS

Titles == {c.title : c \in Contents}

Ends == {c.end : c \in Contents}

VersionRow(n) == [identity: Identities, content: Contents, program: 1..n]

-----------------------------------------------------------------------------
(* Operators.                                                              *)

LEMMA WiderSeq ==
  ASSUME NEW S, NEW T, S \subseteq T, NEW list \in Seq(S)
  PROVE  list \in Seq(T)
OBVIOUS

LEMMA TheRowIsOne ==
  ASSUME NEW ids \in SUBSET (Nat \ {0})
  PROVE  /\ TheRow(ids) \in Nat
         /\ TheRow(ids) = 0 <=> ids = {}
         /\ TheRow(ids) # 0 => TheRow(ids) \in ids
<1>1. ids # {} => TheRow(ids) \in ids
  BY DEF TheRow
<1>2. QED
  BY <1>1 DEF TheRow

(* A consensus is one of the values or the old one, and settles at once.   *)
LEMMA ConsensusSettles ==
  ASSUME NEW S, NEW values \in SUBSET S, NEW old \in S
  PROVE  /\ Consensus(values, old) \in S
         /\ values = {} => Consensus(values, old) = old
         /\ Consensus(values, Consensus(values, old)) = Consensus(values, old)
<1>1. Cardinality(values) = 1 => values # {}
  BY FS_EmptySet
<1>2. QED
  BY <1>1 DEF Consensus

FoldedTitles == {Folded[c.title] : c \in Contents}

LEMMA KeyType ==
  ASSUME NEW title \in Titles, NEW end \in Ends
  PROVE  CanonicalKey(title, end) \in
           [title: FoldedTitles, end: Ends, isolated: {{}}]
BY DEF CanonicalKey, Titles, FoldedTitles

LEMMA StorageKeyType ==
  ASSUME NEW i \in Identities, NEW c \in Contents
  PROVE  /\ StorageKey(i, c) \in
              [title: FoldedTitles, end: Ends, isolated: {{}, {i}}]
         /\ c.title \in Titles /\ c.end \in Ends
<1>1. c.title \in Titles /\ c.end \in Ends
  BY DEF Titles, Ends
<1>2. CanonicalKey(c.title, c.end) \in
        [title: FoldedTitles, end: Ends, isolated: {{}}]
  BY <1>1, KeyType
<1>3. QED
  BY <1>1, <1>2 DEF StorageKey

(* refresh_legacy_program touches the row of its program only, claims no   *)
(* identity, and leaves columns that show the consensus.                   *)
LEMMA RefreshedRow ==
  ASSUME NEW ps \in Seq(ProgramRow), NEW p \in 1..Len(ps),
         NEW n \in Nat, NEW vs \in Seq(VersionRow(n)), NEW cur,
         NEW new, new = Refreshed(ps, p, vs, cur)
  PROVE  /\ new \in Seq(ProgramRow) /\ Len(new) = Len(ps)
         /\ \A q \in 1..Len(ps) :
              /\ q # p => new[q] = ps[q]
              /\ new[q].key.isolated \subseteq ps[q].key.isolated
         /\ \A f \in {"title", "end"} :
              Consensus(Values(f, Snapshots(p, vs, cur), vs), new[p][f])
                = new[p][f]
<1> DEFINE rows  == Snapshots(p, vs, cur)
           title == Consensus(Values("title", rows, vs), ps[p].title)
           end   == Consensus(Values("end", rows, vs), ps[p].end)
           key   == CanonicalKey(title, end)
<1>1. rows \subseteq 1..Len(vs)
  BY DEF Snapshots, CurrentVersions
<1>2. \A v \in rows : vs[v].content \in Contents
  <2>1. \A v \in rows : vs[v] \in VersionRow(n)
    BY <1>1
  <2>2. QED
    BY <2>1 DEF VersionRow
<1>3. Values("title", rows, vs) \subseteq Titles /\ Values("end", rows, vs) \subseteq Ends
  BY <1>2 DEF Values, Titles, Ends
<1>4. ps[p] \in ProgramRow /\ ps[p].title \in Titles /\ ps[p].end \in Ends
  <2>1. ps[p] \in ProgramRow
    OBVIOUS
  <2>2. QED
    BY <2>1 DEF ProgramRow, Titles, Ends
<1>5. title \in Titles /\ end \in Ends
  BY <1>3, <1>4, ConsensusSettles
<1>6. key \in [title: FoldedTitles, end: Ends, isolated: {{}}]
  BY <1>5, KeyType
<1>7. /\ Consensus(Values("title", rows, vs), title) = title
      /\ Consensus(Values("end", rows, vs), end) = end
  <2>1. ASSUME NEW S, NEW values \in SUBSET S, NEW old \in S
        PROVE  Consensus(values, Consensus(values, old)) = Consensus(values, old)
    BY ConsensusSettles
  <2> HIDE DEF rows
  <2>2. Consensus(Values("title", rows, vs), title) = title
    BY <1>3, <1>4, <2>1
  <2>3. Consensus(Values("end", rows, vs), end) = end
    BY <1>3, <1>4, <2>1
  <2>4. QED
    BY <2>2, <2>3
<1>8. CASE rows = {}
  <2>1. new = ps
    BY <1>8 DEF Refreshed
  <2>2. Values("title", rows, vs) = {} /\ Values("end", rows, vs) = {}
    BY <1>8 DEF Values
  <2>3. /\ Consensus({}, ps[p].title) = ps[p].title
        /\ Consensus({}, ps[p].end) = ps[p].end
    BY <1>4, ConsensusSettles
  <2>4. QED
    BY <2>1, <2>2, <2>3
<1>9. CASE rows # {}
  <2>1. PICK k : k = IF /\ Complete(end)
                         /\ \A q \in 1..Len(ps) : q # p => ps[q].key # key
                      THEN key ELSE ps[p].key
    OBVIOUS
  <2> DEFINE row == [key |-> k, title |-> title, end |-> end]
  <2>2. new = [ps EXCEPT ![p] = row]
    BY <1>9, <2>1 DEF Refreshed
  <2>3. /\ k.isolated \subseteq ps[p].key.isolated
        /\ k \in [title: FoldedTitles, end: Ends, isolated: SUBSET Identities]
    BY <1>4, <1>6, <2>1 DEF ProgramRow, Ends, FoldedTitles
  <2>4. row \in ProgramRow
    BY <1>5, <2>3 DEF ProgramRow, Titles, Ends, FoldedTitles
  <2>5. new \in Seq(ProgramRow) /\ Len(new) = Len(ps) /\ new[p] = row
    BY <2>2, <2>4
  <2>6. \A q \in 1..Len(ps) : q # p => new[q] = ps[q]
    BY <2>2
  <2>7. new[p].key.isolated \subseteq ps[p].key.isolated
        /\ new[p]["title"] = title /\ new[p]["end"] = end
    BY <2>3, <2>5
  <2> HIDE DEF row, title, end, key, rows
  <2>8. \A q \in 1..Len(ps) : new[q].key.isolated \subseteq ps[q].key.isolated
    BY <2>6, <2>7
  <2>9. \A f \in {"title", "end"} :
          Consensus(Values(f, rows, vs), new[p][f]) = new[p][f]
    BY <1>7, <2>7
  <2>10. QED
    BY <2>5, <2>6, <2>8, <2>9 DEF rows
<1>10. QED
  BY <1>8, <1>9

-----------------------------------------------------------------------------
(* Sessions.                                                               *)

LEMMA NoSessionType ==
  /\ NoSession \in Session /\ NoSession.pc = "idle"
  /\ NoSession.existing = 0 /\ NoSession.current = 0
  /\ NoSession.program = 0 /\ NoSession.began = 0
BY IngestAssumption DEF NoSession, Session

LEMMA StartType ==
  ASSUME NEW i \in Identities, NEW c \in Contents,
         NEW n \in 0..MaxAttempts, NEW b \in Nat,
         NEW s, s = StartedAt(i, c, b, n)
  PROVE  /\ s \in Session /\ s.pc = "start" /\ s.identity = i /\ s.content = c
         /\ s.existing = 0 /\ s.current = 0 /\ s.program = 0
         /\ s.attempts = n /\ s.began = b
<1>1. s = [pc |-> "start", identity |-> i, content |-> c, attempts |-> n,
           existing |-> 0, current |-> 0, program |-> 0, moves |-> FALSE,
           began |-> b]
  BY DEF NoSession, StartedAt
<1>2. s.existing \in Nat /\ s.pc = "start" /\ s.identity = i /\ s.content = c
         /\ s.existing = 0 /\ s.current = 0 /\ s.program = 0
         /\ s.attempts = n /\ s.began = b
  BY <1>1
<1>3. s \in Session
  BY <1>1 DEF Session
<1>4. QED
  BY <1>2, <1>3

LEMMA InitInv == Init => IngestInv
<1> SUFFICES ASSUME Init PROVE IngestInv
  OBVIOUS
<1>1. Len(programs) = 0 /\ Len(versions) = 0 /\ Len(changes) = 0
  BY DEF Init
<1>2. \A i \in Identities : OwnVersions(i) = {} /\ current[i] = 0 /\ ChangesOf(i) = {}
  BY <1>1 DEF Init, OwnVersions, ChangesOf
<1>3. TypeOK
  BY NoSessionType DEF Init, TypeOK
<1>4. PointersAreSound /\ KeysAreClaimed
  BY <1>1, <1>2 DEF PointersAreSound, KeysAreClaimed
<1>5. \A r \in Ingestors : session[r] = NoSession
  BY DEF Init
<1>6. \A r \in Ingestors :
        ReadsAreRows(session[r]) /\ RacesAreWon(session[r]) /\ ReadsThePointer(r)
  BY <1>1, <1>5, NoSessionType
     DEF ReadsAreRows, RacesAreWon, ReadsThePointer, Init
<1>7. SoleIngestsChain
  BY <1>2 DEF SoleIngestsChain, OneChain, Split, ProgramsOf
<1>8. DerivedStateIsCurrent
  BY <1>1 DEF DerivedStateIsCurrent
<1>9. QED
  BY <1>3, <1>4, <1>6, <1>7, <1>8 DEF IngestInv

(* A step that writes no table is about the session that takes it.         *)
LEMMA QuietStep ==
  ASSUME IngestInv, NEW r \in Ingestors, NEW s \in Session,
         session' = [session EXCEPT ![r] = s],
         UNCHANGED <<tables, commits>>,
         overlapped \subseteq overlapped', overlapped' \subseteq Identities,
         ReadsAreRows(s), RacesAreWon(s),
         s.pc # "idle" /\ s.identity \notin overlapped' =>
           /\ \A q \in Ingestors \ {r} : ~Busy(q, s.identity)
           /\ FreshReads(s)
  PROVE  IngestInv'
<1>1. session \in [Ingestors -> Session]
  BY DEF IngestInv, TypeOK
<1>2. /\ programs' = programs /\ versions' = versions /\ current' = current
      /\ changes' = changes /\ conflicts' = conflicts
      /\ candidates' = candidates /\ commits' = commits
  BY DEF tables
<1>3. TypeOK'
  BY <1>1, <1>2 DEF IngestInv, TypeOK
<1>4. /\ \A i : OwnVersions(i)' = OwnVersions(i)
      /\ \A i : ProgramsOf(i)' = ProgramsOf(i)
      /\ \A i : ChangesOf(i)' = ChangesOf(i)
      /\ \A i, c : VersionsOf(i, c)' = VersionsOf(i, c)
      /\ \A key : WithKey(key)' = WithKey(key)
  BY <1>2 DEF OwnVersions, ProgramsOf, ChangesOf, VersionsOf, WithKey
<1>5. PointersAreSound' /\ KeysAreClaimed'
  BY <1>2, <1>4 DEF IngestInv, PointersAreSound, KeysAreClaimed
<1>6. SoleIngestsChain'
  <2>1. \A i \in Identities : OneChain(i)' <=> OneChain(i)
    BY <1>2, <1>4 DEF OneChain, Consecutive, Split
  <2>2. QED
    BY <2>1 DEF IngestInv, SoleIngestsChain
<1>7. DerivedStateIsCurrent'
  <2>1. \A i : Split(i)' <=> Split(i)
    BY <1>4 DEF Split
  <2>2. QED
    BY <2>1, <1>2, <1>4 DEF IngestInv, DerivedStateIsCurrent
<1>8. ASSUME NEW q \in Ingestors
      PROVE  (ReadsAreRows(session[q]) /\ RacesAreWon(session[q]) /\ ReadsThePointer(q))'
  <2>1. PICK t \in Session : t = session'[q]
    BY <1>1
  <2>2. t = IF q = r THEN s ELSE session[q]
    BY <1>1, <2>1
  <2>3. ReadsAreRows(t) /\ RacesAreWon(t)
    BY <2>2 DEF IngestInv
  <2>4. ReadsAreRows(session[q])'
    BY <1>2, <2>1, <2>3 DEF ReadsAreRows, VersionsOf, OwnVersions, ProgramsOf
  <2>5. RacesAreWon(session[q])'
    BY <1>2, <2>1, <2>3 DEF RacesAreWon, Lost, Collides, VersionsOf, WithKey
  <2>6. ReadsThePointer(q)'
    <3>1. ASSUME t.pc # "idle", t.identity \notin overlapped'
          PROVE  /\ \A p \in Ingestors :
                       session'[p].pc # "idle" /\ session'[p].identity = t.identity => p = q
                 /\ FreshReads(t)
      <4>1. CASE q = r
        BY <1>1, <2>2, <3>1, <4>1 DEF Busy
      <4>2. CASE q # r
        <5>1. ReadsThePointer(q) /\ t = session[q]
          BY <2>2, <4>2 DEF IngestInv
        <5>2. /\ \A p \in Ingestors : Busy(p, t.identity) => p = q
              /\ FreshReads(t)
          BY <3>1, <5>1 DEF ReadsThePointer
        <5>3. ~(s.pc # "idle" /\ s.identity = t.identity)
          BY <3>1, <4>2, <5>1 DEF Busy
        <5>4. QED
          BY <1>1, <5>2, <5>3 DEF Busy
      <4>3. QED
        BY <4>1, <4>2
    <3>2. QED
      BY <1>2, <2>1, <3>1 DEF ReadsThePointer, FreshReads, Busy
  <2>7. QED
    BY <2>4, <2>5, <2>6
<1>9. QED
  BY <1>3, <1>5, <1>6, <1>7, <1>8 DEF IngestInv

LEMMA SessionFacts ==
  ASSUME IngestInv, NEW r \in Ingestors
  PROVE  /\ session[r] \in Session
         /\ session \in [Ingestors -> Session]
         /\ ReadsAreRows(session[r]) /\ RacesAreWon(session[r])
         /\ session[r].pc # "idle" /\ session[r].identity \notin overlapped =>
              /\ \A q \in Ingestors \ {r} : ~Busy(q, session[r].identity)
              /\ FreshReads(session[r])
         /\ overlapped \subseteq Identities
         /\ commits \in Nat /\ MaxAttempts \in Nat \ {0}
  BY IngestAssumption DEF IngestInv, TypeOK, ReadsThePointer

LEMMA FinishInv ==
  ASSUME IngestInv, NEW r \in Ingestors, Finish(r),
         UNCHANGED <<tables, commits, overlapped>>
  PROVE  IngestInv'
<1>1. /\ ReadsAreRows(NoSession) /\ RacesAreWon(NoSession)
      /\ programs \in Seq(ProgramRow)
  BY NoSessionType DEF ReadsAreRows, RacesAreWon, IngestInv, TypeOK
<1>2. session' = [session EXCEPT ![r] = NoSession]
  BY DEF Finish
<1>3. overlapped \subseteq overlapped' /\ overlapped' \subseteq Identities
  BY SessionFacts
<1>4. QED
  BY <1>1, <1>2, <1>3, NoSessionType, QuietStep

LEMMA ReceiveInv ==
  ASSUME IngestInv, NEW r \in Ingestors, NEW i \in Identities,
         NEW c \in Contents, Receive(r, i, c)
  PROVE  IngestInv'
<1>1. PICK s : s = StartedAt(i, c, commits, MaxAttempts)
  OBVIOUS
<1>2. session' = [session EXCEPT ![r] = s] /\ UNCHANGED <<tables, commits>>
  BY <1>1 DEF Receive
<1>3. /\ s \in Session /\ s.pc = "start" /\ s.identity = i
      /\ s.existing = 0 /\ s.current = 0 /\ s.program = 0
      /\ s.attempts = MaxAttempts /\ s.began = commits
  BY <1>1, SessionFacts, StartType
<1>4. ReadsAreRows(s) /\ RacesAreWon(s)
  <2>1. programs \in Seq(ProgramRow) /\ commits \in Nat /\ MaxAttempts \in Nat
    BY IngestAssumption DEF IngestInv, TypeOK
  <2>2. QED
    BY <1>3, <2>1 DEF ReadsAreRows, RacesAreWon, Lost
<1>5. overlapped \subseteq overlapped' /\ overlapped' \subseteq Identities
  BY SessionFacts DEF Receive
<1>6. s.identity \notin overlapped' =>
        \A q \in Ingestors \ {r} : ~Busy(q, s.identity)
  BY <1>3 DEF Receive
<1>7. FreshReads(s)
  BY <1>3 DEF FreshReads
<1>8. QED
  BY <1>2, <1>3, <1>4, <1>5, <1>6, <1>7, QuietStep

(* A step of an active session that keeps its identity.                    *)
LEMMA ReadInv ==
  ASSUME IngestInv, NEW r \in Ingestors, NEW s \in Session,
         session[r].pc # "idle", s.identity = session[r].identity,
         session' = [session EXCEPT ![r] = s],
         UNCHANGED <<tables, commits, overlapped>>,
         ReadsAreRows(s), RacesAreWon(s),
         s.identity \notin overlapped /\ FreshReads(session[r]) => FreshReads(s)
  PROVE  IngestInv'
<1>1. overlapped \subseteq overlapped' /\ overlapped' \subseteq Identities
  BY SessionFacts
<1>2. s.pc # "idle" /\ s.identity \notin overlapped' =>
        /\ \A q \in Ingestors \ {r} : ~Busy(q, s.identity)
        /\ FreshReads(s)
  BY SessionFacts
<1>3. QED
  BY <1>1, <1>2, QuietStep

LEMMA FindExistingInv ==
  ASSUME IngestInv, NEW r \in Ingestors, FindExisting(r)
  PROVE  IngestInv'
<1> DEFINE t   == session[r]
           ids == VersionsOf(t.identity, t.content)
<1>1. /\ t \in Session /\ t.pc = "start" /\ ReadsAreRows(t) /\ RacesAreWon(t)
      /\ commits \in Nat /\ MaxAttempts \in Nat
  BY SessionFacts DEF FindExisting
<1>2. versions \in Seq(VersionRow(Len(programs)))
  BY DEF IngestInv, TypeOK, VersionRow
<1>3. ids \in SUBSET (Nat \ {0})
  BY <1>2 DEF VersionsOf
<1>4. PICK row : row = TheRow(ids)
  OBVIOUS
<1>5. row \in Nat /\ (row = 0 <=> ids = {}) /\ (row # 0 => row \in ids)
  BY <1>3, <1>4, TheRowIsOne
<1>6. PICK s : s = [t EXCEPT !.pc = "hash", !.existing = row]
  OBVIOUS
<1>7. session' = [session EXCEPT ![r] = s]
  BY <1>4, <1>6, SessionFacts DEF FindExisting, Session
<1>8. /\ s \in Session /\ s.pc = "hash" /\ s.existing = row
      /\ s.identity = t.identity /\ s.content = t.content /\ s.current = t.current
      /\ s.program = t.program /\ s.attempts = t.attempts /\ s.began = t.began
  BY <1>1, <1>5, <1>6 DEF Session
<1>9. ReadsAreRows(s)
  BY <1>1, <1>5, <1>8 DEF ReadsAreRows
<1>10. RacesAreWon(s)
  BY <1>1, <1>5, <1>8 DEF RacesAreWon, Lost
<1>11. FreshReads(s)
  BY <1>8 DEF FreshReads
<1>12. UNCHANGED <<tables, commits, overlapped>>
  BY DEF FindExisting
<1>13. QED
  BY <1>1, <1>7, <1>8, <1>9, <1>10, <1>11, <1>12, ReadInv

LEMMA FindProgramInv ==
  ASSUME IngestInv, NEW r \in Ingestors, FindProgram(r)
  PROVE  IngestInv'
<1> DEFINE t   == session[r]
           ids == WithKey(StorageKey(t.identity, t.content))
<1>1. /\ t \in Session /\ t.pc = "resolve" /\ ReadsAreRows(t) /\ RacesAreWon(t)
      /\ commits \in Nat /\ MaxAttempts \in Nat
  BY SessionFacts DEF FindProgram
<1>2. programs \in Seq(ProgramRow)
  BY DEF IngestInv, TypeOK
<1>3. ids \in SUBSET (Nat \ {0}) /\ ids \subseteq 1..Len(programs)
  BY <1>2 DEF WithKey
<1>4. PICK row : row = TheRow(ids)
  OBVIOUS
<1>5. row \in Nat /\ (row = 0 <=> ids = {}) /\ (row # 0 => row \in ids)
  BY <1>3, <1>4, TheRowIsOne
<1>6. PICK s : s = [t EXCEPT !.pc = "write", !.program = row]
  OBVIOUS
<1>7. session' = [session EXCEPT ![r] = s]
  BY <1>4, <1>6, SessionFacts DEF FindProgram, FindExactProgram, Session
<1>8. /\ s \in Session /\ s.pc = "write" /\ s.existing = t.existing
      /\ s.identity = t.identity /\ s.content = t.content /\ s.current = t.current
      /\ s.program = row /\ s.attempts = t.attempts /\ s.began = t.began
  BY <1>1, <1>5, <1>6 DEF Session
<1>9. ReadsAreRows(s)
  BY <1>1, <1>2, <1>3, <1>5, <1>8 DEF ReadsAreRows
<1>10. RacesAreWon(s)
  BY <1>1, <1>5, <1>8 DEF RacesAreWon, Lost, Collides, ReadsAreRows
<1>11. FreshReads(t) => FreshReads(s)
  BY <1>1, <1>8 DEF FreshReads, ReadsAreRows
<1>12. UNCHANGED <<tables, commits, overlapped>>
  BY DEF FindProgram
<1>13. QED
  BY <1>1, <1>7, <1>8, <1>9, <1>10, <1>11, <1>12, ReadInv

LEMMA ReadPointerInv ==
  ASSUME IngestInv, NEW r \in Ingestors, ReadPointer(r)
  PROVE  IngestInv'
<1> DEFINE t == session[r]
<1>1. /\ t \in Session /\ t.pc = "pointer" /\ ReadsAreRows(t) /\ RacesAreWon(t)
      /\ commits \in Nat /\ MaxAttempts \in Nat
  BY SessionFacts DEF ReadPointer
<1>2. PICK moves \in BOOLEAN : moves = (current[t.identity] # t.existing)
  OBVIOUS
<1>3. PICK s : s = [t EXCEPT !.pc = "write", !.moves = moves]
  OBVIOUS
<1>4. session' = [session EXCEPT ![r] = s]
  BY <1>2, <1>3, SessionFacts DEF ReadPointer, Session
<1>5. /\ s \in Session /\ s.pc = "write" /\ s.existing = t.existing
      /\ s.identity = t.identity /\ s.content = t.content /\ s.current = t.current
      /\ s.program = t.program /\ s.attempts = t.attempts /\ s.began = t.began
      /\ s.moves = moves
  BY <1>1, <1>2, <1>3 DEF Session
<1>6. ReadsAreRows(s)
  BY <1>1, <1>5 DEF ReadsAreRows
<1>7. RacesAreWon(s)
  BY <1>1, <1>5 DEF RacesAreWon, Lost, Collides, ReadsAreRows
<1>8. FreshReads(t) => FreshReads(s)
  BY <1>1, <1>2, <1>5 DEF FreshReads
<1>9. UNCHANGED <<tables, commits, overlapped>>
  BY DEF ReadPointer
<1>10. QED
  BY <1>1, <1>4, <1>5, <1>6, <1>7, <1>8, <1>9, ReadInv

LEMMA LoseRaceInv ==
  ASSUME IngestInv, NEW r \in Ingestors, LoseRace(r)
  PROVE  IngestInv'
<1> DEFINE t == session[r]
<1>1. /\ t \in Session /\ t.pc = "write" /\ ReadsAreRows(t) /\ RacesAreWon(t)
      /\ commits \in Nat /\ MaxAttempts \in Nat /\ Collides(t)
  BY SessionFacts DEF LoseRace
<1>2. UNCHANGED <<tables, commits, overlapped>>
  BY DEF LoseRace
<1>3. CASE t.attempts > 1
  <2>1. PICK s : s = StartedAt(t.identity, t.content, t.began, t.attempts - 1)
    OBVIOUS
  <2>2. session' = [session EXCEPT ![r] = s]
    BY <1>3, <2>1, SessionFacts DEF LoseRace
  <2>3. /\ s \in Session /\ s.pc = "start" /\ s.existing = 0 /\ s.current = 0
        /\ s.program = 0 /\ s.identity = t.identity /\ s.began = t.began
        /\ s.attempts = t.attempts - 1
    <3>1. /\ t.identity \in Identities /\ t.content \in Contents
          /\ t.attempts - 1 \in 0..MaxAttempts /\ t.began \in Nat
      BY <1>1, <1>3 DEF Session
    <3>2. QED
      BY <2>1, <3>1, StartType
  <2>4. t.began \in Nat /\ t.attempts \in Nat
    BY <1>1 DEF Session
  <2>5. ReadsAreRows(s)
    BY <1>1, <2>3 DEF ReadsAreRows, IngestInv, TypeOK
  <2>6. RacesAreWon(s)
    BY <1>1, <2>3, <2>4 DEF RacesAreWon, Lost
  <2>7. FreshReads(s)
    BY <2>3 DEF FreshReads
  <2>8. QED
    BY <1>1, <1>2, <2>2, <2>3, <2>5, <2>6, <2>7, ReadInv
<1>4. CASE ~(t.attempts > 1)
  BY <1>2, <1>4, FinishInv DEF LoseRace
<1>5. QED
  BY <1>3, <1>4

LEMMA FindCurrentInv ==
  ASSUME IngestInv, NEW r \in Ingestors, FindCurrent(r)
  PROVE  IngestInv'
<1> DEFINE t      == session[r]
           cur    == current[t.identity]
           linked == IF cur # 0 THEN cur ELSE t.existing
<1>1. /\ t \in Session /\ t.pc = "hash" /\ ReadsAreRows(t) /\ RacesAreWon(t)
      /\ commits \in Nat /\ MaxAttempts \in Nat
  BY SessionFacts DEF FindCurrent
<1>2. t.identity \in Identities /\ t.existing \in Nat /\ t.current = 0 /\ t.program = 0
  BY <1>1 DEF Session, ReadsAreRows
<1>3. /\ versions \in Seq(VersionRow(Len(programs))) /\ programs \in Seq(ProgramRow)
      /\ cur \in Nat
      /\ cur = 0 => OwnVersions(t.identity) = {}
      /\ cur # 0 => cur \in OwnVersions(t.identity)
  BY <1>2 DEF IngestInv, TypeOK, VersionRow, PointersAreSound
<1>4. UNCHANGED <<tables, commits, overlapped>>
  BY DEF FindCurrent
<1>5. CASE t.existing # 0 /\ t.existing = cur /\ Finish(r)
  BY <1>4, <1>5, FinishInv
<1>6. CASE /\ t.existing # cur /\ linked # 0
           /\ session' = [session EXCEPT
                ![r].pc = IF t.existing = 0 THEN "write" ELSE "pointer",
                ![r].current = cur,
                ![r].program = versions[linked].program]
  <2>1. linked \in OwnVersions(t.identity)
    <3>1. t.existing # 0 => t.existing \in VersionsOf(t.identity, t.content)
      BY <1>1 DEF ReadsAreRows
    <3>2. QED
      BY <1>3, <1>6, <3>1 DEF VersionsOf, OwnVersions
  <2>2. PICK p : p = versions[linked].program
    OBVIOUS
  <2>3. p \in ProgramsOf(t.identity)
    BY <2>1, <2>2 DEF ProgramsOf
  <2>4. p \in 1..Len(programs)
    <3>1. versions[linked] \in VersionRow(Len(programs))
      BY <1>3, <2>1 DEF OwnVersions
    <3>2. QED
      BY <2>2, <3>1 DEF VersionRow
  <2>5. PICK s : s = [t EXCEPT !.pc = IF t.existing = 0 THEN "write" ELSE "pointer",
                               !.current = cur, !.program = p]
    OBVIOUS
  <2>6. session' = [session EXCEPT ![r] = s]
    BY <1>6, <2>2, <2>5, SessionFacts DEF Session
  <2>7. /\ s \in Session /\ s.pc = (IF t.existing = 0 THEN "write" ELSE "pointer")
        /\ s.identity = t.identity /\ s.content = t.content
        /\ s.existing = t.existing /\ s.current = cur /\ s.program = p
        /\ s.attempts = t.attempts /\ s.began = t.began
    <3>1. p \in Nat
      BY <1>3, <2>4
    <3>2. QED
      BY <1>1, <1>3, <2>5, <3>1 DEF Session
  <2>8. ReadsAreRows(s)
    BY <1>1, <1>3, <2>3, <2>4, <2>7 DEF ReadsAreRows
  <2>9. RacesAreWon(s)
    BY <1>1, <1>3, <2>4, <2>7 DEF RacesAreWon, Lost, Collides
  <2>10. FreshReads(s)
    BY <1>6, <2>7 DEF FreshReads
  <2>11. QED
    BY <1>1, <1>4, <2>6, <2>7, <2>8, <2>9, <2>10, ReadInv
<1>7. CASE /\ linked = 0
           /\ session' = [session EXCEPT
                ![r].pc = IF Complete(t.content.end) THEN "resolve" ELSE "write"]
  <2>1. cur = 0 /\ t.existing = 0 /\ OwnVersions(t.identity) = {}
    BY <1>3, <1>7
  <2>2. PICK s : s = [t EXCEPT !.pc = IF Complete(t.content.end)
                                      THEN "resolve" ELSE "write"]
    OBVIOUS
  <2>3. session' = [session EXCEPT ![r] = s]
    BY <1>7, <2>2, SessionFacts DEF Session
  <2>4. /\ s \in Session
        /\ s.pc = (IF Complete(t.content.end) THEN "resolve" ELSE "write")
        /\ s.identity = t.identity /\ s.content = t.content
        /\ s.existing = 0 /\ s.current = 0 /\ s.program = 0
        /\ s.attempts = t.attempts /\ s.began = t.began
    BY <1>1, <1>2, <2>1, <2>2 DEF Session
  <2>5. ReadsAreRows(s)
    BY <1>1, <1>3, <2>4 DEF ReadsAreRows
  <2>6. ~Complete(t.content.end) =>
          WithKey(StorageKey(t.identity, t.content)) = {}
    <3>1. ASSUME ~Complete(t.content.end), NEW q \in 1..Len(programs),
                 programs[q].key = StorageKey(t.identity, t.content)
          PROVE  FALSE
      <4>1. t.identity \in programs[q].key.isolated
        BY <3>1 DEF StorageKey, CanonicalKey
      <4>2. QED
        BY <2>1, <4>1 DEF IngestInv, KeysAreClaimed
    <3>2. QED
      BY <3>1 DEF WithKey
  <2>7. RacesAreWon(s)
    BY <1>1, <2>1, <2>4, <2>6 DEF RacesAreWon, Lost, Collides
  <2>8. FreshReads(s)
    BY <2>1, <2>4 DEF FreshReads
  <2>9. QED
    BY <1>1, <1>4, <2>3, <2>4, <2>5, <2>7, <2>8, ReadInv
<1>8. QED
  BY <1>5, <1>6, <1>7 DEF FindCurrent

-----------------------------------------------------------------------------
(* The transaction.                                                        *)

(* What a write does to rows: it appends at most one version and at most   *)
(* one program, and changes no other row but that of its program.          *)
Writes(r, s, p, v) ==
  /\ s = session[r] /\ p = TargetProgram(s) /\ v = TargetVersion(s)

LEMMA WrittenVersions ==
  ASSUME IngestInv, NEW r \in Ingestors, Write(r),
         NEW s, NEW p, NEW v, Writes(r, s, p, v)
  PROVE  /\ s \in Session /\ s.pc = "write" /\ ReadsAreRows(s)
         /\ s.identity \in Identities /\ s.content \in Contents
         /\ p \in Nat \ {0} /\ p <= Len(InsertedPrograms(s))
         /\ Len(InsertedPrograms(s)) \in {Len(programs), Len(programs) + 1}
         /\ \A q \in 1..Len(InsertedPrograms(s)) : q = p \/ q <= Len(programs)
         /\ versions' \in Seq(VersionRow(Len(InsertedPrograms(s))))
         /\ Len(versions') \in {Len(versions), Len(versions) + 1}
         /\ v \in 1..Len(versions')
         /\ \A w \in 1..Len(versions) : versions'[w] = versions[w]
         /\ \A w \in 1..Len(versions') : w = v \/ w <= Len(versions)
         /\ versions'[v].identity = s.identity
         /\ s.existing = 0 => v = Len(versions) + 1 /\ versions'[v].program = p
         /\ s.existing # 0 => versions' = versions /\ s.program # 0
<1>1. /\ s \in Session /\ s.pc = "write" /\ ReadsAreRows(s)
      /\ s.identity \in Identities /\ s.content \in Contents
      /\ s.existing \in Nat
  BY SessionFacts DEF Write, Writes, Session
<1>2. /\ programs \in Seq(ProgramRow)
      /\ versions \in Seq(VersionRow(Len(programs)))
  BY DEF IngestInv, TypeOK, VersionRow
<1>3. /\ p \in Nat \ {0} /\ p <= Len(InsertedPrograms(s))
      /\ Len(InsertedPrograms(s)) \in {Len(programs), Len(programs) + 1}
      /\ \A q \in 1..Len(InsertedPrograms(s)) : q = p \/ q <= Len(programs)
  BY <1>1, <1>2 DEF Writes, TargetProgram, InsertedPrograms, ReadsAreRows
<1>4. versions' = InsertedVersions(s)
  BY DEF Write, Writes
<1>5. \A w \in 1..Len(versions) :
        versions[w] \in VersionRow(Len(InsertedPrograms(s)))
  <2>1. \A w \in 1..Len(versions) : versions[w] \in VersionRow(Len(programs))
    BY <1>2
  <2>2. Len(programs) \in Nat /\ Len(InsertedPrograms(s)) >= Len(programs)
    BY <1>2, <1>3
  <2>3. QED
    BY <2>1, <2>2, <1>3 DEF VersionRow
<1>6. CASE s.existing = 0
  <2>1. PICK row : row = [identity |-> s.identity, content |-> s.content,
                          program |-> p]
    OBVIOUS
  <2>2. versions' = Append(versions, row) /\ v = Len(versions) + 1
    BY <1>4, <1>6, <2>1 DEF InsertedVersions, Writes, TargetVersion
  <2>3. row \in VersionRow(Len(InsertedPrograms(s)))
        /\ row.identity = s.identity /\ row.program = p
    BY <1>1, <1>2, <1>3, <2>1 DEF VersionRow
  <2>4. versions \in Seq(VersionRow(Len(InsertedPrograms(s))))
    BY <1>2, <1>5
  <2>5. QED
    BY <1>1, <1>2, <1>3, <1>6, <2>2, <2>3, <2>4
<1>7. CASE s.existing # 0
  <2>1. versions' = versions /\ v = s.existing
    BY <1>4, <1>7 DEF InsertedVersions, Writes, TargetVersion
  <2>2. v \in 1..Len(versions) /\ versions[v].identity = s.identity
    BY <1>1, <1>7, <2>1 DEF ReadsAreRows, VersionsOf
  <2>3. versions \in Seq(VersionRow(Len(InsertedPrograms(s))))
    BY <1>2, <1>5
  <2>4. s.program # 0
    <3>1. s.program \in ProgramsOf(s.identity)
      BY <1>1, <1>7 DEF ReadsAreRows
    <3>2. PICK w \in 1..Len(versions) : s.program = versions[w].program
      BY <3>1 DEF ProgramsOf, OwnVersions
    <3>3. versions[w] \in VersionRow(Len(programs))
      BY <1>2
    <3>4. QED
      BY <3>2, <3>3 DEF VersionRow
  <2>5. QED
    BY <1>1, <1>2, <1>3, <1>7, <2>1, <2>2, <2>3, <2>4
<1>8. QED
  BY <1>6, <1>7

LEMMA WrittenPrograms ==
  ASSUME IngestInv, NEW r \in Ingestors, Write(r),
         NEW s, NEW p, NEW v, Writes(r, s, p, v)
  PROVE  /\ programs' \in Seq(ProgramRow)
         /\ Len(programs') = Len(InsertedPrograms(s))
         /\ p \in 1..Len(programs')
         /\ \A q \in 1..Len(programs) : q # p => programs'[q] = programs[q]
         /\ \A q \in 1..Len(programs') :
              /\ q <= Len(programs) =>
                   programs'[q].key.isolated \subseteq programs[q].key.isolated
              /\ q > Len(programs) =>
                   programs'[q].key.isolated \subseteq {s.identity}
         /\ \A f \in {"title", "end"} :
              Consensus(Values(f, Snapshots(p, versions', current'), versions'),
                        programs'[p][f]) = programs'[p][f]
<1> DEFINE ps == InsertedPrograms(s)
<1>1. /\ s \in Session /\ ReadsAreRows(s)
      /\ s.identity \in Identities /\ s.content \in Contents
      /\ versions' \in Seq(VersionRow(Len(ps)))
      /\ p \in Nat \ {0} /\ p <= Len(ps)
      /\ Len(ps) \in {Len(programs), Len(programs) + 1}
  BY WrittenVersions
<1>2. programs \in Seq(ProgramRow)
  BY DEF IngestInv, TypeOK
<1>3. programs' = Refreshed(ps, p, versions', current')
  BY DEF Write, Writes
<1>4. /\ ps \in Seq(ProgramRow)
      /\ \A q \in 1..Len(programs) : ps[q] = programs[q]
      /\ \A q \in 1..Len(ps) : q > Len(programs) =>
           ps[q].key.isolated \subseteq {s.identity}
  <2>1. CASE s.program # 0
    BY <1>2, <2>1 DEF InsertedPrograms
  <2>2. CASE s.program = 0
    <3>1. PICK row : row = [key   |-> StorageKey(s.identity, s.content),
                            title |-> s.content.title, end |-> s.content.end]
      OBVIOUS
    <3>2. ps = Append(programs, row)
      BY <2>2, <3>1 DEF InsertedPrograms
    <3>3. PICK k : k = StorageKey(s.identity, s.content)
      OBVIOUS
    <3>4. /\ k \in [title: FoldedTitles, end: Ends, isolated: {{}, {s.identity}}]
          /\ s.content.title \in Titles /\ s.content.end \in Ends
      BY <1>1, <3>3, StorageKeyType
    <3>5. row = [key |-> k, title |-> s.content.title, end |-> s.content.end]
      BY <3>1, <3>3
    <3>6. row \in ProgramRow /\ row.key.isolated \subseteq {s.identity}
      BY <1>1, <3>4, <3>5 DEF ProgramRow, Titles, Ends, FoldedTitles
    <3>7. QED
      BY <1>2, <3>2, <3>6
  <2>3. QED
    BY <2>1, <2>2
<1>5. Len(ps) \in Nat /\ p \in 1..Len(ps)
  BY <1>1, <1>4
<1>6. PICK n \in Nat : n = Len(ps)
  BY <1>5
<1>7. PICK vs \in Seq(VersionRow(n)) : vs = versions'
  BY <1>1, <1>6
<1>8. PICK new : new = Refreshed(ps, p, versions', current')
  OBVIOUS
<1>9. /\ new \in Seq(ProgramRow) /\ Len(new) = Len(ps)
      /\ \A q \in 1..Len(ps) :
           /\ q # p => new[q] = ps[q]
           /\ new[q].key.isolated \subseteq ps[q].key.isolated
      /\ \A f \in {"title", "end"} :
           Consensus(Values(f, Snapshots(p, versions', current'), versions'), new[p][f])
             = new[p][f]
  <2> HIDE DEF ps
  <2>1. QED
    BY <1>4, <1>5, <1>7, <1>8, RefreshedRow
<1>10. programs' = new
  BY <1>3, <1>8
<1>11. Len(programs) \in Nat /\ Len(programs) <= Len(ps)
  BY <1>1, <1>2
<1> HIDE DEF ps
<1>12. \A q \in 1..Len(programs) : q # p => programs'[q] = programs[q]
  BY <1>4, <1>5, <1>9, <1>10, <1>11
<1>13. \A q \in 1..Len(programs') :
         /\ q <= Len(programs) =>
              programs'[q].key.isolated \subseteq programs[q].key.isolated
         /\ q > Len(programs) =>
              programs'[q].key.isolated \subseteq {s.identity}
  BY <1>4, <1>5, <1>9, <1>10, <1>11
<1>14. QED
  BY <1>5, <1>9, <1>10, <1>12, <1>13 DEF ps

LEMMA WrittenPointers ==
  ASSUME IngestInv, NEW r \in Ingestors, Write(r),
         NEW s, NEW p, NEW v, Writes(r, s, p, v)
  PROVE  /\ current' \in [Identities -> 0..Len(versions')]
         /\ \A j \in Identities \ {s.identity} : current'[j] = current[j]
         /\ s.existing = 0 \/ s.moves => current'[s.identity] = v
         /\ \/ current'[s.identity] = v
            \/ current'[s.identity] = current[s.identity] /\ current[s.identity] # 0
<1>1. /\ s.identity \in Identities /\ ReadsAreRows(s)
      /\ v \in 1..Len(versions')
      /\ Len(versions') \in {Len(versions), Len(versions) + 1}
  BY WrittenVersions
<1>2. /\ current \in [Identities -> 0..Len(versions)]
      /\ versions \in Seq(VersionRow(Len(programs)))
      /\ current[s.identity] = 0 => OwnVersions(s.identity) = {}
  BY <1>1 DEF IngestInv, TypeOK, VersionRow, PointersAreSound
<1>3. current' = MovedPointers(s)
  BY DEF Write, Writes
<1>4. \A j \in Identities : current[j] \in 0..Len(versions')
  BY <1>1, <1>2
<1>5. CASE s.existing = 0 \/ s.moves
  <2>1. current' = [current EXCEPT ![s.identity] = v]
    BY <1>3, <1>5 DEF MovedPointers, Writes
  <2>2. QED
    BY <1>1, <1>2, <1>4, <2>1
<1>6. CASE ~(s.existing = 0 \/ s.moves)
  <2>1. current' = current
    BY <1>3, <1>6 DEF MovedPointers
  <2>2. s.existing \in OwnVersions(s.identity)
    BY <1>1, <1>6 DEF ReadsAreRows, VersionsOf, OwnVersions
  <2>3. QED
    BY <1>1, <1>2, <1>4, <1>6, <2>1, <2>2
<1>7. QED
  BY <1>5, <1>6

(* The rows of other identities are as they were.                          *)
LEMMA WrittenIdentities ==
  ASSUME IngestInv, NEW r \in Ingestors, Write(r),
         NEW s, NEW p, NEW v, Writes(r, s, p, v)
  PROVE  /\ OwnVersions(s.identity)' = OwnVersions(s.identity) \cup {v}
         /\ \A j \in Identities \ {s.identity} :
              /\ OwnVersions(j)' = OwnVersions(j)
              /\ ProgramsOf(j)' = ProgramsOf(j)
         /\ \A j \in Identities : OwnVersions(j) \subseteq OwnVersions(j)'
         /\ \A j \in Identities : ProgramsOf(j) \subseteq ProgramsOf(j)'
         /\ ProgramsOf(s.identity)' = ProgramsOf(s.identity) \cup {p}
<1>1. /\ ReadsAreRows(s) /\ s.identity \in Identities
      /\ Len(versions') \in {Len(versions), Len(versions) + 1}
      /\ v \in 1..Len(versions')
      /\ \A w \in 1..Len(versions) : versions'[w] = versions[w]
      /\ \A w \in 1..Len(versions') : w = v \/ w <= Len(versions)
      /\ versions'[v].identity = s.identity
      /\ s.existing = 0 => v = Len(versions) + 1 /\ versions'[v].program = p
      /\ s.existing # 0 => versions' = versions /\ s.program # 0
  BY WrittenVersions
<1>2. Len(versions) \in Nat
  BY DEF IngestInv, TypeOK
<1>3. OwnVersions(s.identity)' = OwnVersions(s.identity) \cup {v}
  BY <1>1, <1>2 DEF OwnVersions
<1>4. ASSUME NEW j \in Identities
      PROVE  /\ OwnVersions(j) \subseteq OwnVersions(j)'
             /\ j # s.identity => OwnVersions(j)' = OwnVersions(j)
             /\ ProgramsOf(j)  = {versions'[w].program : w \in OwnVersions(j)}
             /\ ProgramsOf(j)' = {versions'[w].program : w \in OwnVersions(j)'}
  BY <1>1, <1>2 DEF OwnVersions, ProgramsOf
<1>5. ASSUME NEW j \in Identities
      PROVE  /\ ProgramsOf(j) \subseteq ProgramsOf(j)'
             /\ j # s.identity => ProgramsOf(j)' = ProgramsOf(j)
  BY <1>4
<1>6. ProgramsOf(s.identity)' = ProgramsOf(s.identity) \cup {p}
  <2>1. CASE s.existing = 0
    BY <1>1, <1>3, <1>4, <2>1
  <2>2. CASE s.existing # 0
    <3>1. ProgramsOf(s.identity)' = ProgramsOf(s.identity)
      BY <1>1, <2>2 DEF ProgramsOf, OwnVersions
    <3>2. p \in ProgramsOf(s.identity)
      <4>1. s.program \in ProgramsOf(s.identity)
        <5>1. s.pc = "write"
          BY WrittenVersions
        <5>2. QED
          BY <1>1, <2>2, <5>1 DEF ReadsAreRows
      <4>2. p = s.program
        BY <1>1, <2>2 DEF Writes, TargetProgram
      <4>3. QED
        BY <4>1, <4>2
    <3>3. QED
      BY <3>1, <3>2
  <2>3. QED
    BY <2>1, <2>2
<1>7. QED
  BY <1>3, <1>4, <1>5, <1>6

LEMMA WrittenChanges ==
  ASSUME IngestInv, NEW r \in Ingestors, Write(r),
         NEW s, NEW p, NEW v, Writes(r, s, p, v)
  PROVE  /\ s.current = 0 => changes' = changes
         /\ s.current # 0 =>
              /\ Len(changes') = Len(changes) + 1
              /\ \A k \in 1..Len(changes) : changes'[k] = changes[k]
              /\ changes'[Len(changes) + 1] =
                   [identity |-> s.identity, now |-> v, previous |-> s.current]
              /\ s.current \in OwnVersions(s.identity)
         /\ \A j \in Identities \ {s.identity} : ChangesOf(j)' = ChangesOf(j)
<1>1. Len(changes) \in Nat /\ DOMAIN changes = 1..Len(changes)
  BY DEF IngestInv, TypeOK
<1>2. /\ s.current = 0 => changes' = changes
      /\ s.current # 0 =>
           changes' = Append(changes, [identity |-> s.identity, now |-> v,
                                       previous |-> s.current])
  BY DEF Write, Writes, PreviousVersion
<1>3. PICK row : row = [identity |-> s.identity, now |-> v, previous |-> s.current]
  OBVIOUS
<1>4. s.current # 0 =>
        /\ Len(changes') = Len(changes) + 1
        /\ \A k \in 1..Len(changes) : changes'[k] = changes[k]
        /\ changes'[Len(changes) + 1] = row
  BY <1>1, <1>2, <1>3 DEF IngestInv, TypeOK
<1>5. s.current # 0 => s.current \in OwnVersions(s.identity)
  BY WrittenVersions DEF ReadsAreRows
<1>6. row.identity = s.identity
  BY <1>3
<1>7. \A j \in Identities \ {s.identity} : ChangesOf(j)' = ChangesOf(j)
  BY <1>1, <1>2, <1>4, <1>6 DEF ChangesOf
<1>8. QED
  BY <1>2, <1>3, <1>4, <1>5, <1>7

LEMMA WriteTypes ==
  ASSUME IngestInv, NEW r \in Ingestors, Write(r),
         NEW s, NEW p, NEW v, Writes(r, s, p, v)
  PROVE  TypeOK'
<1>1. /\ programs' \in Seq(ProgramRow) /\ p \in 1..Len(programs')
      /\ Len(programs') = Len(InsertedPrograms(s))
      /\ Len(programs') \in {Len(programs), Len(programs) + 1}
  BY WrittenPrograms, WrittenVersions
<1>2. /\ versions' \in Seq(VersionRow(Len(programs')))
      /\ Len(versions') \in {Len(versions), Len(versions) + 1}
      /\ v \in 1..Len(versions')
      /\ s.identity \in Identities
  BY <1>1, WrittenVersions
<1>3. current' \in [Identities -> 0..Len(versions')]
  BY WrittenPointers
<1>4. /\ Len(programs) \in Nat /\ Len(versions) \in Nat
      /\ changes \in Seq([identity: Identities, previous: 1..Len(versions),
                           now: 1..Len(versions)])
      /\ \A x \in conflicts :
           x.program \in 1..Len(programs) /\ x.field \in {"title", "end"}
      /\ candidates \subseteq SUBSET (1..Len(programs))
      /\ session \in [Ingestors -> Session]
      /\ commits \in Nat /\ overlapped \subseteq Identities
  BY DEF IngestInv, TypeOK
<1>5. changes' \in Seq([identity: Identities, previous: 1..Len(versions'),
                         now: 1..Len(versions')])
  <2> DEFINE Row == [identity: Identities, previous: 1..Len(versions'),
                     now: 1..Len(versions')]
  <2> DEFINE Old == [identity: Identities, previous: 1..Len(versions),
                     now: 1..Len(versions)]
  <2>1. 1..Len(versions) \subseteq 1..Len(versions')
    BY <1>2, <1>4
  <2>2. changes \in Seq(Row)
    <3>1. Old \subseteq Row
      BY <2>1
    <3>2. changes \in Seq(Old)
      BY <1>4
    <3> HIDE DEF Old, Row
    <3>3. QED
      BY <3>1, <3>2, WiderSeq
  <2>3. CASE s.current = 0
    BY <2>2, <2>3, WrittenChanges
  <2>4. CASE s.current # 0
    <3>1. PICK row : row = [identity |-> s.identity, now |-> v, previous |-> s.current]
      OBVIOUS
    <3>2. s.current \in 1..Len(versions)
      BY <2>4, WrittenChanges DEF OwnVersions
    <3>3. row \in Row
      BY <1>2, <1>4, <3>1, <3>2
    <3>4. changes' = Append(changes, row)
      BY <2>4, <3>1 DEF Write, Writes, PreviousVersion
    <3> HIDE DEF Row
    <3>5. QED
      BY <2>2, <3>3, <3>4 DEF Row
  <2>5. QED
    BY <2>3, <2>4
<1>6. \A x \in conflicts' :
        x.program \in 1..Len(programs') /\ x.field \in {"title", "end"}
  <2>1. conflicts' = SyncedConflicts(p, versions', current')
    BY DEF Write, Writes
  <2>2. \A x \in ConflictsOf(p, versions', current') :
          x.program = p /\ x.field \in {"title", "end"}
    BY DEF ConflictsOf
  <2>3. QED
    BY <1>1, <1>4, <2>1, <2>2 DEF SyncedConflicts
<1>7. candidates' \subseteq SUBSET (1..Len(programs'))
  <2>1. candidates' = candidates \cup
          (IF s.program = 0
           THEN CandidatesOf(p, s.identity, s.content, InsertedPrograms(s), versions')
           ELSE {})
    BY DEF Write, Writes
  <2>2. CandidatesOf(p, s.identity, s.content, InsertedPrograms(s), versions')
          \subseteq SUBSET (1..Len(programs'))
    BY <1>1 DEF CandidatesOf
  <2>3. 1..Len(programs) \subseteq 1..Len(programs')
    BY <1>1, <1>4
  <2>4. \A x \in candidates : x \subseteq 1..Len(programs')
    BY <1>4, <2>3
  <2>5. QED
    BY <2>1, <2>2, <2>4
<1>8. session' \in [Ingestors -> Session] /\ commits' \in Nat
      /\ overlapped' \subseteq Identities
  BY <1>4, NoSessionType DEF Write, Finish
<1>9. QED
  BY <1>1, <1>2, <1>3, <1>5, <1>6, <1>7, <1>8 DEF TypeOK, VersionRow

LEMMA WritePointers ==
  ASSUME IngestInv, NEW r \in Ingestors, Write(r),
         NEW s, NEW p, NEW v, Writes(r, s, p, v)
  PROVE  PointersAreSound' /\ KeysAreClaimed'
<1>1. v # 0 /\ s.identity \in Identities
  BY WrittenVersions
<1>2. PointersAreSound'
  <2>1. ASSUME NEW j \in Identities
        PROVE  /\ current'[j] = 0 => OwnVersions(j)' = {}
               /\ current'[j] # 0 => current'[j] \in OwnVersions(j)'
    <3>1. /\ current[j] = 0 => OwnVersions(j) = {}
          /\ current[j] # 0 => current[j] \in OwnVersions(j)
      BY DEF IngestInv, PointersAreSound
    <3>2. CASE j = s.identity
      BY <1>1, <3>1, <3>2, WrittenPointers, WrittenIdentities
    <3>3. CASE j # s.identity
      BY <3>1, <3>3, WrittenPointers, WrittenIdentities
    <3>4. QED
      BY <3>2, <3>3
  <2>2. QED
    BY <2>1 DEF PointersAreSound
<1>3. KeysAreClaimed'
  <2>1. ASSUME NEW q \in 1..Len(programs'), NEW j \in programs'[q].key.isolated
        PROVE  OwnVersions(j)' # {}
    <3>0. /\ Len(programs') \in Nat /\ Len(programs) \in Nat
          /\ programs \in Seq(ProgramRow)
      BY WrittenPrograms DEF IngestInv, TypeOK
    <3>1. CASE q <= Len(programs)
      <4>1. j \in programs[q].key.isolated /\ q \in 1..Len(programs)
        BY <3>0, <3>1, WrittenPrograms
      <4>2. OwnVersions(j) # {}
        BY <4>1 DEF IngestInv, KeysAreClaimed
      <4>3. programs[q] \in ProgramRow
        BY <3>0, <4>1
      <4>4. j \in Identities
        BY <4>1, <4>3 DEF ProgramRow
      <4>5. QED
        BY <4>2, <4>4, WrittenIdentities
    <3>2. CASE q > Len(programs)
      <4>1. j = s.identity
        BY <3>2, WrittenPrograms
      <4>2. QED
        BY <4>1, WrittenIdentities
    <3>3. QED
      BY <3>0, <3>1, <3>2
  <2>2. QED
    BY <2>1 DEF KeysAreClaimed
<1>4. QED
  BY <1>2, <1>3

(* A commit loses nothing another session has read, and is one more win.   *)
LEMMA WriteSessions ==
  ASSUME IngestInv, NEW r \in Ingestors, Write(r),
         NEW s, NEW p, NEW v, Writes(r, s, p, v), NEW q \in Ingestors
  PROVE  (ReadsAreRows(session[q]) /\ RacesAreWon(session[q]) /\ ReadsThePointer(q))'
<1>1. /\ session \in [Ingestors -> Session] /\ commits \in Nat
      /\ MaxAttempts \in Nat \ {0}
  BY SessionFacts
<1>2. /\ session' = [session EXCEPT ![r] = NoSession]
      /\ commits' = commits + 1 /\ overlapped' = overlapped
  BY DEF Write, Finish
<1>3. /\ Len(programs) \in Nat /\ Len(programs') \in Nat
      /\ Len(programs) <= Len(programs')
  BY WrittenPrograms, WrittenVersions DEF IngestInv, TypeOK
<1>4. s.pc = "write" /\ s.identity \in Identities /\ s = session[r]
  BY WrittenVersions DEF Writes
<1>5. CASE q = r
  <2>1. session'[q] = NoSession
    BY <1>1, <1>2, <1>5
  <2>2. ReadsAreRows(session[q])'
    BY <1>1, <1>2, <1>3, <2>1, NoSessionType DEF ReadsAreRows
  <2>3. RacesAreWon(session[q])' /\ ReadsThePointer(q)'
    BY <2>1, NoSessionType DEF RacesAreWon, ReadsThePointer
  <2>4. QED
    BY <2>2, <2>3
<1>6. CASE q # r
  <2>1. PICK t \in Session : t = session[q]
    BY <1>1
  <2>2. t = session'[q]
    BY <1>1, <1>2, <1>6, <2>1
  <2>3. ReadsAreRows(t) /\ RacesAreWon(t) /\ ReadsThePointer(q)
    BY <2>1 DEF IngestInv
  <2>4. t.identity \in Identities /\ t.began \in Nat /\ t.attempts \in Nat
    BY <2>1 DEF Session
  <2>5. ReadsAreRows(session[q])'
    <3>1. /\ OwnVersions(t.identity) \subseteq OwnVersions(t.identity)'
          /\ ProgramsOf(t.identity) \subseteq ProgramsOf(t.identity)'
      BY <2>4, WrittenIdentities
    <3>2. VersionsOf(t.identity, t.content) \subseteq VersionsOf(t.identity, t.content)'
      <4>1. /\ Len(versions) \in Nat /\ Len(versions') \in Nat
            /\ Len(versions) <= Len(versions')
            /\ \A w \in 1..Len(versions) : versions'[w] = versions[w]
        BY WrittenVersions DEF IngestInv, TypeOK
      <4>2. QED
        BY <4>1 DEF VersionsOf
    <3>3. PICK own, ps, vs : /\ own = OwnVersions(t.identity)'
                             /\ ps = ProgramsOf(t.identity)'
                             /\ vs = VersionsOf(t.identity, t.content)'
      OBVIOUS
    <3>4. /\ t.existing # 0 => t.existing \in vs
          /\ t.current # 0 => t.current \in own
          /\ t.program \in 0..Len(programs')
          /\ t.began <= commits'
          /\ t.pc \in {"pointer", "write"} /\ (t.existing # 0 \/ t.current # 0) =>
               t.program \in ps
      BY <1>1, <1>2, <1>3, <2>3, <2>4, <3>1, <3>2, <3>3 DEF ReadsAreRows
    <3>5. /\ t.pc \in {"start", "hash", "resolve"} => t.current = 0 /\ t.program = 0
          /\ t.pc = "resolve" => t.existing = 0
          /\ t.pc = "pointer" => t.existing # 0
      BY <2>3 DEF ReadsAreRows
    <3>6. /\ own = {w \in 1..Len(versions') : versions'[w].identity = t.identity}
          /\ ps = {versions'[w].program : w \in own}
          /\ vs = {w \in 1..Len(versions') :
                     versions'[w].identity = t.identity /\ versions'[w].content = t.content}
      BY <3>3 DEF OwnVersions, ProgramsOf, VersionsOf
    <3>7. QED
      BY <2>2, <3>4, <3>5, <3>6
         DEF ReadsAreRows, OwnVersions, ProgramsOf, VersionsOf
  <2>6. RacesAreWon(session[q])'
    <3>1. t.pc # "idle" => commits' - t.began > Lost(t)
      BY <1>1, <1>2, <2>3, <2>4 DEF RacesAreWon, Lost
    <3>2. commits' - t.began >= Lost(t) \/ t.pc = "idle"
      BY <1>1, <1>2, <2>4, <3>1 DEF Lost
    <3>3. QED
      BY <2>2, <3>1, <3>2 DEF RacesAreWon, Lost
  <2>7. ReadsThePointer(q)'
    <3>1. ASSUME t.pc # "idle", t.identity \notin overlapped
          PROVE  /\ \A o \in Ingestors :
                       session'[o].pc # "idle" /\ session'[o].identity = t.identity => o = q
                 /\ FreshReads(t) /\ current'[t.identity] = current[t.identity]
      <4>1. /\ \A o \in Ingestors : Busy(o, t.identity) => o = q
            /\ FreshReads(t)
        BY <2>1, <2>3, <3>1 DEF ReadsThePointer
      <4>2. t.identity # s.identity
        BY <1>4, <1>6, <4>1 DEF Busy
      <4>3. current'[t.identity] = current[t.identity]
        BY <2>4, <4>2, WrittenPointers
      <4>4. QED
        BY <1>1, <1>2, <4>1, <4>3, NoSessionType DEF Busy
    <3>2. QED
      BY <1>2, <2>2, <3>1 DEF ReadsThePointer, FreshReads, Busy
  <2>8. QED
    BY <2>5, <2>6, <2>7
<1>7. QED
  BY <1>5, <1>6

(* The rows of programs the writer's identity has no version of stay; the  *)
(* others share it with the program it wrote.                              *)
LEMMA WriteDerived ==
  ASSUME IngestInv, NEW r \in Ingestors, Write(r),
         NEW s, NEW p, NEW v, Writes(r, s, p, v)
  PROVE  DerivedStateIsCurrent'
<1>1. conflicts' = {x \in conflicts : x.program # p}
                     \cup ConflictsOf(p, versions', current')
  BY DEF Write, Writes, SyncedConflicts
<1>2. \A q : \A x \in ConflictsOf(q, versions', current') : x.program = q
  BY DEF ConflictsOf
<1>3. s.identity \in Identities
  BY WrittenVersions
<1>4. ASSUME NEW q \in 1..Len(programs'),
             \A j \in Identities : q \in ProgramsOf(j)' => ~Split(j)'
      PROVE  /\ {x \in conflicts' : x.program = q}
                   = ConflictsOf(q, versions', current')
             /\ \A f \in {"title", "end"} :
                  Consensus(Values(f, Snapshots(q, versions', current'), versions'),
                            programs'[q][f]) = programs'[q][f]
  <2>1. CASE q = p
    BY <1>1, <1>2, <2>1, WrittenPrograms
  <2>2. CASE q # p
    <3>1. q \notin ProgramsOf(s.identity)'
      <4>1. SUFFICES ASSUME q \in ProgramsOf(s.identity)' PROVE FALSE
        OBVIOUS
      <4>2. p \in ProgramsOf(s.identity)'
        BY WrittenIdentities
      <4>3. Split(s.identity)'
        BY <2>2, <4>1, <4>2 DEF Split
      <4>4. QED
        BY <1>3, <1>4, <4>1, <4>3
    <3>2. \A j \in Identities \ {s.identity} :
            ProgramsOf(j)' = ProgramsOf(j) /\ current'[j] = current[j]
      BY WrittenIdentities, WrittenPointers
    <3>3. q \notin ProgramsOf(s.identity)
      BY <1>3, <3>1, WrittenIdentities
    <3>4. \A j \in Identities : q \in ProgramsOf(j) => ~Split(j)
      <4>1. ASSUME NEW j \in Identities, q \in ProgramsOf(j) PROVE ~Split(j)
        <5>1. j # s.identity
          BY <3>3, <4>1
        <5>2. q \in ProgramsOf(j)' /\ ProgramsOf(j)' = ProgramsOf(j)
          BY <3>2, <4>1, <5>1
        <5>3. ~Split(j)'
          BY <1>4, <5>2
        <5>4. QED
          BY <5>2, <5>3 DEF Split
      <4>2. QED
        BY <4>1
    <3>5. q \in 1..Len(programs) /\ programs'[q] = programs[q]
      <4>1. q <= Len(programs)
        BY <2>2, WrittenPrograms, WrittenVersions
      <4>2. Len(programs) \in Nat
        BY DEF IngestInv, TypeOK
      <4>3. q \in 1..Len(programs)
        BY <4>1, <4>2
      <4>4. QED
        BY <2>2, <4>3, WrittenPrograms
    <3>6. CurrentVersions(q, versions', current') = CurrentVersions(q, versions, current)
      <4>1. /\ Len(versions) \in Nat /\ Len(versions') \in Nat
            /\ Len(versions) <= Len(versions')
            /\ \A w \in 1..Len(versions) :
                 versions'[w] = versions[w] /\ versions[w].identity \in Identities
            /\ \A w \in 1..Len(versions') : w = v \/ w <= Len(versions)
            /\ versions'[v].identity = s.identity
        <5>1. versions \in Seq(VersionRow(Len(programs)))
          BY DEF IngestInv, TypeOK, VersionRow
        <5>2. \A w \in 1..Len(versions) :
                versions[w] \in VersionRow(Len(programs))
          BY <5>1
        <5>3. \A w \in 1..Len(versions) : versions[w].identity \in Identities
          BY <5>2 DEF VersionRow
        <5>4. Len(versions) \in Nat
          BY <5>1
        <5>5. QED
          BY <5>3, <5>4, WrittenVersions
      <4>2. \A w \in 1..Len(versions') :
              versions'[w].program = q => versions'[w].identity # s.identity
        BY <3>1 DEF ProgramsOf, OwnVersions
      <4>3. \A w \in 1..Len(versions) : versions[w].program = q =>
              current'[versions[w].identity] = current[versions[w].identity]
        BY <3>2, <4>1, <4>2
      <4>4. QED
        BY <4>1, <4>2, <4>3 DEF CurrentVersions
    <3>7. PICK rows : rows = CurrentVersions(q, versions, current)
      OBVIOUS
    <3>8. \A w \in rows : versions'[w] = versions[w]
      <4>1. \A w \in rows : w \in 1..Len(versions)
        BY <3>7 DEF CurrentVersions
      <4>2. QED
        BY <4>1, WrittenVersions
    <3>9. Snapshots(q, versions', current') = Snapshots(q, versions, current)
      BY <3>6, <3>7, <3>8 DEF Snapshots
    <3>10. PICK snaps : snaps = Snapshots(q, versions, current)
      OBVIOUS
    <3>11. snaps \subseteq rows
      BY <3>7, <3>10 DEF Snapshots
    <3>12. \A f : Values(f, snaps, versions') = Values(f, snaps, versions)
      BY <3>8, <3>11 DEF Values
    <3>13. ConflictsOf(q, versions', current') = ConflictsOf(q, versions, current)
      <4>1. \A f : {<<SourceOf[versions'[w].identity], versions'[w].content[f]>> : w \in snaps}
                   = {<<SourceOf[versions[w].identity], versions[w].content[f]>> : w \in snaps}
        BY <3>8, <3>11
      <4> DEFINE Row(f, vs) ==
            [program |-> q, field |-> f,
             values |-> {<<SourceOf[vs[w].identity], vs[w].content[f]>> : w \in snaps}]
          Fields(vs) ==
            {g \in {"title", "end"} : Cardinality(Values(g, snaps, vs)) > 1}
      <4>2. \A f : Row(f, versions') = Row(f, versions)
        BY <4>1
      <4>3. Fields(versions') = Fields(versions)
        BY <3>12
      <4>4. /\ ConflictsOf(q, versions', current')
                  = {Row(f, versions') : f \in Fields(versions')}
            /\ ConflictsOf(q, versions, current)
                  = {Row(f, versions) : f \in Fields(versions)}
        BY <3>9, <3>10 DEF ConflictsOf
      <4> HIDE DEF Row, Fields
      <4>5. QED
        BY <4>2, <4>3, <4>4
    <3>14. {x \in conflicts' : x.program = q} = {x \in conflicts : x.program = q}
      BY <1>1, <1>2, <2>2
    <3>15. /\ {x \in conflicts : x.program = q} = ConflictsOf(q, versions, current)
           /\ \A f \in {"title", "end"} :
                Consensus(Values(f, Snapshots(q, versions, current), versions),
                          programs[q][f]) = programs[q][f]
      BY <3>4, <3>5 DEF IngestInv, DerivedStateIsCurrent
    <3>16. QED
      BY <3>5, <3>9, <3>10, <3>12, <3>13, <3>14, <3>15
  <2>3. QED
    BY <2>1, <2>2
<1>5. QED
  BY <1>4 DEF DerivedStateIsCurrent

(* The change sets of another identity are not touched.                    *)
LEMMA WriteOtherChain ==
  ASSUME IngestInv, NEW r \in Ingestors, Write(r),
         NEW s, NEW p, NEW v, Writes(r, s, p, v),
         NEW j \in Identities \ {s.identity}, OneChain(j)
  PROVE  OneChain(j)'
<1>1. /\ OwnVersions(j)' = OwnVersions(j) /\ ProgramsOf(j)' = ProgramsOf(j)
      /\ current'[j] = current[j] /\ ChangesOf(j)' = ChangesOf(j)
  BY WrittenIdentities, WrittenPointers, WrittenChanges
<1>2. \A k \in ChangesOf(j) : changes'[k] = changes[k]
  BY WrittenChanges DEF ChangesOf
<1>3. PICK steps, own : steps = ChangesOf(j) /\ own = OwnVersions(j)
  OBVIOUS
<1>4. ~Split(j)'
  BY <1>1 DEF OneChain, Split
<1>5. \A k, l : Consecutive(k, l, j)' <=> Consecutive(k, l, j)
  BY <1>1 DEF Consecutive
<1>6. QED
  BY <1>1, <1>2, <1>3, <1>4, <1>5 DEF OneChain

(* One more change set of the identity goes on from the one before.        *)
LEMMA WriteOwnChain ==
  ASSUME IngestInv, NEW r \in Ingestors, Write(r),
         NEW s, NEW p, NEW v, Writes(r, s, p, v),
         s.identity \notin overlapped
  PROVE  OneChain(s.identity)'
<1> DEFINE i == s.identity
           n == Len(changes) + 1
<1>1. /\ s.pc = "write" /\ ReadsAreRows(s) /\ i \in Identities
      /\ v \in 1..Len(versions')
      /\ s.existing = 0 => v = Len(versions) + 1
      /\ s.existing # 0 => v = s.existing
  BY WrittenVersions DEF Writes, TargetVersion
<1>2. FreshReads(s)
  BY <1>1, SessionFacts DEF Writes
<1>3. /\ s.current = current[i] /\ current'[i] = v
      /\ s.existing # 0 => s.existing # s.current
  BY <1>1, <1>2, WrittenPointers DEF FreshReads
<1>4. /\ OneChain(i)
      /\ current[i] = 0 => OwnVersions(i) = {}
      /\ current[i] # 0 => current[i] \in OwnVersions(i)
  BY <1>1 DEF IngestInv, SoleIngestsChain, PointersAreSound
<1>5. /\ OwnVersions(i)' = OwnVersions(i) \cup {v}
      /\ ProgramsOf(i)' = ProgramsOf(i) \cup {p}
  BY WrittenIdentities
<1>6. s.existing # 0 => v \in OwnVersions(i)
  BY <1>1 DEF ReadsAreRows, VersionsOf, OwnVersions
<1>7. /\ Len(changes) \in Nat /\ Len(versions) \in Nat
      /\ OwnVersions(i) \subseteq 1..Len(versions)
      /\ \A k \in 1..Len(changes) : changes[k].previous \in 1..Len(versions)
  <2> DEFINE Row == [identity: Identities, previous: 1..Len(versions),
                     now: 1..Len(versions)]
  <2>1. changes \in Seq(Row)
    BY DEF IngestInv, TypeOK
  <2>2. Len(changes) \in Nat /\ \A k \in 1..Len(changes) : changes[k] \in Row
    <3> HIDE DEF Row
    <3>1. QED
      BY <2>1
  <2>3. \A k \in 1..Len(changes) : changes[k].previous \in 1..Len(versions)
    BY <2>2
  <2>4. Len(versions) \in Nat
    <3> DEFINE V == [identity: Identities, content: Contents,
                     program: 1..Len(programs)]
    <3>1. versions \in Seq(V)
      BY DEF IngestInv, TypeOK
    <3> HIDE DEF V
    <3>2. QED
      BY <3>1
  <2>5. OwnVersions(i) \subseteq 1..Len(versions)
    BY DEF OwnVersions
  <2> HIDE DEF Row
  <2>6. QED
    BY <2>2, <2>3, <2>4, <2>5
<1>8. CASE s.current = 0
  <2>1. OwnVersions(i) = {} /\ ChangesOf(i) = {}
    BY <1>3, <1>4, <1>8 DEF OneChain
  <2>2. OwnVersions(i)' = {v} /\ ChangesOf(i)' = {}
    <3>1. ChangesOf(i)' = ChangesOf(i)
      BY <1>8, WrittenChanges DEF ChangesOf
    <3>2. QED
      BY <1>5, <2>1, <3>1
  <2>3. ~Split(i)'
    <3>1. ProgramsOf(i) = {}
      BY <2>1 DEF ProgramsOf
    <3>2. QED
      BY <1>5, <3>1 DEF Split
  <2>4. QED
    BY <1>3, <2>2, <2>3 DEF OneChain
<1>9. CASE s.current # 0
  <2>1. /\ Len(changes') = n
        /\ \A k \in 1..Len(changes) : changes'[k] = changes[k]
        /\ changes'[n].identity = i /\ changes'[n].now = v
        /\ changes'[n].previous = s.current
        /\ s.current \in OwnVersions(i)
    <3>1. PICK row : row = [identity |-> i, now |-> v, previous |-> s.current]
      OBVIOUS
    <3>2. row.identity = i /\ row.now = v /\ row.previous = s.current
      BY <3>1
    <3>3. changes'[n] = row
      BY <1>9, <3>1, WrittenChanges
    <3>4. QED
      BY <1>9, <3>2, <3>3, WrittenChanges
  <2>2. /\ ChangesOf(i)' = ChangesOf(i) \cup {n}
        /\ ChangesOf(i) \subseteq 1..Len(changes)
    BY <1>7, <2>1 DEF ChangesOf
  <2>3. ~Split(i)'
    <3>1. s.program \in ProgramsOf(i)
      BY <1>1, <1>9 DEF ReadsAreRows
    <3>2. s.program # 0
      <4>1. PICK w \in OwnVersions(i) : s.program = versions[w].program
        BY <3>1 DEF ProgramsOf
      <4>2. versions \in Seq(VersionRow(Len(programs))) /\ w \in 1..Len(versions)
        BY <4>1 DEF IngestInv, TypeOK, VersionRow, OwnVersions
      <4>3. versions[w] \in VersionRow(Len(programs))
        BY <4>2
      <4>4. QED
        BY <4>1, <4>3 DEF VersionRow
    <3>3. p = s.program
      BY <3>2 DEF Writes, TargetProgram
    <3>4. ProgramsOf(i)' = ProgramsOf(i)
      BY <1>5, <3>1, <3>3
    <3>5. QED
      BY <1>4, <3>4 DEF OneChain, Split
  <2>4. ASSUME NEW k \in ChangesOf(i)', \A j \in ChangesOf(i)' : k <= j,
               NEW w \in OwnVersions(i)'
        PROVE  changes'[k].previous <= w
    <3>1. CASE k = n
      <4>1. ChangesOf(i) = {}
        BY <1>7, <2>2, <2>4, <3>1
      <4>2. OwnVersions(i) = {s.current}
        BY <1>3, <1>4, <2>1, <4>1 DEF OneChain
      <4>3. s.existing = 0 /\ v = Len(versions) + 1
        BY <1>1, <1>3, <1>6, <4>2
      <4>4. QED
        BY <1>5, <1>7, <2>1, <3>1, <4>2, <4>3
    <3>2. CASE k # n
      <4>1. k \in ChangesOf(i) /\ changes'[k] = changes[k] /\ k \in 1..Len(changes)
        BY <2>1, <2>2, <3>2
      <4>2. \A x \in OwnVersions(i) : changes[k].previous <= x
        BY <1>4, <2>2, <2>4, <4>1 DEF OneChain
      <4>3. CASE w \in OwnVersions(i)
        BY <4>1, <4>2, <4>3
      <4>4. CASE w \notin OwnVersions(i)
        BY <1>1, <1>5, <1>6, <1>7, <4>1, <4>4
      <4>5. QED
        BY <4>3, <4>4
    <3>3. QED
      BY <3>1, <3>2
  <2>5. ASSUME NEW k \in ChangesOf(i)', \A j \in ChangesOf(i)' : j <= k
        PROVE  changes'[k].now = current'[i]
    <3>1. k = n
      BY <1>7, <2>2, <2>5
    <3>2. QED
      BY <1>3, <2>1, <3>1
  <2>6. ASSUME NEW j \in ChangesOf(i)', NEW k \in ChangesOf(i)',
               j < k, \A l \in ChangesOf(i)' : l <= j \/ k <= l
        PROVE  changes'[j].now = changes'[k].previous
    <3>1. j \in ChangesOf(i) /\ changes'[j] = changes[j] /\ j \in 1..Len(changes)
      BY <1>7, <2>1, <2>2, <2>6
    <3>2. CASE k = n
      <4>1. \A l \in ChangesOf(i) : l <= j
        BY <1>7, <2>2, <2>6, <3>2
      <4>2. changes[j].now = current[i]
        BY <1>4, <3>1, <4>1 DEF OneChain
      <4>3. QED
        BY <1>3, <2>1, <3>1, <3>2, <4>2
    <3>3. CASE k # n
      <4>1. k \in ChangesOf(i) /\ changes'[k] = changes[k]
        BY <2>1, <2>2, <3>3
      <4>2. Consecutive(j, k, i)
        BY <2>2, <2>6, <3>1, <4>1 DEF Consecutive
      <4>3. QED
        BY <1>4, <3>1, <4>1, <4>2 DEF OneChain
    <3>4. QED
      BY <3>2, <3>3
  <2>7. ChangesOf(i)' # {} /\ OwnVersions(i)' # {}
    BY <1>5, <2>2
  <2>8. QED
    BY <2>3, <2>4, <2>5, <2>6, <2>7 DEF OneChain, Consecutive
<1>10. QED
  BY <1>8, <1>9

LEMMA WriteInv ==
  ASSUME IngestInv, NEW r \in Ingestors, Write(r)
  PROVE  IngestInv'
<1>1. PICK s, p, v : Writes(r, s, p, v)
  BY DEF Writes
<1>2. SoleIngestsChain'
  <2>1. ASSUME NEW j \in Identities \ overlapped PROVE OneChain(j)'
    <3>1. CASE j = s.identity
      BY <1>1, <2>1, <3>1, WriteOwnChain
    <3>2. CASE j # s.identity
      BY <1>1, <2>1, <3>2, WriteOtherChain DEF IngestInv, SoleIngestsChain
    <3>3. QED
      BY <3>1, <3>2
  <2>2. overlapped' = overlapped
    BY DEF Write
  <2>3. QED
    BY <2>1, <2>2 DEF SoleIngestsChain
<1>3. \A q \in Ingestors :
        (ReadsAreRows(session[q]) /\ RacesAreWon(session[q]) /\ ReadsThePointer(q))'
  BY <1>1, WriteSessions
<1>4. TypeOK' /\ PointersAreSound' /\ KeysAreClaimed' /\ DerivedStateIsCurrent'
  BY <1>1, WriteTypes, WritePointers, WriteDerived
<1>5. QED
  BY <1>2, <1>3, <1>4 DEF IngestInv

-----------------------------------------------------------------------------
(* Theorems.                                                               *)

LEMMA StepInv == IngestInv /\ [Next]_vars => IngestInv'
<1> SUFFICES ASSUME IngestInv, [Next]_vars PROVE IngestInv'
  OBVIOUS
<1>1. ASSUME NEW r \in Ingestors, NEW i \in Identities, NEW c \in Contents,
             Receive(r, i, c)
      PROVE  IngestInv'
  BY <1>1, ReceiveInv
<1>2. ASSUME NEW r \in Ingestors, FindExisting(r) PROVE IngestInv'
  BY <1>2, FindExistingInv
<1>3. ASSUME NEW r \in Ingestors, FindCurrent(r) PROVE IngestInv'
  BY <1>3, FindCurrentInv
<1>4. ASSUME NEW r \in Ingestors, FindProgram(r) PROVE IngestInv'
  BY <1>4, FindProgramInv
<1>5. ASSUME NEW r \in Ingestors, ReadPointer(r) PROVE IngestInv'
  BY <1>5, ReadPointerInv
<1>6. ASSUME NEW r \in Ingestors, Write(r) PROVE IngestInv'
  BY <1>6, WriteInv
<1>7. ASSUME NEW r \in Ingestors, LoseRace(r) PROVE IngestInv'
  BY <1>7, LoseRaceInv
<1>8. ASSUME NEW r \in Ingestors, AbortIngest(r) PROVE IngestInv'
  BY <1>8, FinishInv DEF AbortIngest
<1>9. CASE UNCHANGED vars
  <2>1. \A q \in Ingestors : ReadsThePointer(q)' <=> ReadsThePointer(q)
    BY <1>9 DEF vars, ReadsThePointer, FreshReads, Busy
  <2>2. \A q \in Ingestors :
          (ReadsAreRows(session[q]) /\ RacesAreWon(session[q]))'
             <=> ReadsAreRows(session[q]) /\ RacesAreWon(session[q])
    BY <1>9 DEF vars, ReadsAreRows, RacesAreWon, Lost, Collides, VersionsOf,
                WithKey, OwnVersions, ProgramsOf
  <2>3. \A i : OneChain(i)' <=> OneChain(i)
    BY <1>9 DEF vars, OneChain, Consecutive, ChangesOf, Split, ProgramsOf, OwnVersions
  <2>4. DerivedStateIsCurrent' <=> DerivedStateIsCurrent
    BY <1>9 DEF vars, DerivedStateIsCurrent, Split, ProgramsOf, OwnVersions
  <2>5. TypeOK' /\ PointersAreSound' /\ KeysAreClaimed' /\ SoleIngestsChain'
    BY <1>9, <2>3 DEF IngestInv, vars, TypeOK, PointersAreSound, KeysAreClaimed,
                      SoleIngestsChain, OwnVersions
  <2>6. QED
    BY <2>1, <2>2, <2>4, <2>5 DEF IngestInv
<1>10. QED
  BY <1>1, <1>2, <1>3, <1>4, <1>5, <1>6, <1>7, <1>8, <1>9 DEF Next, IngestStep

(***************************************************************************)
(* The inductive invariant of ingestion: rows, pointers and keys fit, what *)
(* every ingest has read is there, and each attempt that is bound to fail  *)
(* has lost to a commit of its own.                                        *)
(***************************************************************************)
THEOREM IngestInvariant == Spec => []IngestInv
  BY InitInv, StepInv, PTL DEF Spec

(* The rows keep their shape, and each id names a row, whoever interleaves.*)
THEOREM TypeCorrect == Spec => []TypeOK
<1>1. IngestInv => TypeOK
  BY DEF IngestInv
<1>2. QED
  BY <1>1, IngestInvariant, PTL

(***************************************************************************)
(* Conflicts and consensus columns always follow from the current versions *)
(* of a program, unless an identity was split in a raced first ingest.     *)
(***************************************************************************)
THEOREM ConflictsAreDerived == Spec => []DerivedStateIsCurrent
<1>1. IngestInv => DerivedStateIsCurrent
  BY DEF IngestInv
<1>2. QED
  BY <1>1, IngestInvariant, PTL

(***************************************************************************)
(* The change sets of an identity that is ingested by one at a time walk   *)
(* from its first version to its current one without a gap.                *)
(***************************************************************************)
THEOREM ChangesChain == Spec => []SoleIngestsChain
<1>1. IngestInv => SoleIngestsChain
  BY DEF IngestInv
<1>2. QED
  BY <1>1, IngestInvariant, PTL

(* IngestRaceExhausted takes as many competitors as there are attempts.    *)
THEOREM RacesHaveWinners == Spec => []LostRacesHaveWinners
<1>1. IngestInv => LostRacesHaveWinners
  BY DEF IngestInv, RacesAreWon, Lost, LostRacesHaveWinners
<1>2. QED
  BY <1>1, IngestInvariant, PTL
=============================================================================
