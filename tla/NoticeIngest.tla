---------------------------- MODULE NoticeIngest ----------------------------
(***************************************************************************)
(* Ingestion of collected notices into canonical programs:                 *)
(* ProgramRepository.upsert_notice with its bounded retry, NoticeIngestor, *)
(* and the merge, pointer, change and conflict analysis it runs in one     *)
(* transaction.                                                            *)
(*                                                                         *)
(* As in AssessmentReview, SELECTs before the first write each see their   *)
(* own instant and the rest is one atomic step.  The first write of an     *)
(* ingest is the INSERT of a program or of a version, or the flush of a    *)
(* moved pointer; so an attempt is FindExisting, FindCurrent, for a new    *)
(* identity FindProgram, for a known content ReadPointer, then Write.      *)
(*                                                                         *)
(* A content is what the content hash covers.  Its organization, summary,  *)
(* start and reference dates behave like title and end and are left out;   *)
(* contents that differ in title whitespace only are left out too.  The    *)
(* attachment rows of a version belong to the document model; impacts and  *)
(* reopening of a change set are AssessmentReview!RecordChange.            *)
(***************************************************************************)
EXTENDS Naturals, Sequences, FiniteSets

CONSTANTS
  Identities,   \* (source, source_notice_id) pairs
  SourceOf,     \* source of an identity
  NoticeId,     \* its source_notice_id, for the order of rows
  Contents,     \* published contents, records [title, end]
  NoDate,       \* absent application_end
  Folded,       \* NFKC, casefold and whitespace normalization of titles
  Similar,      \* pairs of folded titles at or above the 0.9 ratio
  Ingestors,    \* concurrent collectors and manual registrations
  MaxAttempts,  \* _MAX_INGEST_ATTEMPTS
  MaxCommits    \* bound: ingests that write

ASSUME IngestAssumption ==
  /\ Contents # {} /\ Identities # {}
  /\ \A c \in Contents : DOMAIN c = {"title", "end"}
  /\ NoticeId \in [Identities -> Nat]
  /\ DOMAIN SourceOf = Identities
  /\ \A c \in Contents : c.title \in DOMAIN Folded
  /\ MaxAttempts \in Nat \ {0} /\ MaxCommits \in Nat

VARIABLES
  programs,    \* programs rows: [key, title, end], the id is the position
  versions,    \* notice_versions rows: [identity, content, program]
  current,     \* current_notice_versions: version id of an identity, or 0
  changes,     \* change_sets rows: [identity, previous, now]
  conflicts,   \* field_conflicts rows: [program, field, values]
  candidates,  \* merge_candidates rows: pairs of program ids
  session,     \* state of each ingestor
  commits,     \* history: ingests that wrote
  overlapped   \* history: identities two ingests ever worked on at once

tables == <<programs, versions, current, changes, conflicts, candidates>>
vars == <<programs, versions, current, changes, conflicts, candidates,
          session, commits, overlapped>>

-----------------------------------------------------------------------------
(* Merge identity (domain/programs.py).                                    *)

Complete(end) == end # NoDate

CanonicalKey(title, end) ==
  [title |-> Folded[title], end |-> end, isolated |-> {}]

StorageKey(i, c) ==
  IF Complete(c.end) THEN CanonicalKey(c.title, c.end)
  ELSE [CanonicalKey(c.title, c.end) EXCEPT !.isolated = {i}]

-----------------------------------------------------------------------------
(* State derived from the current pointers: vs are versions, cur pointers. *)

CurrentVersions(p, vs, cur) ==
  {v \in 1..Len(vs) : vs[v].program = p /\ cur[vs[v].identity] = v}

(* load_current_snapshots fills a dict keyed by source in notice order.    *)
Snapshots(p, vs, cur) ==
  {v \in CurrentVersions(p, vs, cur) :
     \A w \in CurrentVersions(p, vs, cur) :
       SourceOf[vs[w].identity] = SourceOf[vs[v].identity] =>
         NoticeId[vs[w].identity] <= NoticeId[vs[v].identity]}

Values(field, rows, vs) == {vs[v].content[field] : v \in rows}

ConflictsOf(p, vs, cur) ==
  LET rows == Snapshots(p, vs, cur) IN
  {[program |-> p, field |-> f,
    values |-> {<<SourceOf[vs[v].identity], vs[v].content[f]>> : v \in rows}]
     : f \in {g \in {"title", "end"} : Cardinality(Values(g, rows, vs)) > 1}}

(* Seeded fault: the old conflicts of the program are not deleted.         *)
FaultKeepsConflicts(p, vs, cur) == conflicts \cup ConflictsOf(p, vs, cur)

(* sync_conflicts up to the refresh of the program row.                    *)
SyncedConflicts(p, vs, cur) ==
  {x \in conflicts : x.program # p} \cup ConflictsOf(p, vs, cur)

(* Consensus values replace a column; a disagreement leaves it alone.      *)
Consensus(values, old) ==
  IF Cardinality(values) = 1 THEN CHOOSE x \in values : TRUE ELSE old

(* refresh_legacy_program on row p of ps.                                  *)
Refreshed(ps, p, vs, cur) ==
  LET rows  == Snapshots(p, vs, cur)
      title == Consensus(Values("title", rows, vs), ps[p].title)
      end   == Consensus(Values("end", rows, vs), ps[p].end)
      key   == CanonicalKey(title, end)
      free  == \A q \in 1..Len(ps) : q # p => ps[q].key # key
  IN
  IF rows = {} THEN ps
  ELSE [ps EXCEPT ![p] =
          [key   |-> IF Complete(end) /\ free THEN key ELSE @.key,
           title |-> title, end |-> end]]

(* record_merge_candidate for the new program p of identity i.             *)
CandidatesOf(p, i, c, ps, vs) ==
  {{q, p} : q \in {q \in 1..Len(ps) :
      /\ q # p
      /\ \E v \in 1..Len(vs) :
           vs[v].program = q /\ SourceOf[vs[v].identity] # SourceOf[i]
      /\ <<Folded[c.title], Folded[ps[q].title]>> \in Similar}}

-----------------------------------------------------------------------------
Session == [pc: {"idle", "start", "hash", "resolve", "pointer", "write"},
            identity: Identities,
            content: Contents,
            attempts: 0..MaxAttempts,  \* attempts remaining
            existing: Nat,             \* version of this content, or 0
            current: Nat,              \* current version it read, or 0
            program: Nat,              \* program it resolved, or 0
            moves: BOOLEAN,            \* the pointer row is dirty
            began: Nat]                \* history: commits at the request

NoSession ==
  [pc |-> "idle", identity |-> CHOOSE i \in Identities : TRUE,
   content |-> CHOOSE c \in Contents : TRUE, attempts |-> 0, existing |-> 0,
   current |-> 0, program |-> 0, moves |-> FALSE, began |-> 0]

Init ==
  /\ programs = <<>>
  /\ versions = <<>>
  /\ current = [i \in Identities |-> 0]
  /\ changes = <<>>
  /\ conflicts = {}
  /\ candidates = {}
  /\ session = [r \in Ingestors |-> NoSession]
  /\ commits = 0
  /\ overlapped = {}

Busy(r, i) == session[r].pc # "idle" /\ session[r].identity = i

(* An attempt on content c of i, with n attempts left since commit b.       *)
StartedAt(i, c, b, n) ==
  [NoSession EXCEPT !.pc = "start", !.identity = i, !.content = c,
                    !.attempts = n, !.began = b]

(* A collected page or a manual form delivers content c of identity i.     *)
Receive(r, i, c) ==
  /\ session[r].pc = "idle"
  /\ session' = [session EXCEPT ![r] =
       StartedAt(i, c, commits, MaxAttempts)]
  /\ overlapped' = overlapped \cup
       (IF \E q \in Ingestors \ {r} : Busy(q, i) THEN {i} ELSE {})
  /\ UNCHANGED <<tables, commits>>

Finish(r) == session' = [session EXCEPT ![r] = NoSession]

VersionsOf(i, c) ==
  {v \in 1..Len(versions) :
     versions[v].identity = i /\ versions[v].content = c}

(* 0 when there is no row.                                                 *)
TheRow(ids) == IF ids = {} THEN 0 ELSE CHOOSE v \in ids : TRUE

FindExisting(r) ==
  LET s == session[r] IN
  /\ s.pc = "start"
  /\ session' = [session EXCEPT
       ![r].pc = "hash",
       ![r].existing = TheRow(VersionsOf(s.identity, s.content))]
  /\ UNCHANGED <<tables, commits, overlapped>>

(***************************************************************************)
(* read_current_version, then: nothing to do when the content is current;  *)
(* a known identity stays in the program of its current version.           *)
(***************************************************************************)
FindCurrent(r) ==
  LET s   == session[r]
      cur == current[s.identity]
      linked == IF cur # 0 THEN cur ELSE s.existing
  IN
  /\ s.pc = "hash"
  /\ \/ /\ s.existing # 0 /\ s.existing = cur
        /\ Finish(r)
     \/ /\ s.existing # cur
        /\ linked # 0
        /\ session' = [session EXCEPT
             ![r].pc = IF s.existing = 0 THEN "write" ELSE "pointer",
             ![r].current = cur,
             ![r].program = versions[linked].program]
     \/ /\ linked = 0
        /\ session' = [session EXCEPT
             ![r].pc = IF Complete(s.content.end) THEN "resolve" ELSE "write"]
  /\ UNCHANGED <<tables, commits, overlapped>>

(* Seeded fault: an existing program is never found.                       *)
FaultNeverMerges(key) == {}

WithKey(key) == {p \in 1..Len(programs) : programs[p].key = key}

FindExactProgram(key) == WithKey(key)

FindProgram(r) ==
  LET s == session[r] IN
  /\ s.pc = "resolve"
  /\ session' = [session EXCEPT
       ![r].pc = "write",
       ![r].program = TheRow(FindExactProgram(StorageKey(s.identity, s.content)))]
  /\ UNCHANGED <<tables, commits, overlapped>>

(* point_to_version reads the pointer row before anything is written; the  *)
(* ORM updates it only when the row it read holds another version.         *)
ReadPointer(r) ==
  LET s == session[r] IN
  /\ s.pc = "pointer"
  /\ session' = [session EXCEPT ![r].pc = "write",
                                ![r].moves = current[s.identity] # s.existing]
  /\ UNCHANGED <<tables, commits, overlapped>>

(* The uniqueness constraints on programs and notice_versions.             *)
Collides(s) ==
  \/ /\ s.existing = 0
     /\ VersionsOf(s.identity, s.content) # {}
  \/ /\ s.existing = 0 /\ s.program = 0
     /\ WithKey(StorageKey(s.identity, s.content)) # {}

(* Seeded faults: the known version of the content is used or preferred.   *)
FaultExistingOnly(s) == s.existing

FaultExistingFirst(s) == IF s.existing # 0 THEN s.existing ELSE s.current

PreviousVersion(s) == s.current

(* The row an ingest uses or inserts: the id of a new one is the next.     *)
TargetProgram(s) == IF s.program = 0 THEN Len(programs) + 1 ELSE s.program

TargetVersion(s) == IF s.existing = 0 THEN Len(versions) + 1 ELSE s.existing

InsertedPrograms(s) ==
  IF s.program = 0
  THEN Append(programs, [key   |-> StorageKey(s.identity, s.content),
                         title |-> s.content.title,
                         end   |-> s.content.end])
  ELSE programs

InsertedVersions(s) ==
  IF s.existing = 0
  THEN Append(versions, [identity |-> s.identity, content |-> s.content,
                         program  |-> TargetProgram(s)])
  ELSE versions

MovedPointers(s) ==
  IF s.existing = 0 \/ s.moves
  THEN [current EXCEPT ![s.identity] = TargetVersion(s)] ELSE current

Write(r) ==
  LET s   == session[r]
      p   == TargetProgram(s)
      ps  == InsertedPrograms(s)
      vs  == InsertedVersions(s)
      cur == MovedPointers(s)
  IN
  /\ s.pc = "write"
  /\ commits < MaxCommits
  /\ ~Collides(s)
  /\ versions' = vs
  /\ current' = cur
  /\ candidates' = candidates \cup
       (IF s.program = 0 THEN CandidatesOf(p, s.identity, s.content, ps, vs) ELSE {})
  /\ changes' = IF s.current = 0 THEN changes
                ELSE Append(changes, [identity |-> s.identity,
                                      now |-> TargetVersion(s),
                                      previous |-> PreviousVersion(s)])
  /\ conflicts' = SyncedConflicts(p, vs, cur)
  /\ programs' = Refreshed(ps, p, vs, cur)
  /\ commits' = commits + 1
  /\ Finish(r)
  /\ UNCHANGED overlapped

(***************************************************************************)
(* A lost race rolls back; the last attempt raises IngestRaceExhausted.    *)
(* The registration of a manual notice runs upsert_in_transaction without  *)
(* these attempts: its lost race leaves as AbortIngest does.               *)
(***************************************************************************)
LoseRace(r) ==
  LET s == session[r] IN
  /\ s.pc = "write"
  /\ Collides(s)
  /\ \/ /\ s.attempts > 1
        /\ session' = [session EXCEPT ![r] =
             StartedAt(s.identity, s.content, s.began, s.attempts - 1)]
     \/ /\ s.attempts = 1
        /\ Finish(r)
  /\ UNCHANGED <<tables, commits, overlapped>>

(* Any other failure before COMMIT rolls the attempt back and propagates.  *)
AbortIngest(r) ==
  /\ session[r].pc # "idle"
  /\ Finish(r)
  /\ UNCHANGED <<tables, commits, overlapped>>

IngestStep(r) ==
  \/ \E i \in Identities, c \in Contents : Receive(r, i, c)
  \/ FindExisting(r)
  \/ FindCurrent(r)
  \/ FindProgram(r)
  \/ ReadPointer(r)
  \/ Write(r)
  \/ LoseRace(r)
  \/ AbortIngest(r)

Next == \E r \in Ingestors : IngestStep(r)

Spec == Init /\ [][Next]_vars

-----------------------------------------------------------------------------
(* Properties.                                                             *)

ProgramRow == [key: [title: {Folded[c.title] : c \in Contents},
                     end: {c.end : c \in Contents},
                     isolated: SUBSET Identities],
               title: {c.title : c \in Contents},
               end: {c.end : c \in Contents}]

(* Every variable keeps the shape of its rows; each id names a row.        *)
TypeOK ==
  /\ programs \in Seq(ProgramRow)
  /\ versions \in Seq([identity: Identities, content: Contents,
                        program: 1..Len(programs)])
  /\ current \in [Identities -> 0..Len(versions)]
  /\ changes \in Seq([identity: Identities, previous: 1..Len(versions),
                       now: 1..Len(versions)])
  /\ \A x \in conflicts :
       x.program \in 1..Len(programs) /\ x.field \in {"title", "end"}
  /\ candidates \subseteq SUBSET (1..Len(programs))
  /\ session \in [Ingestors -> Session]
  /\ commits \in Nat
  /\ overlapped \subseteq Identities

(* The versions of i, their programs, and whether a race gave it several.  *)
OwnVersions(i) == {v \in 1..Len(versions) : versions[v].identity = i}

ProgramsOf(i) == {versions[v].program : v \in OwnVersions(i)}

Split(i) == \E p, q \in ProgramsOf(i) : p # q

(***************************************************************************)
(* However ingests of its identities interleave, the conflicts stored for  *)
(* a program are those of its current versions, and its consensus columns  *)
(* show what they agree on.  The exception is a program that shares an     *)
(* identity with another one after a raced first ingest: only the program  *)
(* written last is analysed then.                                          *)
(***************************************************************************)
DerivedStateIsCurrent ==
  \A p \in 1..Len(programs) :
    (\A i \in Identities : p \in ProgramsOf(i) => ~Split(i)) =>
      /\ {x \in conflicts : x.program = p} = ConflictsOf(p, versions, current)
      /\ LET rows == Snapshots(p, versions, current) IN
         \A f \in {"title", "end"} :
           Consensus(Values(f, rows, versions), programs[p][f])
             = programs[p][f]

(* The change sets of i, and those of them with no other one in between.   *)
ChangesOf(i) == {k \in 1..Len(changes) : changes[k].identity = i}

Consecutive(j, k, i) ==
  /\ j \in ChangesOf(i) /\ k \in ChangesOf(i) /\ j < k
  /\ \A l \in ChangesOf(i) : l <= j \/ k <= l

(* One program, and change sets from the first version to the current one. *)
OneChain(i) ==
  /\ ~Split(i)
  /\ OwnVersions(i) = {} => current[i] = 0 /\ ChangesOf(i) = {}
  /\ OwnVersions(i) # {} /\ ChangesOf(i) = {} => OwnVersions(i) = {current[i]}
  /\ \A k \in ChangesOf(i) :
       /\ (\A j \in ChangesOf(i) : k <= j) =>
            \A v \in OwnVersions(i) : changes[k].previous <= v
       /\ (\A j \in ChangesOf(i) : j <= k) => changes[k].now = current[i]
  /\ \A j, k \in ChangesOf(i) :
       Consecutive(j, k, i) => changes[j].now = changes[k].previous

(***************************************************************************)
(* An identity that never had two ingests at once has one program, and     *)
(* its change sets walk from its first version to its current one, each    *)
(* starting where the one before ended, across reuse of old versions and   *)
(* whatever happens to other identities of the program.                    *)
(***************************************************************************)
SoleIngestsChain == \A i \in Identities \ overlapped : OneChain(i)

(***************************************************************************)
(* Attempts are lost to competitors only: when an attempt is about to fail *)
(* on a uniqueness constraint, at least as many other ingests have         *)
(* committed since the request arrived as it has lost attempts, this one   *)
(* included; so IngestRaceExhausted takes MaxAttempts of them.             *)
(***************************************************************************)
LostRacesHaveWinners ==
  \A r \in Ingestors :
    LET s == session[r] IN
    s.pc = "write" /\ Collides(s) => commits - s.began > MaxAttempts - s.attempts

-----------------------------------------------------------------------------
(***************************************************************************)
(* The strengthening.  The pointer of an identity names one of its own     *)
(* versions as soon as it has one, and an isolated key was made with one.  *)
(***************************************************************************)
PointersAreSound ==
  \A i \in Identities :
    /\ current[i] = 0 => OwnVersions(i) = {}
    /\ current[i] # 0 => current[i] \in OwnVersions(i)

KeysAreClaimed ==
  \A q \in 1..Len(programs) :
    \A i \in programs[q].key.isolated : OwnVersions(i) # {}

(* What a session has read names rows that are there, and are its own.     *)
ReadsAreRows(s) ==
  /\ s.existing # 0 => s.existing \in VersionsOf(s.identity, s.content)
  /\ s.current # 0 => s.current \in OwnVersions(s.identity)
  /\ s.program \in 0..Len(programs)
  /\ s.began <= commits
  /\ s.pc \in {"start", "hash", "resolve"} => s.current = 0 /\ s.program = 0
  /\ s.pc = "resolve" => s.existing = 0
  /\ s.pc = "pointer" => s.existing # 0
  /\ s.pc \in {"pointer", "write"} /\ (s.existing # 0 \/ s.current # 0) =>
       s.program \in ProgramsOf(s.identity)

(* An attempt that is bound to fail has lost to one more than the others.  *)
Lost(s) == MaxAttempts - s.attempts

RacesAreWon(s) ==
  /\ s.pc # "idle" => commits - s.began >= Lost(s)
  /\ s.pc \in {"hash", "resolve"} /\ s.existing = 0
       /\ VersionsOf(s.identity, s.content) # {} => commits - s.began > Lost(s)
  /\ s.pc = "write" /\ Collides(s) => commits - s.began > Lost(s)

(* The only ingest of its identity has read the pointer as it still is.    *)
FreshReads(s) ==
  /\ s.pc \in {"resolve", "pointer", "write"} => s.current = current[s.identity]
  /\ s.pc \in {"pointer", "write"} /\ s.existing # 0 => s.existing # s.current
  /\ s.pc = "write" /\ s.existing # 0 => s.moves

ReadsThePointer(r) ==
  LET s == session[r] IN
  s.pc # "idle" /\ s.identity \notin overlapped =>
    /\ \A q \in Ingestors : Busy(q, s.identity) => q = r
    /\ FreshReads(s)

IngestInv ==
  /\ TypeOK /\ PointersAreSound /\ KeysAreClaimed
  /\ \A r \in Ingestors :
       ReadsAreRows(session[r]) /\ RacesAreWon(session[r]) /\ ReadsThePointer(r)
  /\ SoleIngestsChain
  /\ DerivedStateIsCurrent
=============================================================================
