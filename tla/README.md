# Verification of grantcompass

TLA+ models of the parts of grantcompass whose correctness depends on the order
in which things happen: reviews, case moves, notice ingestion, attachment
collection, downloads, page-wise collection and source synchronization on one
SQLite database, and matches, pages and reports that read it table by table;
and of the pure code whose results they pass around: the rules engine, the
ranking, and the extraction of blocks and rules from documents.  Paths in tables
are relative to `src/grantcompass/` of the repository.

## 1. Inventory

grantcompass collects Korean public support notices, merges them into canonical
programs, extracts eligibility rules from their attachments, assesses client
profiles against the rules, lets people review the assessments, and tracks the
support cases of clients.  Everything shares one SQLite database through
SQLAlchemy sessions; the command line and the FastAPI application are separate
processes or tasks that interact through its tables only.

| Component | State it keeps | Operations | What makes it correct |
|---|---|---|---|
| Assessment review (`storage/assessment_repository.py`, `review_*.py`, `audit_chain.py`) | `assessments.review_status`, `review_revision`, `audit_events` | append after a search or reverse match, review with overrides, reopening by a change | one line of reviews per assessment; no override of a foreign condition; a lost race is final; no reopening is overwritten |
| Support cases (`storage/case_repository.py`, `domain/cases.py`) | `cases.stage`, `updated_at`, `audit_events` | transition | the ledger replays to the row; only graph moves; only overtaken requests are refused for a conflict |
| Notice ingestion (`storage/repositories.py`, `notice_ingest.py`, `notice_analysis.py`, `notice_state.py`, `notice_queries.py`, `program_merge.py`) | `programs`, `notice_versions`, `current_notice_versions`, `change_sets`, `field_conflicts`, `merge_candidates` | upsert with bounded retry, manual registration | derived state follows the pointers; change sets form a chain; retries are spent on competitors |
| Attachments and documents (`documents/`, `repositories.process_notice_attachments`) | `attachments`, `documents`, generated `rules` and `evidence` | select pending, download, parse and ingest, mark failed | a document exists exactly for parsed attachments; failures stay retryable |
| Downloads (`documents/download.py`) | visited URLs, redirects, open response, buffer | check target, send, redirect, read, close, deadline | requests and bytes in budget; every response closed; every fetch ends |
| Document parsers (`documents/hwpx*.py`, `archive*.py`, `pdf*.py`, `ocr.py`, `rules/candidates.py`) | none | parse, validate, extract | nothing is left unread without a trace; a failure becomes a failed state; a refusal is no requirement |
| Source adapters (`sources/bizinfo*.py`, `kstartup*.py`) | none | fetch and parse a page | what was listed all the while is collected |
| Source runs (`sources/collector.py`, `cli/sync.py`, `cli/freshness.py`, `web/failures.py`) | `source_runs` | start, pages, complete, fail, freshness, failure inventory | every run ends; what is shown agrees with what happened |
| Rules and assessment (`rules/`) | none (reads `eligibility_rules`, `applicant_profiles`) | evaluate each rule, promote contradictions, aggregate | months counted in anniversaries; contradictions found in any order and decided by nobody; a missing fact qualifies nobody |
| Matching and roadmap (`matching/`, `cli/search.py`, `cli/program_queries.py`) | none (writes through assessments) | search, reverse match, ranking, roadmap, impacts | unflagged assessments fit what their sources still say; the ranking changes for a reason; the roadmap explains the final status |
| Web pages and reports (`web/`, `reports/`) | none | read programs, matches, reviews, cases | a form shows what a review overwrites; a report is explained by its own trail |
| Command line, profiles, benchmark, configuration | files, requests | dispatch | not modelled but for the parts above |

Hard behaviour: every handler reads in one or more SELECTs before its first
write.  With SQLAlchemy's legacy pysqlite transaction control no BEGIN is sent
before the first INSERT, UPDATE or DELETE, so **each SELECT sees the database of
its own instant**, and everything from the first write to the COMMIT is one
atomic step (the database lock).  A failure before COMMIT rolls back.  All
models are built on this rule: a handler is one action per SELECT that matters
and one for its write transaction.  Beside the database, downloads meet servers
that stall and redirect, and collections meet a listing that changes between two
pages.

## 2. Modules

Every module of a component keeps the rows of its tables as functions or
sequences, one record `session[x]` per concurrent request or process with a
program counter and what it has read, and a few history variables that
properties alone use (they are named as such in the modules).  "Seeded fault"
operators are plausible mistakes in the operator below them; no action uses
them.  They are substituted one at a time to see that a property notices.

| Module | Models | Code |
|---|---|---|
| `Eligibility` | condition and final statuses, the fold of statuses | `rules/aggregate.py`, `domain` enums |
| `AssessmentEngine` | one assessment: calendar, evaluators, contradictions, final status, roadmap | `rules/evaluators.py`, `evaluation_values.py`, `conflicts.py`, `deterministic.py`, `matching/roadmap.py` |
| `AssessmentReview` | review requests against reopening changes | `assessment_repository.py`, `audit_chain.py`, `review_validation.py`, `review_builders.py`, `notice_analysis.record_change` |
| `ReviewLedger` | abstract promise: an accepted review happens in one instant; `AssessmentReview!ReviewsAreAtomic` is it under the mapping audit events -> ledger | |
| `CaseStages` | the stage graph | `domain/cases.py` |
| `CaseLifecycle` | abstract promise: a case walks one path of the graph | |
| `CaseWorkflow` | transition requests; `FollowsLifecycle` is `CaseLifecycle` under the mapping ledger -> path | `case_repository.py` |
| `NoticeIngest` | concurrent ingestion with retry, merge, changes, conflicts | `notice_*.py`, `repositories.upsert_notice`, `domain/programs.py` |
| `Attachments` | collectors on the attachments of one notice version | `repositories.process_notice_attachments`, `documents/ingest.py` |
| `SourceSync` | overlapping synchronizations, `source_runs` and its readers | `cli/sync.py`, `sources/collector.py`, `cli/freshness.py`, `web/failures.py` |
| `SourceListing` | one collection, page by page, of a listing that changes | `sources/bizinfo*.py`, `kstartup*.py`, `collector.py` |
| `Download` | one fetch: targets, hops, body, close, deadline | `documents/download.py` |
| `HwpxBlocks`, `PdfBlocks`, `RuleCandidates` | the parsers and the five rule patterns, as operators | `documents/archive*.py`, `hwpx*.py`, `pdf*.py`, `ocr.py`, `rules/candidates.py` |
| `DocumentIngest` | an ingest with these parsers: which state and rows it leaves, against what is in a document | `documents/ingest.py`, `rules/candidate_evidence.py`, `web/failures.py` |
| `Matching` | the ranked list of a search, on top of `AssessmentEngine` | `matching/forward.py`, `cli/search.py` |
| `Workspace` | matches, program pages and reports reading table by table while collections, changes, reviews and case moves write | `cli/search.py`, `cli/program_queries.py`, `matching/reverse*.py`, `web/queries.py`, `web/match_queries.py`, `web/routes.py`, `reports/consultation_data.py` |
| `MC*` | finite instances, symmetry | |
| `*Proofs` | theorems and their lemmas | |

`NoticeIngest` ends with a change set; what `record_change` then does to
assessments (impact rows, reopening) is `AssessmentReview!RecordChange`.
`SourceSync` counts a notice where `NoticeIngest` says what storing it does,
and treats its attachments as one step where `Attachments` has the steps.
Each composition only passes "it happened" or "it raised", so the modules are
checked apart.  `AssessmentEngine` says what the statuses are that
`AssessmentReview!PersistAssessment` stores; both fold them with `Eligibility`.
`Workspace` is the composition of the read side: it has matching, pages and
reports together with the writers of the tables they read (documents as in
`Attachments`, a change as in `NoticeIngest`, reviews as in `AssessmentReview`,
moves as in `CaseWorkflow`), each of these reduced to its write transaction.
`SourceListing` is one `FetchPage` sequence of `SourceSync`, with what is on the
pages; `Download` is what `Attachments` does between two of its steps, and
`DocumentIngest` is `StoreParsed` and its failures with the bytes looked at.

### How state and actions correspond

**AssessmentReview.** `status`, `revision` are the columns `review_status` and
`review_revision`; `audit` the `audit_events` of an assessment as pairs of
snapshots; `impacts` the number of change impacts.  `OpenForm` is the page with
the hidden revision, `LoadAssessment` the refresh, the revision check and
`build_assessment_review` (which override tuple is refused, and how), `ReadAudit`
the SELECT of the last event and its comparison with the row, `CommitReview` the
UPDATE with its WHERE clause, the audit INSERT and the COMMIT.  `Forms` are what a
caller may hand to the repository; the web form is narrower, its route answering 422
unless each condition is in it once.  `PersistAssessment`
is a search or reverse match.  The order in which override errors are found is
kept: the first refused tuple decides.

`ReviewLedger` is what all this is for: a review takes the assessment as it
stands, adds one entry, and leaves it reviewed, in one step.  Under the mapping
that shows of every snapshot its status and its overrides, the four steps of a
request are three stutters and that one.  In particular a before-state, which is
put together from three reads at three instants, is the state of the assessment
at the instant of the commit.

**CaseWorkflow.** `row` holds stage and `updated_at`, `audit` the ledger.  The five
steps of `transition` are `get`, the check of the requested edge, the refresh,
the SELECT of the ledger, and the UPDATE guarded by stage and time stamp.  The
clock is any element of `Times`, in any order: nothing makes `updated_at` monotone.

**NoticeIngest.** An attempt is `FindExisting`, `FindCurrent`, for a new identity
`FindProgram`, for known content `ReadPointer`, then `Write`; a uniqueness
violation at `Write` is a failed attempt, and the bounded retry of
`upsert_notice` starts again.  A manual registration has no such attempts, and its
lost race ends as `AbortIngest`.  Derived rows (`conflicts`, the program row,
`candidates`) are computed by operators that follow `sync_conflicts`,
`load_current_snapshots`, `refresh_legacy_program` and `record_merge_candidate`.

**Attachments.** `row` is `parse_status` and `attempt_count`, `document[a]` the
generation of the stored document or 0.  `Select` is the ordered, limited
SELECT; `Bump` the increment of attempts and its COMMIT; `FailAttachment` and
`StoreParsed` are the outcomes, each ending in one transaction; `Flushed` is the
ORM rule that a column equal to its loaded value is not sent; `Deletable` is the
foreign key from rule assessments to generated rules; `AbortCollection` is a
crash or an exception that is no `DocumentIngestError`; `Assess` a search that
comes to reference generated rules.

**SourceSync.** `runs` are the rows of `source_runs`; one action per repository
call of `Collector.collect`, since each commits on its own: `StartRun`,
`FetchPage` (page limit, failure or page), `UpsertNotice`, `ProcessAttachments`,
`CompleteRun`, `FailRun`.  `RaiseUnexpected` is any exception the collector does
not know, with the record of it and its way through the loop over the sources
(nobody sees the moment in between); `Die` is the end of the process anywhere,
or the failure of that very record.  `SkipSource`
is a source without a service key.  `Freshness` and `FailureCandidates` are the
two queries.

**AssessmentEngine.** The engine is pure, so an assessment is an operator
(`Assessment`, `assess` of `deterministic.py`) and the variables are what it is
given: `rules` in the order of their ids, `profile`, and the `reference` date.
`LearnRule` is one more row that `_load_rule` accepts (a superset of the rules that
documents yield), `NextDay` a later reference date, by single days so that no
boundary between two dates is stepped over.  `CompletedMonths`,
`NumericComparison`, `CodeSetStatus` are the evaluators, `Promoted` is
`promote_conflicts` with its pairs `i < j`, `InputErrors` the input checks in their
order, `RoadmapActions` and `RoadmapQuestions` the two kinds of roadmap items.
`datetime.date` and `calendar.monthrange` are modelled as the proleptic Gregorian
calendar.

**Matching.** `Final` is the verdict `_assess_records` passes on for a program,
`DeadlineFor` its deadline of the day, and `RanksBefore` the comparison of two
ranking keys.  The catalogue is constant; `NextDay` of the engine moves the day
and the rules are those of each program.

**Workspace.** A session reads the tables of its kind one after the other
(`MatchReads`, `ProgramReads`, `ReportReads`; `Select` is one SELECT) and then ends:
`Persist` is `persist_assessments` with its foreign keys, `Review` the POST of a
form, `Leave` a page or report that is closed.  `StoreDocument`, `Publish`,
`MoveCase` and `Review` are the writers.  A notice of a source is the version row
it gets: `Publish` moves the pointer of its identity to it, perhaps back to an older
one, or joins a second source; `Refreshed` is the reference date of the program
then, and `IsChange` says when `record_change` finds something to flag assessments
for.  Ids of rules are rowids, so the highest is given out again after a deletion,
as SQLite does without AUTOINCREMENT. `disturbed` marks a match whose reads met a
change of what it reads.

**SourceListing.** `listing` is the source, which publishes at any place and
withdraws; `page`, `stored` and `result` are the locals of `collect`.  An answer
is the window of the listing at the moment of the request with totals, count
and page as the source states them, or with what makes it unacceptable;
`BizinfoPage` and `KStartupPage` are the two parsers with their error codes,
`HasNext` the adapters' `page * page_size < total_count`.

**Download.** `pc` says where `fetch` awaits: the check of a target (name
resolution), the answer to a request, a chunk of the body, the shielded close.
`Unwind` goes through the `finally` of a hop; `Deadline` is `fail_after` around
everything, which cannot interrupt the close.  "escaped" is an exception
`fetch` does not translate.

**DocumentIngest.** The state is the file, the attachment row, the stored document
and the exception that left `ingest`.  `ArchiveCode` is the sequence of checks of
`read_sections` in their order.  The XML of a section is the sequence of its
elements in document order, each with the places of those above it, so that the
walks of `hwpx_xml.py` become sets: `Paragraphs` and `Tables` are what `_visit`
and `_visit_nested_tables` emit, `Reached` is a walk that stops at certain
tags (`_table_cells`, `_element_text`, `_first_descendant`), and the counters of
`_MappingState` are how many elements of a kind come before
(`ParagraphNumber`, `TableNumber`).  A block is named by its place, the member and
the element it is made of.  `PdfCode` and `PageBlocks` are the loop over pages with
native text, tables and OCR, `Chosen` the overlap resolution of `_matches`: the
set that a greedy pass in the order of preference keeps, which is exactly one
(`ChoiceIsDetermined`).  Words are symbols; a pattern is a predicate on the words
behind and before.  What a text belongs to (`Home`) and what a cell calls itself
(`OwnAddress`) is defined from the tree alone, and the properties compare the two.

## 3. Runs

| Run | Result | Shows |
|---|---|---|
| `AssessmentReview_race` | holds | two reviewers, two assessments and a change in every order: linear ledger, own overrides, honest conflicts, no overwritten reopening, accepted reviews are atomic |
| `AssessmentReview_reopened` | violated | a reopened assessment is refused `malformed_audit` by every later review |
| `CaseWorkflow_race` | holds | two clerks, whole stage graph, clock that may go back: the ledger replays, only overtaken requests are refused, the lifecycle is implemented |
| `NoticeIngest_race` | holds | derived rows follow the pointers, identities ingested alone chain, attempts are spent on competitors |
| `Attachments_race` | holds | no document is retried, assessed rules stay, one collector is exact, the limit starves nobody |
| `Attachments_durable` | violated | a late failure leaves an attachment parsed without a document, never retried |
| `SourceSync_overlap` | holds | fresh means complete, runs end, the two queries agree, known failures are isolated |
| `AssessmentEngine_days` | holds | months are counted in anniversaries, time turns no verdict back, contradictions are found in any order and decided by nobody, a missing fact qualifies nobody, the roadmap explains the result, a search reorders its list for a verdict or a passed deadline only |
| `Download_hops` | holds | requests and bytes stay in budget, no response is left open, and every fetch ends although servers may stall |
| `DocumentIngest_files` | holds | an exception leaves an ingest from library code within the archive limits, or for a badly addressed table, only, no PDF page is unread without a trace, each text of an HWPX document is in the block of its paragraph or cell only, a refusal right behind its condition becomes a requirement in two known ways only |
| `SourceListing_pages` | holds | a fresh collection lacks at most one notice for each withdrawn while it ran |
| `Workspace_reads` | holds | assessments are of one state of the program and, unflagged, fit what their sources still say, accepted reviews come from a page that showed the last one, reports are explained by their trail |

The violated runs each check one sentence of the repository; PROJECT.json
("findings") quotes it and says what happens.

**Observations.**  The models show more behaviour that a reader of the code may
not expect, and that the passing properties are phrased around:

- A case move overtaken before its SELECT of the ledger is refused
  `malformed_audit`, not `concurrent_change` (`OnlyOvertakenIsRefused` counts both).
- Two ingests of one identity at once can link two change sets to one previous
  version (`SoleIngestsChain` is about identities ingested one at a time).
- Two notices of one source in one program disagree without a conflict row,
  because the snapshots are keyed by source.
- An exception the collector does not know ends the loop over the sources
  (`KnownFailuresAreIsolated` is about the others); `Download` has several that
  `fetch` does not translate.
- Several exceptions leave the attachment as it was although `ingest` is to flush
  "parsed or failed state": `zlib.error` of a broken deflate stream through
  `testzip`; `LookupError`, `ValueError` and `RecursionError` of section XML that
  declares an unknown encoding or nests too deep; what opening a PDF, a page, an OCR
  provider or table extraction raises beyond the classes translated; and
  `EvidenceIntegrityError` of two cells with one address.  `EscapesAreKnown` says
  that nothing else does, that an archive was held to its limits before, and when
  the last of them happens.
- A refusal behind a noun or clause of its own ("업력 3년 이내 기업 제외") is seen by no
  pattern, so the condition becomes a requirement; `MissedRefusalsAreKnown` is about
  refusals that follow at once (particle, punctuation, the word for support), of which
  the patterns miss two kinds.
- Assessments are not flagged when the current version changes without a changed
  field (white space of a title), when the previous version has no snapshot, or when
  a second source joins the program, though its rules and reference date may then be
  others.  `AssessmentsFitTheirNotices` says what an unflagged assessment fits all the
  same.
- An assessment that reads while a document is replaced can name a rule whose
  id has been given to another one (`disturbed` in `Workspace`).
- Text of a table outside its cells, a caption for one, and text of a table inside
  a table is in no block.

**Bounds and why they suffice.**

- Actors: two of each.  Every race here is between a session that has read and
  one that commits; a third session is again one that has read, or one that
  commits.  The proofs below remove the bound for every component.
- `AssessmentReview_race`: two reviews per assessment and one change.  The
  ledger check compares the last event only, so a second review already meets
  every relation of row and event; one change reopens both a first and a second
  review.  The forms are one accepted and one foreign tuple for each assessment,
  an unknown id and a duplicate.
- `CaseWorkflow_race`: two time stamps, equal or in either order.  The graph has no
  cycle, so the number of moves is bounded by the graph, not by a constant.
- `NoticeIngest_race`: three writes, two attempts, two identities of two
  sources, titles that fold together, a missing deadline.  Three writes are two
  competitors and a later ingest that meets what they left.  The real limit of
  attempts is three; two already separate "retried" from "exhausted".
- `Attachments_race`: three attachments, limit two, two attempts, two parses: one
  attachment must wait, each can fail and be retried, and one can be parsed
  twice.  The real limit is 20.  No deadlock check: with everything
  finished there is nothing left to collect.
- `SourceSync_overlap`: two pages at most, one notice per page, three runs, two
  sources, processes with both keys or one.  Three runs give two overlapping
  runs of one source and a later one; the real page limit is 100 and meets
  the same comparison.  No deadlock check: when the bound on runs is used up,
  nothing is left to start.

- `AssessmentEngine_days`: nine dates, in runs of three over the end of February
  of a common and of a leap year and over New Year; founding dates on the 28th
  to 31st, on a leap day and in the future; fourteen rules, with every operator
  and kind, of which a program gets up to three in the order of their ids.
  Three rules are a contradiction and a rule that could hide it, or one rule
  that contradicts two.  Applicants know everything, or lack or misstate a
  fact.  No deadlock check: at the last date with all rules nothing is left.

- `Download_hops`: three redirects, the real limit, and five targets, so
  that a chain meets the limit without coming back to a target, and one that
  comes back meets the loop check first; three units of bytes in chunks of up
  to two, so that the limit is met exactly and jumped over.
- `DocumentIngest_files`: tables of one and two cells with equal, different,
  negative and missing addresses, with a caption, with and without a table
  inside, text boxes, tables and cells at odd places, in sections in and out
  of order; archives of up to three members beside the marker with every
  defect; PDFs of up to two pages and one too many; sentences of up to three
  words between two conditions.  One file is one behaviour, so the bounds
  concern documents only.
- `SourceListing_pages`: five notices on pages of one or two, three pages, three
  edits: a page more than the limit, and edits before, between and after pages.
- `Workspace_reads`: two sessions, one attachment, two publications of four notices
  of two sources (other words, other white space and date, another source), a
  first version with and without snapshot, two documents and reviews, one match and
  one case move: a document can be replaced or stored for another version, a change
  can fall between any two SELECTs, and two publications are a change and a return.
  One managed company: a reverse match of several writes them in one transaction,
  so more add rows and no order; one match, since no property relates two
  assessments, and the page's choice of the newest one has no part in them.

**Fairness.**  Only `Download` assumes any.  A fetch's own first step, its close
(shielded and with a timeout of the transport) and the deadline's timer happen if
they stay possible (`FetchFairness`); servers and the name service are not fair and
may stall for ever in any phase.  `FetchEnds` needs the deadline to reach all
waiting. For the rest no liveness is claimed: nothing in the code obliges a person
to submit, a scheduler to synchronize or a process to survive, and no component
waits for another: a request runs to its answer or dies. `EveryRunEnds` is therefore
a safety statement (an open run has a live owner or was abandoned), not an
eventuality; the abandoned run, which nothing in the repository ever closes, is
visible in it.

## 4. Proofs

TLAPS proves the following for every value of the constants under the named
assumptions of the modules (types of the constants and non-empty sets).

| Module | Theorems | Argument |
|---|---|---|
| `AssessmentReviewProofs` | `TypeCorrect`, `ReviewInvariant`, `LinearHistory`, `RealConflicts`, `ReopeningsSurvive`, `OverridesAreOwn`, `BeforesInvariant`, `ImplementsLedger` | `ReviewInv`, `OverridesInv`, `BeforesAreRead` |
| `CaseWorkflowProofs` | `TypeCorrect`, `CaseInvariant`, `LedgerReplays`, `RefusalsAreHonest`, `ImplementsLifecycle` | `CaseInv` |
| `NoticeIngestProofs` | `TypeCorrect`, `IngestInvariant`, `ConflictsAreDerived`, `ChangesChain`, `RacesHaveWinners` | `IngestInv` |
| `AttachmentsProofs`, collectors | `TypeCorrect`, `AttachmentInvariant`, `NoDocumentIsRetried`, `AssessedRulesStay`, `OneCollectorIsExact`, `RetriesStayFair` | `AttachmentInv`, `FairInv` |
| `AttachmentsProofs`, downloads | `FetchTypeCorrect`, `DownloadInvariant`, `FetchStaysInBudget`, `NoResponseLeaks` | `DownloadInv` |
| `AttachmentsProofs`, documents | `ChoiceIsDetermined`, `RefusalsReachRules`, `IngestedRefusals`, `NoPageIsLost`, `OnlyKnownEscapes`, `NoWordIsLost` | least candidates, `StoredIsExtracted`, `ExceptionsAreReal` |
| `AssessmentEngineProofs` | `TypeCorrect`, `CompletedMonthsAreCounted`, `MonthsAreRight`, `TimeRunsOneWay`, `OrderIsIrrelevant`, `NoSideIsTaken`, `SilenceDoesNotQualify`, `RoadmapIsComplete`, `RankingMoves`, `RankingIsAnOrder` | types, lemmas on the operators |
| `SourceSyncProofs` | `TypeCorrect`, `SyncInvariant`, `FreshIsComplete`, `RunsEnd`, `InventoryAgrees`, `FailuresAreIsolated`, `ClosedRunsStay` | `SyncInv` |
| `SourceListingProofs` | `ListingInvariant`, `FreshMissesFew` | `ListingInv` |
| `WorkspaceProofs` | `TypeCorrect`, `WorkspaceInvariant`, `AssessmentsFit`, `ReportsExplained`, `ReviewsSawTheLedger` | `WorkspaceInv` |

- `ReviewInv`: linearity alone is not inductive, because a commit appends what a
  session read earlier.  The strengthening says of a session past its refresh
  that, *as long as the row's revision is the one it expects*, the ledger has
  not grown, its before-state is the last after-state, and only a reopening can
  have changed the status it read.  The WHERE clause of the UPDATE then does the
  rest; dropping either column breaks a lemma.
- `OverridesInv`: the form a session holds past its refresh was checked override by
  override against the conditions and their rules, which no action writes
  (`LoadedFormIsOwn`).  A form that is refused has a first override at fault,
  since the positions of a tuple are well-founded, so a form that is not
  refused has none.
- `BeforesAreRead`: what a session is about to write agrees with what it read: its
  before-state has the status it loaded, and no overrides if it loaded revision 0.
  With `ReviewInv`, the WHERE clause makes the ledger that was read the ledger of
  the commit, so the commit is one `Review` of `ReviewLedger` (`CommitIsReview`);
  what a change or a new assessment does to the status is a `Change` or `Persist`
  of it, and the rest stutters (`ImplementsLedger`).
- `CaseInv`: a session nobody overtook since it began has read the current row,
  and past the check of the stage it asks for a move of the graph from the stage
  it read (`ReadsTheRow`).  The WHERE clause compares stage and time stamp, all
  a move depends on, so a commit starts from the row whatever the clock repeats.
- `IngestInv`: a pointer names a version of its own identity (`PointersAreSound`), an
  isolated key was made together with a version of its identity (`KeysAreClaimed`),
  and what a session has read is still there, if no longer the newest
  (`ReadsAreRows`), since rows are only added.  The only ingest of an identity has
  read the pointer as it still is (`ReadsThePointer`), so the next change set
  starts where the last one ended.  An attempt that is bound to fail has lost to
  one commit more than the attempts before it (`RacesAreWon`); the commit that
  inserts the colliding row is that one.  A write derives one program anew, and
  changes the current versions of another one only if an identity is split, which
  `DerivedStateIsCurrent` excepts.
- `AttachmentInv`: what a collector holds was retryable when loaded
  (`HoldsRetryable`), so a finished status is always sent with the document; for
  attachments never held twice the holder is unique and up to date
  (`SoleHolder`, `HolderIsUpToDate`).
- `FairInv`: as long as collections run one at a time and to their end, the one at
  work holds the rows as they are (`HoldsTheRows`), what it selected precedes
  everything left behind (`SelectedComeFirst`), and a pending row was tried at most
  once, by the collection still working on it (`PendingIsUntried`).  A row that is
  tried again was therefore tried no more often than any that was not selected.
- `SyncInv`: a synchronization alone owns its runs (`SoleOwner`), the one at hand
  is the only open one, and its counter is the number of stored notices or one
  behind (`CountsItsRun`).  A closing step then writes a row no other
  synchronization will ever write, with a count that is right at that moment.

- `ListingInv`: the notices that are missed for good are those that stand where a
  page has been read and are not stored (`MovedBehind`).  A publication moves
  notices away from the pages read, a withdrawal moves at most one notice onto
  them, and a page that is stored takes in all that stands on it.  When the
  last page is read and its total was not too small, every notice that lasted
  stands on a page read.  Sequences with a member inserted or removed are
  handled by lemmas on positions.
- `DownloadInv`: the number of requests alone is not inductive; it is tied to the
  redirects followed, by the place the fetch is at (`HopsAreCounted`).
- Rules of a document: that a pass in the order of preference keeps exactly one
  set is shown from the candidates numbered by that order (`IsRanked`), by the
  least number at which there would be none, or two.  A refused requirement that
  is no known miss has a longer exclusion at its place (`RefusedHasRival`); if that
  one is kept it overlaps, and if not, what it overlaps begins no later and
  overlaps the requirement as well.  The theorem about the ingest adds that a rule
  names its own block, which rests on the check for duplicate addresses.
- Pages of a PDF file: a page without a block has no text of its own, so it is
  short of any limit of at least 1, and no usable answer of OCR, which is never
  empty (`UnreadPageWarns`).  Only the first warning of a file is stored, which may
  be another page's, but without a provider all warnings are the same one and
  with a provider none of them is that one; the row therefore says the right
  thing of every page.  The parser also takes a limit of 0, for which a blank page
  is no scan; nothing in the repository asks for it, and `PdfAssumption` excludes it.
- Texts of an HWPX file: what is above an element is a path, and every prefix of it
  is what is above an element of its own (`Paths`).  What a walk reaches without
  entering a table is therefore decided by the least candidate above a text
  (`HomeIsLeast`, `LeastIsHome`), a paragraph if the text is in no table and a cell
  if it is in one; a walk from a paragraph or cell finds exactly the texts at home
  there (`TextsOfParagraph`, `TextsOfCell`).  A paragraph without words gets no
  block, so that a text with words must be shown to leave some in the join of all
  (`WordsAreKept`).
- Exceptions of an ingest: the row does not change when one is raised, so
  `StoredIsExtracted` says nothing of that moment and `ExceptionsAreReal` is needed
  beside it.  None of the checks that are made in sequence lets an exception
  through, so the first failure is one only of a member or of section XML that
  raises, behind the checks of sizes (`HwpxCodes`); the blocks of a PDF page have
  distinct addresses (`PdfEscapes`).  Two blocks of an HWPX file with one address
  are of one section, since its number is an identity, and of one kind; paragraphs,
  and tables, that differ are preceded by different numbers of others
  (`ParagraphNumbersDiffer`, `TableNumbersDiffer`), so they are two cells of one
  table; and if no nested table comes before the addresses of its cells, the parser
  takes these for what they are (`AddressIsOwn`), so that two of them are equal
  (`DuplicatesNeedBadTables`).
- `WorkspaceInv`: none of the three properties mentions what a session has read so
  far, and all of them rest on it.  A session has in view exactly the tables
  before its place (`ReadsInOrder`).  What a match has read is still what is
  there, restricted to the documents stored by then, unless a change disturbed it
  (`MatchKnows`), and so are the date and the notices it read: a later document only
  adds rules with a later parse, and a document whose rules an item names cannot be
  replaced.  What a page or a report reads later is never behind what it read
  before (`ReaderKnows`), because revisions, reviews and moves only grow; that a
  review has then seen the last one is a squeeze between the revision shown and the
  revision of the row. Every write is shown to be one of two kinds, a growth of
  rules and ledger (`RulesGrow`, `LedgerGrows`) or a disturbance, and each keeps
  every session's knowledge (`SessionKeeps`, `DisturbedKnow`).  A source an
  unflagged assessment has read still says the same after a publication that is no
  change (`StaysSaid`).
- `AssessmentEngineProofs`: the invariant needed is only that the variables have
  their types; the work is in lemmas about the operators.  An anniversary falls
  into the month it is asked for whatever its day is cut to (`AnniversaryMonth`),
  so months are compared by year and month and only the anniversary of the
  current month by its day; on the last day of a month that one has come
  (`AgeOnTheNextDay`).  `Contradicts` is symmetric, so a rule is promoted exactly
  when it contradicts *some* other one (`PromotedItem`), which no longer
  mentions an order.  `Aggregation` turns the precedence of final statuses into
  four equivalences that the remaining theorems share.  For the ranking, a
  deadline's state moves from open to expired only and what is past stays past
  (`OrderOnTheNextDay`), so the comparison of two keys can only change by a verdict
  or a deadline that passed; and the keys are a strict total order
  (`RankingIsAnOrder`), whatever the catalogue.

**Only model-checked**: `FetchEnds`, liveness under fairness, which is out of the
prover's reach.  `ClosedRunsStay` and the types of `AssessmentReview`,
`AssessmentEngine`, `CaseWorkflow`, `Workspace` and `Download` are only proved: a
run per property that is proved for all values would add nothing.

## 5. Abstractions and omissions

- Times appear where they are compared (`updated_at` of cases); other time stamps,
  hashes, names, messages and JSON layout are left out.
- A case's assignee and note do not change in a transition and are left out.
- The content of a notice is title and end date; organization, summary, start and
  reference dates go through the same code as these two.
- In the engine, numbers are whole, codes and URLs already normalized, and
  explanations, error ids and evidence ids left out.  A metric of a rule is
  normalized by the code but the keys of a profile's metrics are not; the model's
  `performance` holds the keys that can be found.
- A change during the review of an assessment that nobody has reviewed yet
  leaves no trace on its row, and the review lands; only reviewed rows are
  protected (`NoReopeningIsOverwritten`).
- In a download, what the checks of address ranges, headers and magic bytes look
  at is left to their outcomes; any of them may refuse at its place.
- In documents, fonts, extents, coordinates, spacing and spelling are left out, and
  with them the order in which blocks are stored; a block of a PDF page has an
  address of its own, made of its page, kind and place.  A "t" of HWPX has inline
  content only, which is its text: no paragraph, table or cell is inside one
  (`IsTree`).  The content of cells that span is that of one cell.
- `Workspace` has one program and reads it as one row; the program page and the
  search read it with the same SELECTs in the code.  Companies and their
  profiles do not change.
- In `SourceListing` a page is stored in one step; `SourceSync` has the steps in
  between.  The pinned base URL and field names are left out.
- Not modelled: content identities and `validate_change_impacts` of a reverse match
  (comparisons of values already read), creation of profiles and companies,
  report files and rendering, form tokens, request limits and headers of the
  web application (one request each, no shared state), the document and audit
  event of a manual registration, command line parsing and output, the
  benchmark, and configuration.

## 6. Plan

What is left, in this order:

1. Manual registrations with their document and audit event, as one more
   ingestor of `NoticeIngest`.
2. `ProfilesAndReports`: the two check-then-act windows of the command line, once
   the repository says what is to hold of them.
