----------------------------- MODULE SourceSync -----------------------------
(***************************************************************************)
(* Synchronization of the official sources by concurrent processes (the    *)
(* README schedules one every six hours): synchronize_sources, Collector,  *)
(* the source_runs rows they leave, and the two readers of these rows, the *)
(* freshness query and the failure inventory.                              *)
(*                                                                         *)
(* Every repository call is a transaction of its own, so a collection is   *)
(* one step per call: StartRun, one FetchPage per page, UpsertNotice and   *)
(* ProcessAttachments per notice, CompleteRun or FailRun.  What the calls  *)
(* do to notices and attachments is NoticeIngest and Attachments; here a   *)
(* notice is counted.  Times and hashes are left out.                      *)
(***************************************************************************)
EXTENDS Naturals, Sequences

CONSTANTS
  Sources,     \* official sources
  Selections,  \* sequences of sources a synchronization may be asked for
  KeySets,     \* sets of sources a process may have service keys for
  Syncs,       \* concurrent synchronizations
  PageItems,   \* numbers of notices a page may have
  MaxPages,    \* _MAX_SOURCE_PAGES
  MaxRuns      \* bound: runs started

ASSUME SyncAssumption ==
  /\ Selections \subseteq Seq(Sources)
  /\ PageItems \subseteq Nat
  /\ MaxPages \in Nat \ {0} /\ MaxRuns \in Nat

VARIABLES
  runs,       \* source_runs rows: [source, status, items, code]
  tally,      \* history of each run: notices it stored, whether it saw the end
  session,    \* state of each synchronization
  abandoned   \* history: runs whose process died or could not record the end

vars == <<runs, tally, session, abandoned>>

(* Readers tell only http_503 apart; "known" stands for every other code   *)
(* of a transport or contract error, page_limit_exceeded included.         *)
Codes == {"none", "http_503", "known", "internal_collection_error"}

Run == [source: Sources, status: {"running", "succeeded", "failed"},
        items: Nat, code: Codes]

Tally == [stored: Nat, ended: BOOLEAN]

Session ==
  [pc: {"idle", "next", "fetch", "items", "attach", "complete", "fail"},
   keys: KeySets \cup {{}},  \* sources with a service key
   todo: Seq(Sources),    \* sources still to collect
   asked: Seq(Sources),   \* sources of the selection
   run: Nat,              \* run of the source being collected
   own: SUBSET Nat,       \* history: runs this synchronization started
   page: Nat,
   left: Nat,             \* notices of the page still to store
   more: BOOLEAN,         \* has_next
   count: Nat,            \* stored + unchanged
   code: Codes]

NoSession ==
  [pc |-> "idle", keys |-> {}, todo |-> <<>>, asked |-> <<>>, run |-> 0, own |-> {},
   page |-> 1, left |-> 0, more |-> FALSE, count |-> 0, code |-> "none"]

Init ==
  /\ runs = <<>> /\ tally = <<>>
  /\ session = [p \in Syncs |-> NoSession]
  /\ abandoned = {}

Collecting(s) ==
  s.pc \in {"fetch", "items", "attach", "complete", "fail"}

End(p) == session' = [session EXCEPT ![p] = NoSession]

-----------------------------------------------------------------------------
(* The loop over the sources.                                              *)

StartSync(p, selection, keys) ==
  /\ session[p].pc = "idle"
  /\ Len(runs) < MaxRuns
  /\ session' = [session EXCEPT ![p] =
       [NoSession EXCEPT !.pc = "next", !.keys = keys, !.todo = selection,
                         !.asked = selection]]
  /\ UNCHANGED <<runs, tally, abandoned>>

(* A source without a service key is answered missing_service_key.         *)
SkipSource(p) ==
  /\ session[p].pc = "next"
  /\ session[p].todo # <<>>
  /\ Head(session[p].todo) \notin session[p].keys
  /\ session' = [session EXCEPT ![p].todo = Tail(@)]
  /\ UNCHANGED <<runs, tally, abandoned>>

StartRun(p) ==
  LET s == session[p] IN
  /\ s.pc = "next"
  /\ s.todo # <<>>
  /\ Head(s.todo) \in s.keys
  /\ Len(runs) < MaxRuns
  /\ runs' = Append(runs, [source |-> Head(s.todo), status |-> "running",
                           items |-> 0, code |-> "none"])
  /\ tally' = Append(tally, [stored |-> 0, ended |-> FALSE])
  /\ session' = [session EXCEPT ![p] =
       [s EXCEPT !.pc = "fetch", !.todo = Tail(@), !.run = Len(runs) + 1,
                 !.own = @ \cup {Len(runs) + 1}]]
  /\ UNCHANGED abandoned

(* The output lists every selected source with its outcome and freshness.  *)
Report(p) ==
  /\ session[p].pc = "next"
  /\ session[p].todo = <<>>
  /\ End(p)
  /\ UNCHANGED <<runs, tally, abandoned>>

-----------------------------------------------------------------------------
(* Collector.collect.                                                      *)

(* The loop over the pages is left; its variables are dead.                *)
LeavePages(p, pc, code) ==
  session' = [session EXCEPT ![p].pc = pc, ![p].code = code,
                ![p].page = 1, ![p].left = 0, ![p].more = FALSE]

(* Seeded fault: the limit is an end like any other.                       *)
FaultLimitEnds(p) == LeavePages(p, "complete", "none")

PageLimit(p) == LeavePages(p, "fail", "known")

(***************************************************************************)
(* _validate_collection_request, adapter.fetch_page, _validate_page.  A    *)
(* transport error, or a page of another number or source, is a failure    *)
(* the collector knows.                                                    *)
(***************************************************************************)
FetchPage(p) ==
  /\ session[p].pc = "fetch"
  /\ \/ /\ session[p].page > MaxPages
        /\ PageLimit(p)
        /\ UNCHANGED tally
     \/ /\ session[p].page <= MaxPages
        /\ \E code \in {"http_503", "known"} :
             LeavePages(p, "fail", code)
        /\ UNCHANGED tally
     \/ /\ session[p].page <= MaxPages
        /\ \E n \in PageItems, more \in BOOLEAN :
             /\ session' = [session EXCEPT ![p].pc = "items",
                              ![p].left = n, ![p].more = more]
             /\ tally' = [tally EXCEPT ![session[p].run].ended = ~more]
  /\ UNCHANGED <<runs, abandoned>>

UpsertNotice(p) ==
  /\ session[p].pc = "items"
  /\ session[p].left > 0
  /\ session' = [session EXCEPT ![p].pc = "attach"]
  /\ tally' = [tally EXCEPT ![session[p].run].stored = @ + 1]
  /\ UNCHANGED <<runs, abandoned>>

(* The notice counts when its attachments have been gone through.          *)
ProcessAttachments(p) ==
  /\ session[p].pc = "attach"
  /\ session' = [session EXCEPT ![p].pc = "items", ![p].left = @ - 1,
                                ![p].count = @ + 1]
  /\ UNCHANGED <<runs, tally, abandoned>>

NextPage(p) ==
  /\ session[p].pc = "items"
  /\ session[p].left = 0
  /\ \/ /\ session[p].more
        /\ session' = [session EXCEPT ![p].pc = "fetch", ![p].page = @ + 1]
     \/ /\ ~session[p].more
        /\ LeavePages(p, "complete", "none")
  /\ UNCHANGED <<runs, tally, abandoned>>

(* complete_source_run and fail_source_run select the run by its id.       *)
RunToClose(p) == session[p].run

(* Seeded fault: the row gets the status freshness shows.                  *)
FaultFreshnessStatus(p, status, code) ==
  runs' = [runs EXCEPT ![RunToClose(p)] =
    [@ EXCEPT !.items = session[p].count, !.code = code,
              !.status = IF status = "failed" THEN "stale" ELSE "fresh"]]

Close(p, status, code) ==
  runs' = [runs EXCEPT ![RunToClose(p)] =
             [@ EXCEPT !.status = status, !.items = session[p].count,
                       !.code = code]]

(* Seeded fault: the loop ends with the failed source.                     *)
FaultStopsLoop(p) ==
  session' = [session EXCEPT ![p] =
    [NoSession EXCEPT !.pc = "next", !.keys = session[p].keys,
                      !.asked = session[p].asked, !.own = session[p].own]]

NextSource(p) ==
  session' = [session EXCEPT ![p] =
    [NoSession EXCEPT !.pc = "next", !.keys = session[p].keys,
                      !.todo = session[p].todo, !.asked = session[p].asked,
                      !.own = session[p].own]]

CompleteRun(p) ==
  /\ session[p].pc = "complete"
  /\ Close(p, "succeeded", "none")
  /\ NextSource(p)
  /\ UNCHANGED <<tally, abandoned>>

(* A failure the collector knows is returned as a stale result.            *)
FailRun(p) ==
  /\ session[p].pc = "fail"
  /\ Close(p, "failed", session[p].code)
  /\ NextSource(p)
  /\ UNCHANGED <<tally, abandoned>>

(* Seeded fault: an unexpected exception is not caught.                    *)
FaultNotCaught(p) == UNCHANGED runs

Caught(p) == Close(p, "failed", "internal_collection_error")

(***************************************************************************)
(* Any other exception of the body: an exhausted ingest race, a download   *)
(* that breaks off in its body, a foreign key, a locked database.  The run *)
(* is closed and the exception goes on, through the loop over the sources. *)
(***************************************************************************)
RaiseUnexpected(p) ==
  /\ session[p].pc \in {"fetch", "items", "attach", "complete"}
  /\ Caught(p)
  /\ End(p)
  /\ UNCHANGED <<tally, abandoned>>

(***************************************************************************)
(* The process dies at any point, or fail_source_run fails itself.  The    *)
(* run of the moment stays "running".                                      *)
(***************************************************************************)
Die(p) ==
  /\ session[p].pc # "idle"
  /\ abandoned' = IF Collecting(session[p])
                  THEN abandoned \cup {session[p].run} ELSE abandoned
  /\ End(p)
  /\ UNCHANGED <<runs, tally>>

SyncStep(p) ==
  \/ \E selection \in Selections, keys \in KeySets :
       StartSync(p, selection, keys)
  \/ SkipSource(p)
  \/ StartRun(p)
  \/ Report(p)
  \/ FetchPage(p)
  \/ UpsertNotice(p)
  \/ ProcessAttachments(p)
  \/ NextPage(p)
  \/ CompleteRun(p)
  \/ FailRun(p)
  \/ RaiseUnexpected(p)
  \/ Die(p)

Next == \E p \in Syncs : SyncStep(p)

Spec == Init /\ [][Next]_vars

-----------------------------------------------------------------------------
(* The readers of source_runs.                                             *)

RunsOf(s) == {r \in 1..Len(runs) : runs[r].source = s}

(* The run with the highest id, the only element if there is any.          *)
Newest(s) == {r \in RunsOf(s) : \A q \in RunsOf(s) : q <= r}

(* load_one_source_freshness.                                              *)
Freshness(s) ==
  IF \E r \in Newest(s) : runs[r].status = "succeeded" THEN "fresh" ELSE "stale"

(* _has_retained_stale_data, with the notices stored by runs.              *)
HasRetainedData(s, r) ==
  /\ \E q \in RunsOf(s) : q < r /\ runs[q].status = "succeeded"
  /\ \E q \in RunsOf(s) : tally[q].stored > 0

FailedNow(s) == {r \in Newest(s) : runs[r].status = "failed"}

Candidate(s, r) ==
  IF runs[r].code = "http_503" /\ HasRetainedData(s, r)
  THEN <<"source_503_stale">> ELSE <<"source_run", runs[r].code>>

(* Seeded fault: a 503 is listed with retained data only.                  *)
FaultOnlyKnown(s) ==
  {Candidate(s, r) : r \in {q \in FailedNow(s) :
     runs[q].code = "http_503" => HasRetainedData(s, q)}}

(* _source_failure_candidates of one source.                               *)
FailureCandidates(s) == {Candidate(s, r) : r \in FailedNow(s)}

-----------------------------------------------------------------------------
(* Properties.                                                             *)

(* Every variable keeps the shape of its rows.                             *)
TypeOK ==
  /\ runs \in Seq(Run)
  /\ tally \in Seq(Tally)
  /\ Len(tally) = Len(runs)
  /\ session \in [Syncs -> Session]
  /\ abandoned \subseteq 1..Len(runs)

(***************************************************************************)
(* A source shown fresh was read to its last page by its newest run, which *)
(* counts every notice it stored: neither a page limit nor an error, nor a *)
(* run of another process, passes for a complete collection.               *)
(***************************************************************************)
FreshMeansComplete ==
  \A s \in Sources : Freshness(s) = "fresh" =>
    \A r \in Newest(s) :
      tally[r].ended /\ runs[r].items = tally[r].stored

(***************************************************************************)
(* A closed run never changes, whichever synchronizations are still at     *)
(* work on the same source.                                                *)
(***************************************************************************)
ClosedRunsAreFinal ==
  [][\A r \in 1..Len(runs) :
       runs[r].status # "running" => runs'[r] = runs[r]]_vars

(***************************************************************************)
(* Short of a dead process and of a failure of the very record of failure, *)
(* a run is open only while its collector is at work on it, and its count  *)
(* lags behind the notices it stored by one at most when it has failed.    *)
(***************************************************************************)
EveryRunEnds ==
  \A r \in 1..Len(runs) :
    IF runs[r].status = "running"
    THEN r \in abandoned \/ \E p \in Syncs : Collecting(session[p]) /\ session[p].run = r
    ELSE tally[r].stored \in runs[r].items..(runs[r].items + 1)

(***************************************************************************)
(* What freshness calls stale is in the failure inventory and what it      *)
(* calls fresh is not, once the newest run of the source has been closed.  *)
(***************************************************************************)
InventoryFollowsFreshness ==
  \A s \in Sources : \A r \in Newest(s) :
    runs[r].status # "running" =>
      (Freshness(s) = "stale" <=> FailureCandidates(s) # {})

(***************************************************************************)
(* A synchronization that comes to its report has collected every          *)
(* configured source it was asked for, whatever failures it met: each has  *)
(* a closed run of its own.                                                *)
(***************************************************************************)
KnownFailuresAreIsolated ==
  \A p \in Syncs :
    session[p].pc = "next" /\ session[p].todo = <<>> =>
      /\ \A i \in DOMAIN session[p].asked :
           session[p].asked[i] \in session[p].keys =>
             \E r \in session[p].own : runs[r].source = session[p].asked[i]
      /\ \A r \in session[p].own : runs[r].status # "running"

(***************************************************************************)
(* The strengthening.  A synchronization at work on a run owns it alone,   *)
(* the run is open, and its count keeps up with what it stored; a source   *)
(* it was asked for is behind it, ahead of it or without a key.            *)
(***************************************************************************)
OwnsItsRun(p) ==
  LET s == session[p] IN
  /\ s.own \subseteq 1..Len(runs)
  /\ Collecting(s) => s.run \in s.own /\ runs[s.run].status = "running"
  /\ \A r \in s.own :
       runs[r].status = "running" => Collecting(s) /\ s.run = r

SoleOwner ==
  \A p, q \in Syncs : p # q => session[p].own \cap session[q].own = {}

CountsItsRun(p) ==
  LET s == session[p]
      t == tally[s.run] IN
  /\ s.pc \in {"fetch", "items", "complete", "fail"} => t.stored = s.count
  /\ s.pc = "attach" => s.left > 0 /\ t.stored = s.count + 1
  /\ s.pc \in {"items", "attach"} => t.ended = ~s.more
  /\ s.pc = "complete" => t.ended
  /\ s.pc = "next" => s.count = 0

ClosedRunsAreCounted ==
  \A r \in 1..Len(runs) :
    /\ runs[r].status = "succeeded" =>
         tally[r].ended /\ runs[r].items = tally[r].stored
    /\ runs[r].status = "failed" => tally[r].stored \in runs[r].items..(runs[r].items + 1)

OpenRunsAreHeld ==
  \A r \in 1..Len(runs) : runs[r].status = "running" =>
    r \in abandoned \/ \E p \in Syncs : r \in session[p].own

SkipsNoSource(p) ==
  LET s == session[p] IN
  \A i \in DOMAIN s.asked : s.asked[i] \in s.keys =>
    \/ \E j \in DOMAIN s.todo : s.todo[j] = s.asked[i]
    \/ \E r \in s.own : runs[r].source = s.asked[i]

SyncInv ==
  /\ TypeOK
  /\ \A p \in Syncs : OwnsItsRun(p) /\ CountsItsRun(p) /\ SkipsNoSource(p)
  /\ SoleOwner
  /\ ClosedRunsAreCounted
  /\ OpenRunsAreHeld
=============================================================================
