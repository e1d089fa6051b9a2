------------------------------- MODULE Download -------------------------------
(***************************************************************************)
(* One call of AttachmentDownloader.fetch: hops over redirects, each with  *)
(* a check of its target, a request and a response to close, under one     *)
(* deadline for the whole fetch.                                           *)
(*                                                                         *)
(* A step ends where the code awaits.  The server is free to redirect      *)
(* anywhere, to send any number of bytes or to fall silent; the name       *)
(* service is free to fail.  Sizes are counted in units of which MaxBytes  *)
(* fit, and what the checks of a target, of headers and of magic bytes     *)
(* look at is left to the outcomes they have.                              *)
(***************************************************************************)
EXTENDS Naturals, FiniteSets

CONSTANTS
  Urls,          \* targets a server can name
  MaxRedirects,  \* DownloadLimits.max_redirects
  MaxBytes,      \* DownloadLimits.max_bytes
  MaxChunk       \* bound: the largest chunk of a body

ASSUME DownloadAssumption ==
  /\ Urls # {} /\ MaxRedirects \in Nat /\ MaxBytes \in Nat
  /\ MaxChunk \in Nat \ {0}

(* The DocumentIngestError codes a fetch can end with.                     *)
Codes ==
  {"attachment_missing", "attachment_too_large", "download_failed",
   "download_timeout", "invalid_attachment_type", "redirect_limit",
   "redirect_loop", "unsafe_download_target"}

(* "escaped": an exception that fetch does not translate.                  *)
Outcomes == Codes \cup {"pending", "content", "escaped"}

VARIABLES
  pc,         \* where the fetch awaits
  url,        \* target at hand
  visited,    \* targets requested
  redirects,  \* redirects followed
  open,       \* responses received and not closed
  buffered,   \* bytes kept of the body
  outcome,    \* result, or exception on its way through the finally
  requests    \* history: requests sent

fetchVars ==
  <<pc, url, visited, redirects, open, buffered, outcome, requests>>

FetchInit ==
  /\ pc = "start"
  /\ url \in Urls
  /\ visited = {} /\ redirects = 0 /\ open = 0 /\ buffered = 0
  /\ outcome = "pending" /\ requests = 0

(* Leave before there is a response; and with one, through the finally.    *)
Raise(code) == pc' = "ended" /\ outcome' = code

Unwind(result) == pc' = "closing" /\ outcome' = result

-----------------------------------------------------------------------------
(* The filename: PDF or HWPX, and no path.                                 *)
Start ==
  /\ pc = "start"
  /\ \/ Raise("invalid_attachment_type")
     \/ pc' = "checking" /\ UNCHANGED outcome
  /\ UNCHANGED <<url, visited, redirects, open, buffered, requests>>

(* The target is refused, or its host cannot be resolved (in time).        *)
RefuseTarget ==
  /\ pc = "checking"
  /\ \E code \in {"unsafe_download_target", "download_failed"} : Raise(code)
  /\ UNCHANGED <<url, visited, redirects, open, buffered, requests>>

(* The loop check comes after the check of the target; then _send.         *)
AcceptTarget ==
  /\ pc = "checking"
  /\ IF url \in visited
     THEN Raise("redirect_loop") /\ UNCHANGED <<visited, requests>>
     ELSE /\ visited' = visited \cup {url}
          /\ requests' = requests + 1
          /\ pc' = "sending"
          /\ UNCHANGED outcome
  /\ UNCHANGED <<url, redirects, open, buffered>>

(***************************************************************************)
(* TimeoutException and TransportError of the client are translated;       *)
(* whatever else sending raises, or building the request before the try,   *)
(* is not.                                                                 *)
(***************************************************************************)
SendFails ==
  /\ pc = "sending"
  /\ \E code \in {"download_timeout", "download_failed", "escaped"} : Raise(code)
  /\ UNCHANGED <<url, visited, redirects, open, buffered, requests>>

(***************************************************************************)
(* An answer that ends the fetch: 404, any other status that is neither a  *)
(* redirect nor 200, a redirect without location within the limit, or      *)
(* headers of a 200 that declare a malformed length, one out of range, or  *)
(* another media type.                                                     *)
(***************************************************************************)
AnswerRefused ==
  /\ pc = "sending"
  /\ open' = open + 1
  /\ \E code \in {"attachment_missing", "download_failed",
                  "attachment_too_large", "invalid_attachment_type"} :
       Unwind(code)
  /\ UNCHANGED <<url, visited, redirects, buffered, requests>>

(* Seeded faults: one redirect too many, or a continue around the finally. *)
FaultLimitOffByOne ==
  /\ pc = "sending"
  /\ open' = open + 1
  /\ IF redirects > MaxRedirects
     THEN Unwind("redirect_limit") /\ UNCHANGED <<url, redirects>>
     ELSE /\ redirects' = redirects + 1
          /\ url' \in Urls
          /\ pc' = "closing" /\ UNCHANGED outcome
  /\ UNCHANGED <<visited, buffered, requests>>

FaultContinueWithoutClose ==
  /\ pc = "sending"
  /\ open' = open + 1
  /\ IF redirects >= MaxRedirects
     THEN Unwind("redirect_limit") /\ UNCHANGED <<url, redirects>>
     ELSE /\ redirects' = redirects + 1
          /\ url' \in Urls
          /\ pc' = "checking" /\ UNCHANGED outcome
  /\ UNCHANGED <<visited, buffered, requests>>

(* A redirect: the response is closed before the next target is checked.   *)
Redirect ==
  /\ pc = "sending"
  /\ open' = open + 1
  /\ IF redirects >= MaxRedirects
     THEN Unwind("redirect_limit") /\ UNCHANGED <<url, redirects>>
     ELSE /\ redirects' = redirects + 1
          /\ url' \in Urls
          /\ pc' = "closing" /\ UNCHANGED outcome
  /\ UNCHANGED <<visited, buffered, requests>>

(* A location that urljoin cannot parse: its ValueError nobody translates. *)
LocationUnreadable ==
  /\ pc = "sending" /\ redirects < MaxRedirects
  /\ open' = open + 1
  /\ redirects' = redirects + 1
  /\ Unwind("escaped")
  /\ UNCHANGED <<url, visited, buffered, requests>>

(* A 200 whose headers pass.  The declared length is not used again.       *)
AnswerAccepted ==
  /\ pc = "sending"
  /\ open' = open + 1
  /\ pc' = "reading"
  /\ UNCHANGED <<url, visited, redirects, buffered, outcome, requests>>

-----------------------------------------------------------------------------
(* _read_bounded: the sum is checked before the chunk is kept.             *)
ReadChunk ==
  /\ pc = "reading"
  /\ \E n \in 1..MaxChunk :
       IF buffered + n > MaxBytes
       THEN Unwind("attachment_too_large") /\ UNCHANGED buffered
       ELSE buffered' = buffered + n /\ UNCHANGED <<pc, outcome>>
  /\ UNCHANGED <<url, visited, redirects, open, requests>>

(* The end of the body, then the magic bytes: an archive entry that is     *)
(* encrypted or compressed in an unknown way raises what nobody translates.*)
EndOfBody ==
  /\ pc = "reading"
  /\ \E result \in {"content", "invalid_attachment_type", "escaped"} :
       Unwind(result)
  /\ UNCHANGED <<url, visited, redirects, open, buffered, requests>>

(* A transport error while the body is read is translated by nobody.       *)
BodyBreaksOff ==
  /\ pc = "reading"
  /\ Unwind("escaped")
  /\ UNCHANGED <<url, visited, redirects, open, buffered, requests>>

(* The finally, shielded from the deadline; a redirect goes on with it.    *)
Close ==
  /\ pc = "closing"
  /\ open' = open - 1
  /\ pc' = IF outcome = "pending" THEN "checking" ELSE "ended"
  /\ UNCHANGED <<url, visited, redirects, buffered, outcome, requests>>

(* Seeded fault: the deadline ends with the request, not with the body.    *)
FaultDeadlineOfRequest ==
  /\ pc \in {"checking", "sending"} /\ Raise("download_timeout")
  /\ UNCHANGED <<url, visited, redirects, open, buffered, requests>>

(* fail_after of the whole fetch: it cancels whatever is awaited, but not  *)
(* the closing of a response.                                              *)
Deadline ==
  /\ \/ pc \in {"checking", "sending"} /\ Raise("download_timeout")
     \/ pc = "reading" /\ Unwind("download_timeout")
  /\ UNCHANGED <<url, visited, redirects, open, buffered, requests>>

FetchNext ==
  \/ Start
  \/ RefuseTarget \/ AcceptTarget
  \/ SendFails \/ AnswerRefused \/ Redirect \/ LocationUnreadable
  \/ AnswerAccepted
  \/ ReadChunk \/ EndOfBody \/ BodyBreaksOff
  \/ Close
  \/ Deadline

FetchSpec == FetchInit /\ [][FetchNext]_fetchVars

(***************************************************************************)
(* The event loop runs what needs no answer: the start, the timer of the   *)
(* deadline, and the close, which waits for nobody but the transport.      *)
(* Nothing is assumed of servers and of the name service.                  *)
(***************************************************************************)
FetchFairness ==
  WF_fetchVars(Start) /\ WF_fetchVars(Deadline) /\ WF_fetchVars(Close)

FetchFairSpec == FetchSpec /\ FetchFairness

-----------------------------------------------------------------------------
(* Properties.                                                             *)

(* Every variable keeps its type.                                          *)
FetchTypeOK ==
  /\ pc \in {"start", "checking", "sending", "reading", "closing", "ended"}
  /\ url \in Urls
  /\ visited \subseteq Urls /\ IsFiniteSet(visited)
  /\ redirects \in Nat /\ open \in Nat /\ buffered \in Nat
  /\ outcome \in Outcomes
  /\ requests \in Nat

(***************************************************************************)
(* Wherever the server redirects and whatever length it declared, a fetch  *)
(* sends no target a second request, at most one request more than it may  *)
(* follow redirects, and keeps at most the allowed number of bytes.        *)
(***************************************************************************)
BudgetsHold ==
  /\ requests = Cardinality(visited)
  /\ requests <= MaxRedirects + 1
  /\ buffered <= MaxBytes

(***************************************************************************)
(* At most one response is open at a time, and none once the fetch ended:  *)
(* not after a redirect, an error, a broken body, nor after a deadline     *)
(* that strikes while a body is read.                                      *)
(***************************************************************************)
ResponsesAreClosed ==
  open = IF pc \in {"reading", "closing"} THEN 1 ELSE 0

(***************************************************************************)
(* Every fetch ends, though a server may stall in every phase and redirect *)
(* as long as it is let: the deadline has to reach all waiting, and the    *)
(* closes it cannot reach have to be bounded in number.                    *)
(***************************************************************************)
FetchEnds == <>(pc = "ended")

(***************************************************************************)
(* The strengthening: between requests the number of requests is the       *)
(* number of redirects, and after one it is one more.                      *)
(***************************************************************************)
HopsAreCounted ==
  /\ redirects <= MaxRedirects
  /\ pc \in {"start", "checking"} => requests = redirects
  /\ pc \in {"sending", "reading"} => requests = redirects + 1
  /\ pc = "closing" =>
       \/ requests = redirects
       \/ requests = redirects + 1 /\ outcome # "pending"
  /\ pc \in {"start", "checking", "sending", "reading"} => outcome = "pending"

DownloadInv ==
  FetchTypeOK /\ BudgetsHold /\ ResponsesAreClosed /\ HopsAreCounted
===============================================================================
