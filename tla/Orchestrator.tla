---------------------------- MODULE Orchestrator ----------------------------
(***************************************************************************)
(* Orchestrator.search of nexus/orchestrator/service.py: an async          *)
(* generator per request, run by the task that consumes it.  The generator *)
(* is suspended either at a yield, until its consumer pulls, or at one of  *)
(* three awaits: the search, the gather of the crawls (one task per kept   *)
(* row, under a semaphore) and the model call; the last two under the wall *)
(* clock.  Everything between two suspensions is one action.               *)
(*                                                                         *)
(* What searches, crawls and models answer is nondeterministic, exceptions *)
(* the generator does not catch included.  Payload contents, prompts and   *)
(* latencies are left out.                                                 *)
(***************************************************************************)
EXTENDS Integers, FiniteSets

CONSTANTS
    Requests,
    PagesMax,     \* crawl_pages_max
    Concurrency   \* crawl_concurrency

ASSUME OrchestratorAssumption ==
    /\ PagesMax \in Nat
    /\ Concurrency \in Nat \ {0}

VARIABLES
    req,     \* the generator of every request
    late,    \* wall_clock_s have passed since the request started
    crawl,   \* crawl[q][i]: the task crawling row i of q
    spans    \* spans[q][s]: orchestrator.search spans recorded with final_stage s

vars == <<req, late, crawl, spans>>

Terminal == {"answer", "error"}
AtYield == {"accepted", "expanded", "searched", "ranked", "page_ready",
            "synthesized", "validated"}
AtAwait == {"search", "crawl", "llm"}
Ended == Terminal \cup {"raised", "closed"}
Reasons == {"none", "search_unavailable", "timeout", "budget_exhausted",
            "llm_unavailable"}
Rows == 1..PagesMax
Fetched == {"ok", "failed"}        \* documents, with status "ok" or not
TaskStates == Fetched \cup {"none", "waiting", "running", "raised", "cancelled"}

RequestType ==
    [pc : {"new"} \cup AtYield \cup AtAwait \cup Ended,
     emitted : {"none"} \cup AtYield \cup Terminal,  \* last stage yielded
     kept : 0..PagesMax,
     pages : 0..PagesMax,      \* page_ready events yielded
     valid : BOOLEAN,          \* some citation survived validation
     reason : Reasons]         \* of an error event

TypeOK ==
    /\ req \in [Requests -> RequestType]
    /\ late \in [Requests -> BOOLEAN]
    /\ crawl \in [Requests -> [Rows -> TaskStates]]
    /\ spans \in [Requests -> [Terminal -> Nat]]

Init ==
    /\ req = [q \in Requests |->
          [pc |-> "new", emitted |-> "none", kept |-> 0, pages |-> 0,
           valid |-> FALSE, reason |-> "none"]]
    /\ late = [q \in Requests |-> FALSE]
    /\ crawl = [q \in Requests |-> [i \in Rows |-> "none"]]
    /\ spans = [q \in Requests |-> [s \in Terminal |-> 0]]

-----------------------------------------------------------------------------
Oks(t) == {i \in Rows : t[i] = "ok"}
OkDocs(q) == Oks(crawl[q])
Busy(q) == {i \in Rows : crawl[q][i] \in {"waiting", "running"}}
Running(q) == {i \in Rows : crawl[q][i] = "running"}
Active(q) == req[q].pc \in AtYield \cup AtAwait

(* Yield a stage that is not terminal.                                     *)
Yield(q, s) == req' = [req EXCEPT ![q].pc = s, ![q].emitted = s]

(* _record, then the terminal event.                                       *)
Record(q, s) == spans' = [spans EXCEPT ![q][s] = @ + 1]
YieldAnswer(q) ==
    /\ Yield(q, "answer")
    /\ Record(q, "answer")
(* Mutant: an error without its span.                                      *)
YieldErrorUnrecorded(q, why) ==
    /\ req' = [req EXCEPT ![q].pc = "error", ![q].emitted = "error",
                          ![q].reason = why]
    /\ UNCHANGED spans
YieldError(q, why) ==
    /\ req' = [req EXCEPT ![q].pc = "error", ![q].emitted = "error",
                          ![q].reason = why]
    /\ Record(q, "error")

(* An exception nobody catches ends the generator: no event, no span.      *)
Raise(q) ==
    /\ req' = [req EXCEPT ![q].pc = "raised"]
    /\ UNCHANGED spans

Await(q, what) == req' = [req EXCEPT ![q].pc = what]
-----------------------------------------------------------------------------
(* The consumer pulls the next event.                                      *)

Accept(q) ==
    /\ req[q].pc = "new"
    /\ Yield(q, "accepted")
    /\ UNCHANGED <<late, crawl, spans>>

Expand(q) ==
    /\ req[q].pc = "accepted"
    /\ Yield(q, "expanded")
    /\ UNCHANGED <<late, crawl, spans>>

Search(q) ==
    /\ req[q].pc = "expanded"
    /\ Await(q, "search")
    /\ UNCHANGED <<late, crawl, spans>>

(* Rerank and cut to the first crawl_pages_max rows.                       *)
Rank(q) ==
    /\ req[q].pc = "searched"
    /\ \E n \in 0..PagesMax :
          req' = [req EXCEPT ![q].pc = "ranked", ![q].emitted = "ranked",
                             ![q].kept = n]
    /\ UNCHANGED <<late, crawl, spans>>

(* Create one task per row and gather them, unless the clock ran out.      *)
StartCrawl(q) ==
    /\ req[q].pc = "ranked"
    /\ \/ /\ late[q]
          /\ YieldError(q, "timeout")
          /\ UNCHANGED crawl
       \/ /\ ~late[q]
          /\ Await(q, "crawl")
          /\ crawl' = [crawl EXCEPT ![q] =
                [i \in Rows |-> IF i <= req[q].kept THEN "waiting" ELSE "none"]]
          /\ UNCHANGED spans
    /\ UNCHANGED late

(* Mutant: the loop runs once too often.                                   *)
NextPageTooMany(q) ==
    /\ req[q].pc = "page_ready"
    /\ req[q].pages <= Cardinality(OkDocs(q))
    /\ req' = [req EXCEPT ![q].pages = @ + 1]
    /\ UNCHANGED <<late, crawl, spans>>

(* The loop over the fetched pages, one page_ready per pull.               *)
NextPage(q) ==
    /\ req[q].pc = "page_ready"
    /\ req[q].pages < Cardinality(OkDocs(q))
    /\ req' = [req EXCEPT ![q].pages = @ + 1]
    /\ UNCHANGED <<late, crawl, spans>>

(* Mutant: the model is asked while pages are still to be announced.       *)
StartLLMEarly(q) ==
    /\ req[q].pc = "page_ready"
    /\ \/ Raise(q)
       \/ late[q] /\ YieldError(q, "timeout")
       \/ ~late[q] /\ Await(q, "llm") /\ UNCHANGED spans
    /\ UNCHANGED <<late, crawl>>

(* After the last page: fit the prompt, or raise InputTooLarge when even   *)
(* a quarter of the first page is too long, then ask the model.            *)
StartLLM(q) ==
    /\ req[q].pc = "page_ready"
    /\ req[q].pages = Cardinality(OkDocs(q))
    /\ \/ Raise(q)
       \/ late[q] /\ YieldError(q, "timeout")
       \/ ~late[q] /\ Await(q, "llm") /\ UNCHANGED spans
    /\ UNCHANGED <<late, crawl>>

(* validate_citations encodes every quote; one that is no valid Unicode    *)
(* (a lone surrogate from a JSON escape) raises.                           *)
Validate(q) ==
    /\ req[q].pc = "synthesized"
    /\ \/ Raise(q)
       \/ /\ \E v \in BOOLEAN :
                req' = [req EXCEPT ![q].pc = "validated",
                                   ![q].emitted = "validated", ![q].valid = v]
          /\ UNCHANGED spans
    /\ UNCHANGED <<late, crawl>>

(* Mutant: an answer whose citations were not validated.                   *)
AnswerUnvalidated(q) ==
    /\ req[q].pc \in {"synthesized", "validated"}
    /\ YieldAnswer(q)
    /\ UNCHANGED <<late, crawl>>

Answer(q) ==
    /\ req[q].pc = "validated"
    /\ YieldAnswer(q)
    /\ UNCHANGED <<late, crawl>>

Pull(q) ==
    \/ Accept(q)
    \/ Expand(q)
    \/ Search(q)
    \/ Rank(q)
    \/ StartCrawl(q)
    \/ NextPage(q)
    \/ StartLLM(q)
    \/ Validate(q)
    \/ Answer(q)

-----------------------------------------------------------------------------
(* What the generator awaits.                                              *)

(* SearchUnavailable is the only exception of the search that is caught.   *)
SearchReply(q) ==
    /\ req[q].pc = "search"
    /\ \/ Yield(q, "searched") /\ UNCHANGED spans
       \/ YieldError(q, "search_unavailable")
       \/ Raise(q)
    /\ UNCHANGED <<late, crawl>>

(* The semaphore admits the tasks in the order they were created.          *)
TaskStart(q, i) ==
    /\ crawl[q][i] = "waiting"
    /\ \A j \in Rows : j < i => crawl[q][j] # "waiting"
    /\ Cardinality(Running(q)) < Concurrency
    /\ crawl' = [crawl EXCEPT ![q][i] = "running"]
    /\ UNCHANGED <<req, late, spans>>

TaskEnd(q, i) ==
    /\ crawl[q][i] = "running"
    /\ \E s \in Fetched : crawl' = [crawl EXCEPT ![q][i] = s]
    /\ UNCHANGED <<req, late, spans>>

(* fetch raises: gather passes the first exception on at once and leaves   *)
(* the other tasks running.                                                *)
TaskRaise(q, i) ==
    /\ crawl[q][i] = "running"
    /\ crawl' = [crawl EXCEPT ![q][i] = "raised"]
    /\ IF req[q].pc = "crawl" THEN Raise(q) ELSE UNCHANGED <<req, spans>>
    /\ UNCHANGED late

(* Mutant: the pages that are there, without the rest of the gather.       *)
CrawlDoneEarly(q) ==
    /\ req[q].pc = "crawl"
    /\ OkDocs(q) # {}
    /\ req' = [req EXCEPT ![q].pc = "page_ready",
                          ![q].emitted = "page_ready", ![q].pages = 1]
    /\ UNCHANGED <<late, crawl, spans>>

(* Every task returned a document: the first page_ready, or the answer     *)
(* that no source could be fetched.                                        *)
CrawlDone(q) ==
    /\ req[q].pc = "crawl"
    /\ \A i \in 1..req[q].kept : crawl[q][i] \in Fetched
    /\ \/ /\ OkDocs(q) # {}
          /\ req' = [req EXCEPT ![q].pc = "page_ready",
                                ![q].emitted = "page_ready", ![q].pages = 1]
          /\ UNCHANGED spans
       \/ /\ OkDocs(q) = {}
          /\ YieldAnswer(q)
    /\ UNCHANGED <<late, crawl>>

(* complete returns; the completion's JSON may not have the shape that     *)
(* _parse_completion expects.  BudgetExceeded and LLMUnavailable are       *)
(* caught, any other exception of the gateway is not.                      *)
LLMReply(q) ==
    /\ req[q].pc = "llm"
    /\ \/ Yield(q, "synthesized") /\ UNCHANGED spans
       \/ \E why \in {"budget_exhausted", "llm_unavailable"} : YieldError(q, why)
       \/ Raise(q)
    /\ UNCHANGED <<late, crawl>>

(* Mutant: the tasks past the semaphore are not cancelled.                 *)
CancelTasksWaiting(q) ==
    crawl' = [crawl EXCEPT ![q] =
        [i \in Rows |-> IF crawl[q][i] = "waiting" THEN "cancelled"
                                                  ELSE crawl[q][i]]]

(* Cancelling the gather cancels every task that is not done.              *)
CancelTasks(q) ==
    crawl' = [crawl EXCEPT ![q] =
        [i \in Rows |-> IF i \in Busy(q) THEN "cancelled" ELSE crawl[q][i]]]

(* Mutant: the model is awaited without wait_for.                          *)
TimeoutCrawlOnly(q) ==
    /\ req[q].pc = "crawl"
    /\ late[q]
    /\ YieldError(q, "timeout")
    /\ CancelTasks(q)
    /\ UNCHANGED late

(* wait_for: the timer cancels what the generator awaits.                  *)
Timeout(q) ==
    /\ req[q].pc \in {"crawl", "llm"}
    /\ late[q]
    /\ YieldError(q, "timeout")
    /\ IF req[q].pc = "crawl" THEN CancelTasks(q) ELSE UNCHANGED crawl
    /\ UNCHANGED late

(* The wall clock passes wall_clock_s.                                     *)
Expire(q) ==
    /\ Active(q)
    /\ ~late[q]
    /\ late' = [late EXCEPT ![q] = TRUE]
    /\ UNCHANGED <<req, crawl, spans>>

(* The consumer goes away: its task is cancelled at an await, or the       *)
(* generator is closed at a yield.                                         *)
Close(q) ==
    /\ Active(q)
    /\ Await(q, "closed")
    /\ IF req[q].pc = "crawl" THEN CancelTasks(q) ELSE UNCHANGED crawl
    /\ UNCHANGED <<late, spans>>

Next == \E q \in Requests :
    \/ Pull(q)
    \/ SearchReply(q)
    \/ \E i \in Rows : TaskStart(q, i) \/ TaskEnd(q, i) \/ TaskRaise(q, i)
    \/ CrawlDone(q)
    \/ LLMReply(q)
    \/ Timeout(q)
    \/ Expire(q)
    \/ Close(q)

Spec == Init /\ [][Next]_vars

(* The consumer keeps pulling, time passes and timers fire, the event loop *)
(* resumes a generator whose tasks are done, and the search providers have *)
(* timeouts and bounded retries of their own.  Nothing is assumed of       *)
(* crawls and models, which may hang.                                      *)
FairSpec ==
    /\ Spec
    /\ \A q \in Requests :
          /\ WF_vars(Pull(q))
          /\ WF_vars(SearchReply(q))
          /\ WF_vars(CrawlDone(q))
          /\ WF_vars(Expire(q))
          /\ WF_vars(Timeout(q))


-----------------------------------------------------------------------------
(* The generator implements the stage contract.                            *)
Stream == INSTANCE AnswerStream WITH
    stage <- [q \in Requests |-> req[q].emitted],
    kept <- [q \in Requests |-> req[q].kept],
    pages <- [q \in Requests |-> req[q].pages]
StreamSpec == Stream!Spec

(* Telemetry and stream agree: a request has exactly one span when it      *)
(* ended with a terminal event, with that event as final_stage, and none   *)
(* in every other case, timeouts that race a reply included.               *)
SpanPerTerminal ==
    \A q \in Requests : \A s \in Terminal :
        spans[q][s] = IF req[q].pc = s THEN 1 ELSE 0

(* "Cancellation from caller: all background tasks cancelled": a crawl     *)
(* task is alive only while its pipeline awaits the gather, or after an    *)
(* exception broke the gather; in particular a stream that timed out, was  *)
(* closed or answered leaves no task behind.                               *)
NoStrayTasks ==
    \A q \in Requests : Busy(q) # {} => req[q].pc \in {"crawl", "raised"}

(* An answer with citations, and every model call, rests on pages that     *)
(* were fetched and all announced before; an answer announced without      *)
(* citations from a model had no page at all.                              *)
GroundedInPages ==
    \A q \in Requests :
        LET r == req[q]
            modelled == r.pc \in {"llm", "synthesized", "validated"}
        IN  /\ modelled \/ r.valid =>
                  r.pages = Cardinality(OkDocs(q)) /\ r.pages > 0
            /\ r.pc = "answer" /\ r.pages = 0 => OkDocs(q) = {} /\ ~r.valid

(* The wall clock bounds everything behind the search: whatever crawls and *)
(* models do, hanging forever included, a request whose consumer pulls and *)
(* whose search was answered ends.                                         *)
RequestsEnd == \A q \in Requests : Active(q) ~> req[q].pc \in Ended

(* "The terminal event is exactly one of answer or error": a stream that   *)
(* its consumer did not leave ends with a terminal event.                  *)
EndsWithTerminal ==
    \A q \in Requests : req[q].pc \in Ended =>
        req[q].emitted \in Terminal \/ req[q].pc = "closed"

-----------------------------------------------------------------------------
(* The strengthening behind StreamSpec, SpanPerTerminal, NoStrayTasks and  *)
(* GroundedInPages, for one request: r is its generator, t its tasks and n *)
(* its spans.  It ties the last event to the place where the generator is, *)
(* and says when tasks exist and when their results are final.             *)
BeforeCrawl == {"new", "accepted", "expanded", "search", "searched", "ranked"}
LastStage(pc) ==
    CASE pc = "new" -> "none"
      [] pc = "search" -> "expanded"
      [] pc = "crawl" -> "ranked"
      [] pc = "llm" -> "page_ready"
      [] OTHER -> pc

Consistent(r, t, n) ==
    /\ r.pc \notin {"raised", "closed"} => r.emitted = LastStage(r.pc)
    /\ r.pc \in {"raised", "closed"} => r.emitted \notin Terminal
    /\ \A s \in Terminal : n[s] = IF r.pc = s THEN 1 ELSE 0
    /\ r.pc \in BeforeCrawl => \A i \in Rows : t[i] = "none"
    /\ \A i \in Rows : i > r.kept => t[i] = "none"
    /\ r.pc \notin {"crawl", "raised"} =>
          \A i \in Rows : t[i] \notin {"waiting", "running"}
    /\ r.pc \in BeforeCrawl \cup {"crawl"} => r.pages = 0
    /\ r.pc = "page_ready" => r.pages > 0 /\ r.pages <= Cardinality(Oks(t))
    /\ r.pc \in {"llm", "synthesized", "validated"} \/ r.valid =>
          r.pages > 0 /\ r.pages = Cardinality(Oks(t))
    /\ r.valid => r.pc \in {"validated", "answer", "closed"}
    /\ r.pc = "answer" /\ r.pages = 0 => Oks(t) = {} /\ ~r.valid
AllConsistent == \A q \in Requests : Consistent(req[q], crawl[q], spans[q])
=============================================================================
