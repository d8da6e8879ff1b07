---------------------------- MODULE AnswerStream ----------------------------
(***************************************************************************)
(* The stage contract of one answer stream: what the consumer of           *)
(* Orchestrator.search may observe, whatever happens to searches, crawls   *)
(* and models.  A stream may stop after any stage (the consumer left, or   *)
(* an exception ended it); it may not skip, repeat or reorder stages, nor  *)
(* go on after answer or error, nor synthesize without a page.             *)
(*                                                                         *)
(* Orchestrator implements this specification (Orchestrator!StreamSpec).   *)
(***************************************************************************)
EXTENDS Integers

CONSTANTS
    Requests,
    PagesMax    \* crawl_pages_max

VARIABLES
    stage,      \* the last stage emitted to each consumer
    kept,       \* rows in the ranked event
    pages       \* page_ready events so far

streamVars == <<stage, kept, pages>>

Terminal == {"answer", "error"}
Stages == {"none", "accepted", "expanded", "searched", "ranked", "page_ready",
           "synthesized", "validated"} \cup Terminal

StreamTypeOK ==
    /\ stage \in [Requests -> Stages]
    /\ kept \in [Requests -> 0..PagesMax]
    /\ pages \in [Requests -> 0..PagesMax]

Init ==
    /\ stage = [q \in Requests |-> "none"]
    /\ kept = [q \in Requests |-> 0]
    /\ pages = [q \in Requests |-> 0]

Emit(q, from, to) ==
    /\ stage[q] \in from
    /\ stage' = [stage EXCEPT ![q] = to]

Begin(q) ==
    /\ \/ Emit(q, {"none"}, "accepted")
       \/ Emit(q, {"accepted"}, "expanded")
       \/ Emit(q, {"expanded"}, "searched")
    /\ UNCHANGED <<kept, pages>>

Rank(q) ==
    /\ Emit(q, {"searched"}, "ranked")
    /\ \E n \in 0..PagesMax : kept' = [kept EXCEPT ![q] = n]
    /\ UNCHANGED pages

PageReady(q) ==
    /\ Emit(q, {"ranked", "page_ready"}, "page_ready")
    /\ pages[q] < kept[q]
    /\ pages' = [pages EXCEPT ![q] = @ + 1]
    /\ UNCHANGED kept

Synthesize(q) ==
    /\ \/ Emit(q, {"page_ready"}, "synthesized")
       \/ Emit(q, {"synthesized"}, "validated")
    /\ UNCHANGED <<kept, pages>>

(* Either after validation, or because no page could be fetched.           *)
Answer(q) ==
    /\ Emit(q, {"ranked", "validated"}, "answer")
    /\ UNCHANGED <<kept, pages>>

Fail(q) ==
    /\ Emit(q, {"expanded", "ranked", "page_ready"}, "error")
    /\ UNCHANGED <<kept, pages>>

Next == \E q \in Requests :
    \/ Begin(q)
    \/ Rank(q)
    \/ PageReady(q)
    \/ Synthesize(q)
    \/ Answer(q)
    \/ Fail(q)

Spec == Init /\ [][Next]_streamVars
=============================================================================
