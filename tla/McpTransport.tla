---------------------------- MODULE McpTransport ----------------------------
(***************************************************************************)
(* MCPTransport of nexus/mcp/server.py: concurrent calls of the tool       *)
(* agentic_search, each consuming one answer stream of the orchestrator,   *)
(* which is taken here in its abstract form (AnswerStream).                *)
(*                                                                         *)
(* A call suspends where it pulls the next event and where it reports      *)
(* progress to its client.  The calls share the list progress_events and   *)
(* the counters of StatusState.                                            *)
(***************************************************************************)
EXTENDS Integers, FiniteSets, FiniteSetsExt

CONSTANTS
    Calls,
    PagesMax,
    Costs      \* what an answer may cost

ASSUME McpAssumption ==
    /\ IsFiniteSet(Calls)
    /\ PagesMax \in Nat
    /\ Costs \subseteq Nat

VARIABLES
    stage, kept, pages, \* the streams
    call,      \* the coroutine handle_call of every call
    listed,    \* progress_events: how many entries each call has in it
    requests,  \* requests_today
    cost,      \* daily_cost_usd
    earlier    \* history: events reported by each call when the last one began

streams == <<stage, kept, pages>>
counters == <<requests, cost>>
vars == <<streams, call, listed, counters, earlier>>

Stream == INSTANCE AnswerStream WITH Requests <- Calls

Results == {"none", "invalid_input", "answer", "error", "internal", "raised", "cancelled"}

EventsMax == PagesMax + 6
CallType ==
    [pc : {"idle", "pull", "report", "done"},
     index : 0..EventsMax,   \* progress_index
     told : 0..EventsMax,    \* the last progress number its client received
     result : Results,
     paid : Costs \cup {0}]  \* cost_usd of the result

(* Counters and coroutines are of their types; in particular, a call has   *)
(* no more progress to report than its stream has events before the last.  *)
TypeOK ==
    /\ Stream!StreamTypeOK
    /\ call \in [Calls -> CallType]
    /\ listed \in [Calls -> 0..EventsMax]
    /\ requests \in Nat
    /\ cost \in Nat
    /\ earlier \in [Calls -> 0..EventsMax]

Init ==
    /\ Stream!Init
    /\ call = [c \in Calls |->
          [pc |-> "idle", index |-> 0, told |-> 0, result |-> "none", paid |-> 0]]
    /\ listed = [c \in Calls |-> 0]
    /\ requests = 0
    /\ cost = 0
    /\ earlier = [c \in Calls |-> 0]

-----------------------------------------------------------------------------
Return(c, result) == call' = [call EXCEPT ![c].pc = "done", ![c].result = result]

Invalid(c) ==
    /\ call[c].pc = "idle"
    /\ Return(c, "invalid_input")
    /\ UNCHANGED <<streams, listed, counters, earlier>>

(* Mutant: the list is left as it is.                                      *)
NewListKept == listed' = listed
NewList == listed' = [c \in Calls |-> 0]

Start(c) ==
    /\ call[c].pc = "idle"
    /\ call' = [call EXCEPT ![c].pc = "pull"]
    /\ requests' = requests + 1
    /\ NewList
    /\ earlier' = [d \in Calls |-> call[d].index]
    /\ UNCHANGED <<streams, cost>>

(* Mutant: the index is a field of the transport.                          *)
NextIndexShared(c) == Max({call[d].index : d \in Calls}) + 1
NextIndex(c) == call[c].index + 1

(* An event that is neither answer nor error is listed and reported.       *)
Progress(c) ==
    /\ call[c].pc = "pull"
    /\ Stream!Begin(c) \/ Stream!Rank(c) \/ Stream!PageReady(c) \/ Stream!Synthesize(c)
    /\ call' = [call EXCEPT ![c].pc = "report", ![c].index = NextIndex(c)]
    /\ listed' = [listed EXCEPT ![c] = @ + 1]
    /\ UNCHANGED <<counters, earlier>>

(* Mutant: the progress number is the length of the list.                  *)
ReportedByList(c) ==
    /\ call[c].pc = "report"
    /\ call' = [call EXCEPT ![c].pc = "pull",
                            ![c].told = MapThenSumSet(LAMBDA d : listed[d], Calls)]
    /\ UNCHANGED <<streams, listed, counters, earlier>>

Reported(c) ==
    /\ call[c].pc = "report"
    /\ call' = [call EXCEPT ![c].pc = "pull", ![c].told = call[c].index]
    /\ UNCHANGED <<streams, listed, counters, earlier>>

(* Mutant: the cost is added before the payload is validated.              *)
AnswerCostFirst(c) ==
    /\ call[c].pc = "pull"
    /\ Stream!Answer(c)
    /\ \E usd \in Costs, valid \in BOOLEAN :
          /\ cost' = cost + usd
          /\ call' = [call EXCEPT ![c].pc = "done",
                                  ![c].result = IF valid THEN "answer" ELSE "internal",
                                  ![c].paid = IF valid THEN usd ELSE 0]
    /\ UNCHANGED <<listed, requests, earlier>>

(* The payload passes validate_output, or it does not.  Truncating it      *)
(* changes no state.                                                       *)
Answer(c) ==
    /\ call[c].pc = "pull"
    /\ Stream!Answer(c)
    /\ \/ \E usd \in Costs :
             /\ cost' = cost + usd
             /\ call' = [call EXCEPT ![c].pc = "done", ![c].result = "answer", ![c].paid = usd]
       \/ Return(c, "internal") /\ UNCHANGED cost
    /\ UNCHANGED <<listed, requests, earlier>>

Error(c) ==
    /\ call[c].pc = "pull"
    /\ Stream!Fail(c)
    /\ Return(c, "error")
    /\ UNCHANGED <<listed, counters, earlier>>

(* The generator stops or raises, or report_progress raises.               *)
Broken(c) ==
    /\ call[c].pc \in {"pull", "report"}
    /\ \/ call[c].pc = "pull" /\ Return(c, "internal")
       \/ Return(c, "raised")
    /\ UNCHANGED <<streams, listed, counters, earlier>>

Cancel(c) ==
    /\ call[c].pc \in {"pull", "report"}
    /\ Return(c, "cancelled")
    /\ UNCHANGED <<streams, listed, counters, earlier>>

Next == \E c \in Calls :
    \/ Invalid(c)
    \/ Start(c)
    \/ Progress(c)
    \/ Reported(c)
    \/ Answer(c)
    \/ Error(c)
    \/ Broken(c)
    \/ Cancel(c)

Spec == Init /\ [][Next]_vars

-----------------------------------------------------------------------------
(* How many events a stream has emitted, the terminal one excluded.        *)
Emitted(c) ==
    CASE stage[c] = "none" -> 0
      [] stage[c] = "accepted" -> 1
      [] stage[c] = "expanded" -> 2
      [] stage[c] = "searched" -> 3
      [] stage[c] = "ranked" -> 4
      [] stage[c] = "page_ready" -> 4 + pages[c]
      [] stage[c] = "synthesized" -> 5 + pages[c]
      [] OTHER -> 6 + pages[c]

(* "mapped to MCP notifications/progress": whatever other calls report in  *)
(* between, the progress numbers a client receives are those of its own    *)
(* stream's events, without gap, and the last one is at most one behind.   *)
ProgressInOrder == \A c \in Calls :
    stage[c] \notin Stream!Terminal =>
        /\ call[c].index = Emitted(c)
        /\ call[c].pc = "pull" => call[c].told = Emitted(c)
        /\ call[c].pc = "report" => call[c].told = Emitted(c) - 1

(* progress_events is replaced by every call that begins while the others  *)
(* go on appending: it holds every event since the last call began, of     *)
(* every call, and none from before.                                       *)
ListSinceStart == \A c \in Calls : listed[c] = call[c].index - earlier[c]

(* The status counters are what the calls were told: requests_today counts *)
(* the calls that passed validation, daily_cost_usd the answers returned;  *)
(* and a call returns what its stream ended with.                          *)
Accounted ==
    /\ requests = Cardinality({c \in Calls : call[c].pc # "idle"
                                         /\ call[c].result # "invalid_input"})
    /\ cost = MapThenSumSet(LAMBDA c : call[c].paid, Calls)
    /\ \A c \in Calls :
          /\ stage[c] = "answer" => call[c].result \in {"answer", "internal"}
          /\ stage[c] = "error" => call[c].result = "error"
          /\ call[c].result \in {"answer", "error"} => stage[c] = call[c].result
=============================================================================
