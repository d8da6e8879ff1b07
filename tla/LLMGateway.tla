----------------------------- MODULE LLMGateway -----------------------------
(***************************************************************************)
(* LiteLLMClient of nexus/llm/client.py: concurrent calls of complete and  *)
(* stream_complete, each walking the chain <<primary, fallback...>> of its *)
(* role.  A call suspends at three kinds of await: the LM Studio probe of  *)
(* a local model, the request to a provider, and (streams) the next chunk; *)
(* everything between two awaits is one action.  The spend ledger is       *)
(* checked once on entry and written once on success, on the two sides of  *)
(* all those awaits.                                                       *)
(*                                                                         *)
(* Message contents, token counts, model drift, pricing drift, the flag    *)
(* fallback_used, logging and metrics are left out; what a provider or a   *)
(* probe answers is chosen nondeterministically.                           *)
(***************************************************************************)
EXTENDS Integers, Sequences, FiniteSets

CONSTANTS
    Callers,    \* concurrent users of the client
    Roles,      \* keys of LLMConfig.roles
    NoRole,
    Synthesis,  \* the role whose tool calling is disabled
    Models,     \* configured model ids
    Local,      \* the "lmstudio/..." models, probed before use
    Configured, \* the other models whose API key is in the environment
    Chain,      \* Chain[r]: the primary of role r followed by its fallbacks
    Budget, MaxCost, MaxDay, Durable

ASSUME GatewayAssumption ==
    /\ Synthesis \in Roles
    /\ Local \subseteq Models
    /\ Configured \subseteq Models
    /\ Chain \in [Roles -> Seq(Models)]
    /\ IsFiniteSet(Callers)
    /\ NoRole \notin Roles
    /\ Budget \in Nat \ {0}
    /\ MaxCost \in Nat
    /\ MaxDay \in Nat
    /\ Durable \in BOOLEAN

VARIABLES
    day, spend, \* the clock and DailyBudgetStore, see DailyBudget
    cache,      \* _lmstudio_cache
    call        \* the state of every caller's call

vars == <<day, spend, cache, call>>

Costs == 0..MaxCost
Positions == UNION {DOMAIN Chain[r] : r \in Roles}
Kinds == {"complete", "stream"}
Refusals == {"tools_disabled", "budget_exceeded", "input_too_large"}
Outcomes == {"none", "ok", "unavailable", "crashed", "cancelled"} \cup Refusals
CallType ==
    [pc : {"idle", "probe", "request", "repair", "stream"},
     kind : Kinds,
     role : Roles \cup {NoRole},
     at : Positions \cup {0},      \* chain position being probed or asked
     avail : SUBSET Positions,     \* _providers_for_role, so far or final
     failed : SUBSET Positions,    \* providers whose attempt raised
     live : Costs,                 \* stream: cost_usd reported by the chunks
     out : Outcomes]               \* how the call ended

Fresh == [pc |-> "idle", kind |-> "complete", role |-> NoRole, at |-> 0,
          avail |-> {}, failed |-> {}, live |-> 0, out |-> "none"]

Idle(c) == call[c].pc = "idle"
holder == [c \in Callers |-> IF Idle(c) THEN NoRole ELSE call[c].role]
Ledger == INSTANCE DailyBudget

TypeOK ==
    /\ day \in Ledger!Days
    /\ spend \in [Ledger!Days -> [Roles -> Nat]]
    /\ cache \in [Local -> {"unknown", "up", "down"}]
    /\ call \in [Callers -> CallType]

Init ==
    /\ day = 0
    /\ spend = Ledger!EmptyLedger
    /\ cache = [m \in Local |-> "unknown"]
    /\ call = [c \in Callers |-> Fresh]

-----------------------------------------------------------------------------
(* Resolving the chain: _providers_for_role, _resolve_model.               *)

First(i, S) == i \in S /\ \A j \in S : i <= j

(* Mutant: a local model that was probed is used whatever the probe said.  *)
UsableOnceProbed(m, ca) ==
    IF m \in Local THEN ca[m] # "unknown" ELSE m \in Configured

Usable(m, ca) ==
    IF m \in Local THEN ca[m] = "up" ELSE m \in Configured

Unprobed(r, from, ca) ==
    {i \in DOMAIN Chain[r] :
        i >= from /\ Chain[r][i] \in Local /\ ca[Chain[r][i]] = "unknown"}

UsableIn(r, from, to, ca) ==
    {i \in DOMAIN Chain[r] : i >= from /\ i < to /\ Usable(Chain[r][i], ca)}

Finish(k, outcome) == [k EXCEPT !.pc = "idle", !.out = outcome, !.live = 0]

(* The loop of _providers_for_role from position `from' on: it runs until  *)
(* it must probe a local model, or ends and the first usable provider is   *)
(* asked; without one, LLMUnavailable leaves complete at once.             *)
Resolve(c, k, from, ca) ==
    LET pending == Unprobed(k.role, from, ca)
        found(to) == k.avail \cup UsableIn(k.role, from, to, ca)
        all == found(Len(Chain[k.role]) + 1)
    IN  \/ \E i \in pending :
              /\ First(i, pending)
              /\ call' = [call EXCEPT ![c] =
                    [k EXCEPT !.pc = "probe", !.at = i, !.avail = found(i)]]
        \/ /\ pending = {}
           /\ all = {}
           /\ call' = [call EXCEPT ![c] = Finish(k, "unavailable")]
        \/ /\ pending = {}
           /\ \E i \in all :
                /\ First(i, all)
                /\ call' = [call EXCEPT ![c] =
                      [k EXCEPT !.pc = "request", !.at = i, !.avail = all]]

(* Mutants: the next chain position, usable or not; the last provider in   *)
(* place of the next; the chain from its beginning once more.              *)
NextProviderByIndex(c, k) ==
    call' = [call EXCEPT ![c] =
        [k EXCEPT !.pc = "request", !.at = @ + 1,
                  !.failed = @ \cup {k.at}, !.live = 0]]
NextProviderLast(c, k) ==
    \/ \E i \in k.avail :
          /\ i > k.at
          /\ \A j \in k.avail : j <= i
          /\ call' = [call EXCEPT ![c] =
                [k EXCEPT !.pc = "request", !.at = i,
                          !.failed = @ \cup {k.at}, !.live = 0]]
    \/ /\ \A i \in k.avail : i <= k.at
       /\ call' = [call EXCEPT ![c] =
             Finish([k EXCEPT !.failed = @ \cup {k.at}], "unavailable")]
NextProviderAgain(c, k) ==
    \E i \in k.avail :
       /\ First(i, k.avail)
       /\ call' = [call EXCEPT ![c] = [k EXCEPT !.pc = "request", !.at = i,
                                               !.live = 0]]

(* The attempt at k.at raised: the next available provider, or the end.    *)
(* A cost the failed attempt had reported is dropped, as is a cancelled    *)
(* stream's.                                                               *)
NextProvider(c, k) ==
    LET rest == {i \in k.avail : i > k.at}
        dropped == [k EXCEPT !.failed = @ \cup {k.at}, !.live = 0]
    IN  \/ \E i \in rest :
              /\ First(i, rest)
              /\ call' = [call EXCEPT ![c] =
                    [dropped EXCEPT !.pc = "request", !.at = i]]
        \/ /\ rest = {}
           /\ call' = [call EXCEPT ![c] = Finish(dropped, "unavailable")]

(* add_spend and the result.                                               *)
Book(c, cost) ==
    /\ spend' = [spend EXCEPT ![day][call[c].role] = @ + cost]
    /\ call' = [call EXCEPT ![c] = Finish(@, "ok")]
    /\ UNCHANGED <<day, cache>>

-----------------------------------------------------------------------------
(* Entering complete or stream_complete.                                   *)

EndEarly(c, kind, r, why) ==
    /\ call' = [call EXCEPT ![c] =
          Finish([Fresh EXCEPT !.kind = kind, !.role = r], why)]
    /\ UNCHANGED <<day, spend, cache>>

(* complete(role="synthesis", tools=[...]): SynthesisToolsDisabled.        *)
RefuseTools(c) ==
    /\ Idle(c)
    /\ EndEarly(c, "complete", Synthesis, "tools_disabled")

(* _ensure_budget raises.                                                  *)
RefuseBudget(c, kind, r) ==
    /\ Idle(c)
    /\ spend[day][r] >= Budget
    /\ EndEarly(c, kind, r, "budget_exceeded")

(* The input is over the role's max_input_tokens.                          *)
RefuseInput(c, kind, r) ==
    /\ Idle(c)
    /\ spend[day][r] < Budget
    /\ EndEarly(c, kind, r, "input_too_large")

(* Mutant: no _ensure_budget.                                              *)
AdmitUnchecked(c, kind, r) ==
    /\ Idle(c)
    /\ Resolve(c, [Fresh EXCEPT !.kind = kind, !.role = r], 1, cache)
    /\ UNCHANGED <<day, spend, cache>>

Admit(c, kind, r) ==
    /\ Idle(c)
    /\ spend[day][r] < Budget
    /\ Resolve(c, [Fresh EXCEPT !.kind = kind, !.role = r], 1, cache)
    /\ UNCHANGED <<day, spend, cache>>

(* _lmstudio_status stores the probe's answer; whatever another call       *)
(* stored meanwhile is overwritten.                                        *)
ProbeAnswer(c, status) ==
    LET k == call[c]
        ca == [cache EXCEPT ![Chain[k.role][k.at]] = status]
        known == IF status = "up" THEN k.avail \cup {k.at} ELSE k.avail
    IN  /\ k.pc = "probe"
        /\ cache' = ca
        /\ Resolve(c, [k EXCEPT !.avail = known], k.at + 1, ca)
        /\ UNCHANGED <<day, spend>>

(* /models answers something that is not JSON: the exception is not an     *)
(* httpx.HTTPError and leaves complete.                                    *)
ProbeCrash(c) ==
    /\ call[c].pc = "probe"
    /\ call' = [call EXCEPT ![c] = Finish(@, "crashed")]
    /\ UNCHANGED <<day, spend, cache>>

-----------------------------------------------------------------------------
(* The body of the provider loop.                                          *)

(* acompletion raises, answers with the wrong type, or breaks off a        *)
(* stream: any Exception moves on to the next provider.                    *)
ProviderFails(c) ==
    /\ call[c].pc \in {"request", "repair", "stream"}
    /\ NextProvider(c, call[c])
    /\ UNCHANGED <<day, spend, cache>>

(* complete: a response whose tool calls parse.                            *)
Answer(c, cost) ==
    /\ call[c].pc = "request"
    /\ call[c].kind = "complete"
    /\ Book(c, cost)

(* complete: a malformed tool call; the same provider is asked once more   *)
(* and the cost of this first response is not kept.                        *)
Malformed(c) ==
    /\ call[c].pc = "request"
    /\ call[c].kind = "complete"
    /\ call' = [call EXCEPT ![c].pc = "repair"]
    /\ UNCHANGED <<day, spend, cache>>

(* The second response ends the call, well formed or not (a response still *)
(* malformed becomes finish_reason "error" without tool calls).            *)
Repaired(c, cost) ==
    /\ call[c].pc = "repair"
    /\ Book(c, cost)

(* stream_complete: the provider opened the stream.                        *)
OpenStream(c) ==
    /\ call[c].pc = "request"
    /\ call[c].kind = "stream"
    /\ call' = [call EXCEPT ![c].pc = "stream"]
    /\ UNCHANGED <<day, spend, cache>>

(* A chunk is yielded; _response_cost, when present, replaces cost_usd.    *)
Chunk(c, cost) ==
    /\ call[c].pc = "stream"
    /\ call' = [call EXCEPT ![c].live = cost]
    /\ UNCHANGED <<day, spend, cache>>

(* The stream is exhausted: only now is its cost booked.                   *)
StreamEnd(c) ==
    /\ call[c].pc = "stream"
    /\ Book(c, call[c].live)

-----------------------------------------------------------------------------
(* The caller's task is cancelled, or its stream closed early: neither     *)
(* CancelledError nor GeneratorExit is an Exception.                       *)
Cancel(c) ==
    /\ ~Idle(c)
    /\ call' = [call EXCEPT ![c] = Finish(@, "cancelled")]
    /\ UNCHANGED <<day, spend, cache>>

Midnight ==
    /\ UNCHANGED <<cache, call>>
    /\ Ledger!Midnight

(* The process restarts with a new client.  main.py passes no path, so the *)
(* shipped ledger is ":memory:" (Durable is FALSE); the tests pass a file. *)
Restart ==
    /\ spend' = IF Durable THEN spend ELSE Ledger!EmptyLedger
    /\ cache' = [m \in Local |-> "unknown"]
    /\ call' = [c \in Callers |-> Fresh]
    /\ UNCHANGED day

Enter(c) ==
    \/ RefuseTools(c)
    \/ \E kind \in Kinds, r \in Roles :
          RefuseBudget(c, kind, r) \/ RefuseInput(c, kind, r) \/ Admit(c, kind, r)

(* What the world answers to a suspended call; a stream's chunks aside,    *)
(* each answer brings the call closer to its end.                          *)
Reply(c) ==
    \/ \E status \in {"up", "down"} : ProbeAnswer(c, status)
    \/ ProbeCrash(c)
    \/ ProviderFails(c)
    \/ \E cost \in Costs : Answer(c, cost) \/ Repaired(c, cost)
    \/ Malformed(c)
    \/ OpenStream(c)
    \/ StreamEnd(c)

Next ==
    \/ \E c \in Callers :
          \/ Enter(c)
          \/ Reply(c)
          \/ \E cost \in Costs : Chunk(c, cost)
          \/ Cancel(c)
    \/ Midnight
    \/ Restart

Spec == Init /\ [][Next]_vars

(* Probes time out after 2 s and LiteLLM bounds a request, so every await  *)
(* is answered; a stream does not deliver chunks forever.                  *)
FairSpec == Spec /\ \A c \in Callers : WF_vars(Reply(c))
-----------------------------------------------------------------------------
(* Failover is complete and in order: while a provider is being asked, and *)
(* when it has answered, the providers that failed are exactly the         *)
(* available ones before it in the chain; LLMUnavailable means that every  *)
(* available provider was asked and failed, whatever concurrent calls did  *)
(* to the cache.                                                           *)
FailoverInOrder ==
    \A c \in Callers :
        LET k == call[c]
        IN  /\ k.pc \in {"request", "repair", "stream"} \/ k.out = "ok" =>
                  /\ k.at \in k.avail
                  /\ k.failed = {i \in k.avail : i < k.at}
            /\ k.out = "unavailable" => k.failed = k.avail

(* A provider joins the list a call walks only if it is usable at that     *)
(* moment: its API key is configured, or the latest probe of the local     *)
(* model, of this call or of a concurrent one, said "up".                  *)
Joined(c) == call'[c].avail \ (IF Idle(c) THEN {} ELSE call[c].avail)
AskedOnlyIfUsable ==
    [][\A c \in Callers : call'[c] # call[c] => \A i \in Joined(c) :
          LET m == Chain[call'[c].role][i]
          IN  m \in Configured \/ (m \in Local /\ cache'[m] = "up")]_vars

(* The gateway implements the daily budget: every booking is made by an    *)
(* admitted call, once, on the row of the day it is made, and a call is    *)
(* admitted only below the budget.                                         *)
LedgerSpec == Ledger!Spec

(* Every call ends, with a result or a refusal, however its probes,        *)
(* requests, repairs and streams are answered and whatever other calls do. *)
CallsEnd == \A c \in Callers : ~Idle(c) ~> Idle(c)

(* "Hard cap (100%): all subsequent calls refused" (docs/specs/05-llm.md): *)
(* once a role has spent the budget, it stays spent until midnight.  The   *)
(* shipped ledger does not keep this across a restart of the process.      *)
HardCapSticks ==
    [][\A r \in Roles :
          spend[day][r] >= Budget /\ day' = day => spend'[day][r] >= Budget]_vars
=============================================================================
