------------------------------ MODULE HttpApi -------------------------------
(***************************************************************************)
(* The HTTP transport: create_app of nexus/http/app.py and RateLimiter of  *)
(* nexus/http/limits.py.  One process, one event loop: a handler runs from *)
(* one await to the next, so authorization, admission and parsing are one  *)
(* action.  There is one token (the configured one), hence one counter per *)
(* token-keyed map of the limiter.                                         *)
(*                                                                         *)
(* A plain search is answered when orchestrator.search has ended.  A       *)
(* stream is a generator handed to StreamingResponse: the server pulls it, *)
(* and cancels it when the client leaves.  Until its first pull the body   *)
(* of the generator, its finally clause included, does not exist.          *)
(*                                                                         *)
(* Time passes in ticks, Window of which make the 60 seconds of allow.     *)
(* Payloads, retry_after_s and header texts are left out.                  *)
(***************************************************************************)
EXTENDS Integers, FiniteSets

CONSTANTS
    Requests,
    Clients,        \* client addresses
    TokenLimit,     \* token_rate_limit_per_minute
    IpLimit,        \* ip_rate_limit_per_minute
    MaxConcurrent,  \* max_concurrent_per_token
    Window

ASSUME HttpAssumption ==
    /\ IsFiniteSet(Requests)
    /\ TokenLimit \in Nat \ {0}
    /\ IpLimit \in Nat \ {0}
    /\ MaxConcurrent \in Nat \ {0}
    /\ Window \in Nat \ {0}

VARIABLES
    pc,          \* where each request is
    inflight,    \* token_inflight[token]
    tokenCount,  \* token_requests[token]
    ipCount,     \* ip_requests
    tokenAge,    \* ticks since token_reset_at, up to Window
    ipAge,       \* ticks since ip_reset_at, up to Window
    reply,       \* the response sent last, with the terminal event behind it
    lost,        \* history: slots whose generator will never run
    recent       \* history: recent[k] requests were allowed in this tick and
                 \* the k ticks before it

limiter == <<tokenCount, ipCount, tokenAge, ipAge, recent>>
vars == <<pc, inflight, limiter, reply, lost>>

Holding == {"search", "starting", "streaming", "orphaned"}
Errors == {"search_unavailable", "timeout", "budget_exhausted",
           "llm_unavailable"}
(* How orchestrator.search ends; "cited": an answer with at least one      *)
(* accepted or rejected citation.                                          *)
Endings == {"answer", "cited", "raised"} \cup Errors
Statuses == {200, 401, 413, 422, 429, 500, 503, 504}
Replies == [ending : Endings \cup {"none"}, status : Statuses \cup {0},
            body : {"none", "json", "plain", "stream"}]
Back == 0..(Window - 1)

TypeOK ==
    /\ pc \in [Requests -> Holding \cup {"idle"}]
    /\ inflight \in Nat
    /\ tokenCount \in 0..TokenLimit
    /\ ipCount \in [Clients -> 0..IpLimit]
    /\ tokenAge \in 0..Window
    /\ ipAge \in 0..Window
    /\ reply \in Replies
    /\ lost \in Nat
    /\ recent \in [Back -> Nat]

(* The two reset times are read one after the other.                       *)
Init ==
    /\ pc = [r \in Requests |-> "idle"]
    /\ inflight = 0
    /\ tokenCount = 0
    /\ ipCount = [ip \in Clients |-> 0]
    /\ tokenAge \in {0, 1}
    /\ ipAge = 0
    /\ reply = [ending |-> "none", status |-> 0, body |-> "none"]
    /\ lost = 0
    /\ recent = [k \in Back |-> 0]

-----------------------------------------------------------------------------
(* RateLimiter                                                             *)

(* Mutant: seconds compared with milliseconds.                             *)
TokenExpiredMillis == tokenAge >= 1
(* The counters allow compares, after it cleared an expired window.        *)
TokenExpired == tokenAge >= Window
IpExpired == ipAge >= Window
TokenUsed == IF TokenExpired THEN 0 ELSE tokenCount
IpUsed == IF IpExpired THEN [ip \in Clients |-> 0] ELSE ipCount

(* Mutant: one request too many.                                           *)
AllowedInclusive(ip) == TokenUsed <= TokenLimit /\ IpUsed[ip] < IpLimit
Allowed(ip) == TokenUsed < TokenLimit /\ IpUsed[ip] < IpLimit

(* Mutant: every request, refused ones included, starts the window anew.   *)
ResetWindowsAlways ==
    /\ tokenAge' = 0
    /\ ipAge' = 0
ResetWindows ==
    /\ tokenAge' = IF TokenExpired THEN 0 ELSE tokenAge
    /\ ipAge' = IF IpExpired THEN 0 ELSE ipAge

Allow(ip) ==
    /\ Allowed(ip)
    /\ tokenCount' = TokenUsed + 1
    /\ ipCount' = [IpUsed EXCEPT ![ip] = @ + 1]
    /\ recent' = [k \in Back |-> recent[k] + 1]
    /\ ResetWindows

Refuse(ip) ==
    /\ ~Allowed(ip)
    /\ tokenCount' = TokenUsed
    /\ ipCount' = IpUsed
    /\ ResetWindows
    /\ UNCHANGED recent

FreeSlot == inflight < MaxConcurrent
Released(n) == IF n <= 1 THEN 0 ELSE n - 1

Respond(ending, status, body) ==
    reply' = [ending |-> ending, status |-> status, body |-> body]
-----------------------------------------------------------------------------
(* The middleware and the part of a handler before its first await.        *)

BodyTooLarge(r) ==
    /\ pc[r] = "idle"
    /\ Respond("none", 413, "json")
    /\ UNCHANGED <<pc, inflight, limiter, lost>>

(* compare_digest raises TypeError for a token that is not ASCII.           *)
Unauthorized(r) ==
    /\ pc[r] = "idle"
    /\ Respond("none", 401, "json") \/ Respond("none", 500, "plain")
    /\ UNCHANGED <<pc, inflight, limiter, lost>>

RateLimited(r, ip) ==
    /\ pc[r] = "idle"
    /\ Refuse(ip)
    /\ Respond("none", 429, "json")
    /\ UNCHANGED <<pc, inflight, lost>>

Status(r, ip) ==
    /\ pc[r] = "idle"
    /\ Allow(ip)
    /\ Respond("none", 200, "json")
    /\ UNCHANGED <<pc, inflight, lost>>

TooManyInFlight(r, ip) ==
    /\ pc[r] = "idle"
    /\ Allow(ip)
    /\ ~FreeSlot
    /\ Respond("none", 429, "json")
    /\ UNCHANGED <<pc, inflight, lost>>

(* Mutant: the slot is released by the handler and once more on the way    *)
(* out.                                                                    *)
InvalidReleasesTwice(r, ip) ==
    /\ pc[r] = "idle"
    /\ Allow(ip)
    /\ FreeSlot
    /\ inflight' = Released(Released(inflight + 1))
    /\ Respond("none", 422, "json") \/ Respond("none", 500, "plain")
    /\ UNCHANGED <<pc, lost>>

(* Taking the slot, failing to parse or validate, releasing it.  A body    *)
(* that is not UTF-8 is no JSONDecodeError: nobody catches it.             *)
Invalid(r, ip) ==
    /\ pc[r] = "idle"
    /\ Allow(ip)
    /\ FreeSlot
    /\ inflight' = Released(inflight + 1)
    /\ Respond("none", 422, "json") \/ Respond("none", 500, "plain")
    /\ UNCHANGED <<pc, lost>>

StartSearch(r, ip) ==
    /\ pc[r] = "idle"
    /\ Allow(ip)
    /\ FreeSlot
    /\ inflight' = inflight + 1
    /\ pc' = [pc EXCEPT ![r] = "search"]
    /\ UNCHANGED <<reply, lost>>

StartStream(r, ip) ==
    /\ pc[r] = "idle"
    /\ Allow(ip)
    /\ FreeSlot
    /\ inflight' = inflight + 1
    /\ pc' = [pc EXCEPT ![r] = "starting"]
    /\ UNCHANGED <<reply, lost>>

-----------------------------------------------------------------------------
Release(r) ==
    /\ inflight' = Released(inflight)
    /\ pc' = [pc EXCEPT ![r] = "idle"]
    /\ UNCHANGED <<limiter, lost>>

(* JSONResponse renders the payload with json.dumps, which has no rule for *)
(* the citation objects of an answer.                                      *)
RespondTo(ending) ==
    CASE ending = "answer" -> Respond(ending, 200, "json")
      [] ending = "timeout" -> Respond(ending, 504, "json")
      [] ending \in Errors \ {"timeout"} -> Respond(ending, 503, "json")
      [] OTHER -> Respond(ending, 500, "plain")

SearchEnds(r) ==
    /\ pc[r] = "search"
    /\ \E ending \in Endings : RespondTo(ending)
    /\ Release(r)

(* The server's first pull, behind the response's headers.                 *)
StreamStarts(r) ==
    /\ pc[r] = "starting"
    /\ pc' = [pc EXCEPT ![r] = "streaming"]
    /\ Respond("none", 200, "stream")
    /\ UNCHANGED <<inflight, limiter, lost>>

StreamEnds(r) ==
    /\ pc[r] = "streaming"
    /\ Release(r)
    /\ UNCHANGED reply

(* The client leaves: cancelled inside orchestrator.search the generator   *)
(* runs its finally clause at once, cancelled at a yield when the event    *)
(* loop closes the abandoned generator, and never if it did not start.     *)
LeaveStream(r) ==
    /\ pc[r] = "streaming"
    /\ \/ Release(r)
       \/ /\ pc' = [pc EXCEPT ![r] = "orphaned"]
          /\ UNCHANGED <<inflight, limiter, lost>>
    /\ UNCHANGED reply

CloseOrphan(r) ==
    /\ pc[r] = "orphaned"
    /\ Release(r)
    /\ UNCHANGED reply

LeaveUnstarted(r) ==
    /\ pc[r] = "starting"
    /\ pc' = [pc EXCEPT ![r] = "idle"]
    /\ lost' = lost + 1
    /\ UNCHANGED <<inflight, limiter, reply>>

Older(n) == IF n < Window THEN n + 1 ELSE n
Tick ==
    /\ tokenAge' = Older(tokenAge)
    /\ ipAge' = Older(ipAge)
    /\ recent' = [k \in Back |-> IF k = 0 THEN 0 ELSE recent[k - 1]]
    /\ UNCHANGED <<pc, inflight, tokenCount, ipCount, reply, lost>>

Next ==
    \/ \E r \in Requests :
          \/ BodyTooLarge(r)
          \/ Unauthorized(r)
          \/ \E ip \in Clients :
                \/ RateLimited(r, ip)
                \/ Status(r, ip)
                \/ TooManyInFlight(r, ip)
                \/ Invalid(r, ip)
                \/ StartSearch(r, ip)
                \/ StartStream(r, ip)
          \/ SearchEnds(r)
          \/ StreamStarts(r)
          \/ StreamEnds(r)
          \/ LeaveStream(r)
          \/ CloseOrphan(r)
          \/ LeaveUnstarted(r)
    \/ Tick

Spec == Init /\ [][Next]_vars

(* Time passes.                                                            *)
FairSpec == Spec /\ WF_vars(Tick)

-----------------------------------------------------------------------------
Holders == {r \in Requests : pc[r] \in Holding}

(* max_concurrent_per_token bounds the requests in the orchestrator, and   *)
(* no slot is given back twice: the counter is exactly the requests that   *)
(* hold a slot and the slots lost.                                         *)
SlotsCounted ==
    /\ inflight = Cardinality(Holders) + lost
    /\ inflight <= MaxConcurrent

(* The limiter's windows: no minute, wherever it starts, admits more than  *)
(* twice the limit.                                                        *)
MinuteBound == recent[Window - 1] <= 2 * TokenLimit

(* No client is refused for good: however many requests are refused in     *)
(* between, its turn comes when the window expires.                        *)
RefusalEnds == \A ip \in Clients : []<>Allowed(ip)

(* "5 concurrent in-flight; over: 429": a request is refused for its       *)
(* concurrency only if so many requests are in flight.                     *)
SlotsAreLive == inflight = Cardinality(Holders)
=============================================================================
