---------------------------- MODULE SearchClient ----------------------------
(***************************************************************************)
(* DefaultSearchClient of nexus/search/client.py over BraveProvider        *)
(* (nexus/search/brave.py) and SearXNG: the cache is asked first, then     *)
(* Brave with its retries, then SearXNG when Brave is disabled, fails or   *)
(* finds too little.  The response is stored before it is returned.        *)
(*                                                                         *)
(* All searches are of one query.  The cache may drop, lose or delay what  *)
(* is stored in it, so it is one bit: whether a response was ever passed   *)
(* to it.  A search without a cache is one whose lookup misses.            *)
(***************************************************************************)
EXTENDS SearXNG

CONSTANT MaxRetries  \* _MAX_429_RETRIES

ASSUME RetryAssumption == MaxRetries \in Nat \ {0}

VARIABLES
    enabled,  \* a Brave key is configured
    cached,   \* a search stored its response
    rq        \* the state of every search of the router

vars == <<sxVars, enabled, cached, rq>>
searxng == <<sxVars, enabled>>

Outcomes == {"none", "ok", "unavailable", "raised"}

RouteType ==
    [pc : {"idle", "get", "brave", "backoff", "searxng", "set"},
     attempt : 0..MaxRetries,              \* of _request_with_retries
     heard : SUBSET {"brave", "searxng"},  \* whose results the search has, or had
     out : Outcomes]

(* Every search, provider and breaker is in a state of its type; in        *)
(* particular, Brave is not asked more than MaxRetries + 1 times.          *)
TypeOK ==
    /\ SXTypeOK
    /\ enabled \in BOOLEAN
    /\ cached \in BOOLEAN
    /\ rq \in [Requests -> RouteType]

NoSearch == [pc |-> "idle", attempt |-> 0, heard |-> {}, out |-> "none"]

Init ==
    /\ SXInit
    /\ enabled \in BOOLEAN
    /\ cached = FALSE
    /\ rq = [r \in Requests |-> NoSearch]

-----------------------------------------------------------------------------
Await(r, pc, heard) ==
    rq' = [rq EXCEPT ![r] = [NoSearch EXCEPT !.pc = pc, !.heard = heard]]
End(r, outcome, heard) ==
    rq' = [rq EXCEPT ![r] = [NoSearch EXCEPT !.out = outcome, !.heard = heard]]

(* Mutant: the augmentation's SearchUnavailable is not caught.             *)
WithoutSearXNGAugment(r, heard) == End(r, "unavailable", heard)

(* SearXNG is unavailable to a search that has heard of these providers:   *)
(* _searxng_only lets the exception through, _augment_with_searxng returns *)
(* Brave's response.                                                       *)
WithoutSearXNG(r, heard) ==
    \/ heard = {} /\ End(r, "unavailable", heard)
    \/ heard # {} /\ Await(r, "set", heard)

(* The call of searxng.search, up to its first await.                      *)
CallSearXNG(r, heard) ==
    \/ Refused(r) /\ WithoutSearXNG(r, heard)
    \/ Begin(r) /\ Await(r, "searxng", heard)

Search(r) ==
    /\ rq[r].pc = "idle"
    /\ Await(r, "get", {})
    /\ UNCHANGED <<searxng, cached>>

(* A write may happen at any time from the call of set on.                 *)
Stored == cached \/ \E r \in Requests : rq[r].pc = "set"

CacheHit(r) ==
    /\ rq[r].pc = "get"
    /\ Stored
    /\ End(r, "ok", {})
    /\ UNCHANGED <<searxng, cached>>

(* Nothing there, expired, or any error of the cache.                      *)
CacheMiss(r) ==
    /\ rq[r].pc = "get"
    /\ \/ enabled /\ Await(r, "brave", {}) /\ UNCHANGED sxVars
       \/ ~enabled /\ CallSearXNG(r, {})
    /\ UNCHANGED <<enabled, cached>>

-----------------------------------------------------------------------------
(* Mutant: off by one.                                                     *)
RetriedInclusive(status, attempt) ==
    \/ status = 429 /\ attempt <= MaxRetries
    \/ status = 500 /\ attempt = 0

(* Statuses other than 200 are 429, 500 for any 5xx, and 400 for the rest. *)
Retried(status, attempt) ==
    \/ status = 429 /\ attempt < MaxRetries
    \/ status = 500 /\ attempt = 0

(* Mutant: only 429s are counted.                                          *)
BraveRetryUncounted(r) ==
    /\ rq[r].pc = "brave"
    /\ \E status \in {429, 500} :
          /\ Retried(status, rq[r].attempt)
          /\ rq' = [rq EXCEPT ![r].pc = "backoff",
                              ![r].attempt = IF status = 429 THEN @ + 1 ELSE @]
    /\ UNCHANGED <<searxng, cached>>

BraveRetry(r) ==
    /\ rq[r].pc = "brave"
    /\ \E status \in {429, 500} :
          /\ Retried(status, rq[r].attempt)
          /\ rq' = [rq EXCEPT ![r].pc = "backoff", ![r].attempt = @ + 1]
    /\ UNCHANGED <<searxng, cached>>

BackoffOver(r) ==
    /\ rq[r].pc = "backoff"
    /\ rq' = [rq EXCEPT ![r].pc = "brave"]
    /\ UNCHANGED <<searxng, cached>>

(* A transport error, or a status that is not retried.                     *)
BraveFails(r) ==
    /\ rq[r].pc = "brave"
    /\ \E status \in {400, 429, 500} : ~Retried(status, rq[r].attempt)
    /\ CallSearXNG(r, {})
    /\ UNCHANGED <<enabled, cached>>

(* Enough results, or a body whose parsing raises.                         *)
BraveAnswers(r) ==
    /\ rq[r].pc = "brave"
    /\ Await(r, "set", {"brave"}) \/ End(r, "raised", {})
    /\ UNCHANGED <<searxng, cached>>

(* Fewer than _MIN_RESULTS_BEFORE_FALLBACK results.                        *)
BraveThin(r) ==
    /\ rq[r].pc = "brave"
    /\ CallSearXNG(r, {"brave"})
    /\ UNCHANGED <<enabled, cached>>

-----------------------------------------------------------------------------
SearXNGWakes(r) == Wake(r) /\ UNCHANGED <<enabled, cached, rq>>

(* The results are returned, or merged behind Brave's.  Rows that do not   *)
(* validate raise, after the breaker was updated; so does a body that is   *)
(* not JSON, which nobody catches, the augmentation included.              *)
SearXNGAnswers(r) ==
    /\ \/ /\ Reply(r)
          /\ \/ Await(r, "set", rq[r].heard \cup {"searxng"})
             \/ End(r, "raised", rq[r].heard)
       \/ TooMany(r) /\ WithoutSearXNG(r, rq[r].heard)
       \/ /\ Fails(r)
          /\ WithoutSearXNG(r, rq[r].heard) \/ End(r, "raised", rq[r].heard)
    /\ UNCHANGED <<enabled, cached>>

SetDone(r) ==
    /\ rq[r].pc = "set"
    /\ End(r, "ok", rq[r].heard)
    /\ cached' = TRUE
    /\ UNCHANGED searxng

(* The caller is cancelled; a write that was begun still happens.          *)
Cancel(r) ==
    /\ rq[r].pc # "idle"
    /\ IF rq[r].pc = "searxng" THEN Drop(r) ELSE UNCHANGED sxVars
    /\ rq' = [rq EXCEPT ![r] = NoSearch]
    /\ cached' = (cached \/ rq[r].pc = "set")
    /\ UNCHANGED enabled

Time == (Tick \/ NewDay) /\ UNCHANGED <<enabled, cached, rq>>

(* What answers an await of r.                                             *)
Progress(r) ==
    \/ CacheHit(r)
    \/ CacheMiss(r)
    \/ BraveRetry(r)
    \/ BackoffOver(r)
    \/ BraveFails(r)
    \/ BraveAnswers(r)
    \/ BraveThin(r)
    \/ SearXNGWakes(r)
    \/ SearXNGAnswers(r)
    \/ SetDone(r)

Next ==
    \/ \E r \in Requests : Search(r) \/ Progress(r) \/ Cancel(r)
    \/ Time

Spec == Init /\ [][Next]_vars

(* Every request has a timeout, cache operations return, time passes.      *)
FairSpec ==
    /\ Spec
    /\ \A r \in Requests : WF_vars(Progress(r))
    /\ WF_vars(Tick /\ UNCHANGED <<enabled, cached, rq>>)

-----------------------------------------------------------------------------
(* "Brave's (thin) results stand" (client.py): once Brave has answered a   *)
(* search, the search keeps these results up to its response and never     *)
(* reports that the providers are unavailable: not when SearXNG fails or   *)
(* answers 429, and not when the breaker refuses it at once.  Two ends are *)
(* outside of this promise: the caller cancels, or SearXNG's body raises   *)
(* something other than SearchUnavailable ("raised"), which loses Brave's  *)
(* results against docs/specs/01-search.md (see the README).               *)
BraveStands ==
    [][\A r \in Requests :
          /\ "brave" \in rq'[r].heard => rq'[r].out # "unavailable"
          /\ "brave" \in rq[r].heard /\ rq[r].pc # "idle" =>
                "brave" \in rq'[r].heard \/ rq'[r] = NoSearch]_vars

(* Every search ends, although it may queue behind others for tokens while *)
(* these are cancelled, and although Brave may refuse every request.       *)
SearchEnds == \A r \in Requests : rq[r].pc # "idle" ~> rq[r].pc = "idle"
=============================================================================
