# TLA+ models and proofs for nexus-agentic-search

Specifications of the concurrent core of `nexus/`, checked with TLC on small
instances and, where a theorem is listed below, proved with TLAPS for every
value of the constants. Every definition is translated from the Python source;
`PROJECT.json` maps it to its lines. Paths below are relative to the repository.

## 1. The system

A request enters over HTTP or MCP, is run by the orchestrator's pipeline
(search → rank → crawl → synthesize → validate) as an async generator of stage
events, and leaves as one JSON answer or as a stream of events. Everything runs
in one process and on one event loop: two steps interleave only where the code
awaits, and everything between two awaits is atomic. (Threads appear in one
place, the disk cache.)

| Component | State it keeps | Operations | What makes it correct |
|---|---|---|---|
| LLM gateway `llm/client.py` | LM Studio availability cache; the calls in flight | `complete`, `stream_complete` | fails over in chain order, asks no provider twice or unusable, always ends |
| Daily ledger `llm/budget.py` | spend per (UTC date, role), SQLite | `get_spend`, `add_spend` | bounded overshoot, append-only, each admitted call booked at most once |
| Orchestrator `orchestrator/service.py` | a suspended generator per request, its crawl tasks, the clock it started | `search` | stage contract, one span per terminal event, no stray tasks, grounded answers, the wall clock |
| HTTP API `http/app.py`, `limits.py`, `auth.py` | rate windows per token and per address, slots per token | `/v1/search`, `/v1/search/stream`, `/v1/status`, `/v1/health` | slots given back exactly once, bounded rate, no starvation, the right status |
| MCP transport `mcp/server.py` | `progress_events`, status counters | `handle_call`, resources | per-call progress, counters |
| Search router `search/client.py` | a result cache | `search` | Brave first, never empty to mask a failure |
| Brave provider `search/brave.py` | none | `search` | bounded retries |
| SearXNG provider `search/searxng.py` | breaker (`disabled_until`, trips today), token buckets | `search` | tripped engines are not asked, QPS cap |
| Rerank `rerank/` | none | `rerank` | top-k, unique, per-domain cap, nothing lost without a better one in its place |
| Crawl client `crawl/client.py` | document cache, HTTP client | `fetch`, `aclose` | every hop guarded, ≤ 5 redirects, only ok documents cached, every fetch ends |
| Robots and rate limit `crawl/robots.py`, `rate_limit.py` | parsers per host with an expiry; a token bucket per domain | `allowed`, `try_acquire` | a fresh verdict, a bounded rate |
| URL guard `crawl/ssrf.py` | none | `resolve_pinned` | a pure function |
| Extraction and envelope `crawl/extract.py`, `envelope.py` | stack of suppressing elements | `extract_markdown` | hidden content never reaches the model, other content does |
| Citations `citations/` | none | `validate_citations` | every citation classified once, offsets on the original bytes |
| Disk cache `cache/` | one store per namespace | `get`, `set`, `incr`, `close` | best-effort, versioned, expiring |
| Lifecycle, self test, config, telemetry, logging | process-wide | `amain` | fail closed, orderly shutdown |

Interactions. HTTP and MCP consume `Orchestrator.search` with `async for`; a
consumer that leaves closes the generator at its yield or cancels its await. The
orchestrator calls the search client once, `CrawlClient.fetch` in one task per
kept row under a semaphore, and `LiteLLMClient.complete` once. Gateway calls
share the ledger and the probe cache; crawls share the rate limiter, the robots
cache and the document cache; searches share the breaker and the buckets.

Hard behaviours: the check of the budget and its booking are separated by every
await of a call; concurrent probes overwrite each other's cache entry; the wall
clock races the crawls and the model; `gather` leaves tasks behind when one
raises; `search` lets exceptions through; a generator that never started has no
`finally` to run; fixed windows meet at a boundary; restarts lose what is in
memory; a cache write that timed out happens all the same, later; robots
refreshes of one host overwrite each other; calls of one MCP transport share a
list; offsets into a text must survive its normalisation. `PROJECT.json` lists
each one as a hazard at its line.

## 2. Modules

| Module | Models | Proofs |
|---|---|---|
| `DailyBudget` | abstract: admission and booking on the ledger | `DailyBudgetProofs` |
| `LLMGateway`, `MCLLMGateway` | `LiteLLMClient`; implements `DailyBudget` | `LLMGatewayProofs` |
| `AnswerStream` | abstract: the stage contract of one stream | |
| `Orchestrator` | `Orchestrator.search`; implements `AnswerStream` | `OrchestratorProofs` |
| `HttpApi` | `create_app` and `RateLimiter` | `HttpApiProofs` |
| `SearXNG` | `SearXNGProvider`: breaker, token buckets, requests | |
| `SearchClient` | `DefaultSearchClient` and `BraveProvider` over `SearXNG` | `SearchClientProofs` |
| `McpTransport` | `MCPTransport.handle_call`, composed with `AnswerStream` | `McpTransportProofs` |
| `DiskCache` | `DiskCacheBackend`, one namespace and its file | |
| `CrawlClient` | `CrawlClient`, `RobotsCache`, the token bucket; over `DiskCache` | `CrawlClientProofs` |
| `SearchResults` | canonical URLs, parsed items, the merge of providers, as functions | |
| `Extract` | `_Extractor`: what suppresses text | |
| `Rerank` | `rerank` as a function, and what it must satisfy | |
| `Citations` | `validate_citations` and `normalize` as functions | |
| `Grounding` | runs `SearchResults`, `Rerank`, `Extract` and `Citations` over small inputs | `GroundingProofs` |

Definitions called "Mutant" in a comment are plausible bugs of the definition
that follows them. No specification uses them; they show that a property can
fail (`PROJECT.json`, "mutants").

### DailyBudget
`spend[date][role]` is the table `llm_daily_budget`, `holder[c]` the role of
caller `c`'s admitted call. `Admit` is `_ensure_budget`, `AddSpend` the upsert
of `add_spend` on the row of the current date, `Abandon` a call that ends
without booking, `Midnight` the date, `Restart` a new process; `Durable` says
whether the ledger is a file or the default `":memory:"`. Costs are integers in
units of the smallest cost.

### LLMGateway
`call[c]` is the suspended coroutine of caller `c`: where it awaits (`probe`,
`request`, `repair`, `stream`), the chain position, the providers found
available so far, those that failed, and how the last call ended. `cache` is
`_lmstudio_cache`. `Admit` runs from the entry of a call to its first await;
`Resolve` is the loop of `_providers_for_role`, which suspends at every local
model not in the cache; `ProbeAnswer` stores the answer and goes on;
`NextProvider` is `except Exception` in the provider loop; `Malformed` and
`Repaired` are `_repair_tool_calls_if_needed`; `Chunk` and `StreamEnd` are the
body of `stream_complete`; `Cancel` is the caller's cancellation, which no
`except Exception` sees; `ProbeCrash` is a `/models` response that is not JSON.
Which models have an API key is the constant `Configured`: the environment does
not change while the process runs. The flag `fallback_used` is left out: nothing
in the gateway depends on it, and it does not mean what the documents say (see
the divergences).

### Orchestrator and AnswerStream
`req[q].pc` is the yield or the await at which the generator of request `q` is
suspended, or how it ended; `crawl[q][i]` the task of row `i`; `late[q]` whether
`wall_clock_s` have passed; `spans[q]` the recorded spans. Actions of `Pull` run
from a pull of the consumer to the next suspension; the others are what an await
answers. `Timeout` is `wait_for`, `Close` a consumer that leaves, `TaskRaise` an
exception of `fetch`. `Raise` marks every place where an exception that `search`
does not catch can leave it: the search (only `SearchUnavailable` is caught),
`_fit_messages` (`InputTooLarge`), the model (any exception of the gateway other
than the two caught), `_parse_completion` (JSON of another shape) and
`validate_citations` (a quote that is no valid Unicode).

`AnswerStream` is what a consumer may observe: stages in order, at most `kept`
pages, a synthesis only after a page, nothing after `answer` or `error`; it may
stop anywhere. `Orchestrator!StreamSpec` is the refinement, with the last event,
the ranked rows and the page count as the abstract state.

### HttpApi
One action runs from the request to the first await of its handler:
authorization, `allow`, `acquire_concurrency`, parsing and validation. `pc[r]`
says where a request holds a slot: in a plain search, in a stream response whose
generator has not started, in a running stream, or in an abandoned generator
that the event loop has not closed yet. Time passes in ticks, `Window` of them
per minute; the ages of the two windows stop counting at `Window`. `recent`
and `lost` are history variables. The server side of a stream (`StreamStarts`,
`LeaveStream`, `LeaveUnstarted`, `CloseOrphan`) is Starlette's: it pulls the
generator after sending the headers and cancels it when the client leaves.

### SearXNG and SearchClient
`SearXNG` has the state of the provider and of every search in it. `off[e]` is
the time until `_disabled_until`, `trips[e]` the trip count of the day, which
stops where the cool-down reaches its maximum (`Cooldown`, the doubling of
`record_trip`); `ready[e]` is the time until the
bucket has its one token and `queue[e]` the searches in `acquire`, the first of
them asleep and the others behind the lock. `TakeTokens` is the loop of `search`
over the buckets up to the first one that suspends it; `Wake` is the end of a
sleep, and goes on with that loop; `Reply`, `TooMany` and `Fails` are what the
request comes back with. `Drop` is a cancellation: the search leaves the queue
and its tokens are gone. `NewDay` clears the counts and leaves the cool-downs,
as `record_trip` does. `longest` is a history variable.

`SearchClient` extends it: `rq[r].pc` is the await of a search in the router or in
Brave, and `searxng` while it is in the provider, whose actions it then takes.
`CallSearXNG` runs from the call of `searxng.search` to its first await, or to its
refusal; `WithoutSearXNG` is the difference between `_searxng_only`, which lets
`SearchUnavailable` through, and the augmentation, which returns what Brave found.
`heard` are the providers whose results a search has, kept to its end. The result
cache is one bit, whether a response was ever passed to it: a lookup may miss for
any reason, and may hit once a write was begun. Results are abstracted to too few,
enough, or unusable.

### McpTransport
`handle_call` consumes one answer stream per call; the stream is `AnswerStream`,
the abstract specification that `Orchestrator` is shown to implement, so what
holds here holds for any orchestrator that keeps the stage contract. `call[c].pc`
is `pull` where the call awaits the next event and `report` where it awaits
`report_progress`. `listed[c]` counts the entries of call `c` in the list
`progress_events`, `requests` and `cost` are `StatusState`. `Answer` is the end of
the loop with its truncation and validation, `Broken` a generator that stops or
raises and a report that raises. `earlier` is a history variable.

### DiskCache and CrawlClient
`DiskCache` has the threads: `reader[c]` is a `get` that waits for its thread, or
what the thread found and the loop has not judged yet; `writer[c]` the thread of a
`set`, which outlives the 0.1 s its caller waits for it. An envelope's `age` runs
from `set`, `left` is diskcache's own expiry, counted from when the thread wrote.
`Evict` is diskcache's culling, `Close` and `Reopen` are `shutdown_cache` and the
next process on the same file, perhaps with another schema version. `since` is a
history variable.

`CrawlClient` extends it with the fetches: `fetch[c].pc` is the await of a fetch, in
the cache, in a robots refresh, in a request, or behind its own write. `Miss` runs
from a miss over the token and the robots entry to the first request; `Connect`
is `resolve_pinned`, whose verdict may differ every time, and the next request.
`RobotsDone` writes the entry with the `now` of the start of the refresh and
judges by it. `CloseClient`,
`ClientGone` and `CloseCache` are the order of shutdown in `main.py`; between the
first two a fetch is still handed the client being closed, and raises. The outcome
`raised` stands for every exception that leaves `fetch`, each where it arises: a
URL httpx refuses (`Connect`, `Redirect`), a closed client, a cached document that
does not validate (`Hit`), a robots.txt whose parsing fails (`RobotsDone`), the
extractor (`Finalize`).
The keys are pages of one site, which shares nothing with other sites. `grants` and
`read` are history variables; `cut` tells that a fetch holds a closed client.

### SearchResults, Rerank, Extract, Citations, Grounding
`SearchResults` has the data that `SearchClient` abstracts to too few or enough:
`Canonical` is `canonicalize` on the parts of a URL, `BraveParsed` and
`SearXNGParsed` keep the items, `Routed` combines what the providers returned.

`Extract` receives what `html.parser` delivers of a well-formed document: `dom` is
the nesting of the document, `suppress` the extractor's stack. The property
compares them at every point where text may stand.

`Reranked` composes the steps of `rerank`, each one a fold over the list, in the
code's order. The scorer keeps the logit: the sigmoid over it is increasing.

`Normalized` gives every character of the normalised text the span of the original
it stands for. `NfcSpans` is the code's use of `difflib.SequenceMatcher`, whose
longest-match recursion is modelled as it is, since the offsets depend on which of
several blocks it takes. The texts are over letters, their capitals, composed and
decomposed accents and white space, with UTF-8 widths. `Reason` is the chain of
tests, in the code's order; `Judged` and `Cited` are the loop, `Sorted` its end.

`Grounding` has no behaviour of its own: a state is an input and what was made
of it. Its initial states enumerate the inputs.

## 3. Runs

| Run | Instance | Shows |
|---|---|---|
| `DailyBudget` | 3 callers, 2 roles, 2 days, budget 3, costs 0..2, durable | the overshoot bound with several callers in flight on one balance, bookings after midnight, restarts |
| `Gateway` | 2 callers, 2 roles with chains of 3 sharing the local model and the last, 1 cloud model without a key, 2 days, budget 1, the ledger in memory as `main.py` has it, fairness | failover, the shared probe cache, refinement of `DailyBudget`, every call ends |
| `Orchestrator` | 2 requests, 2 pages, 1 crawl slot, fairness | stage contract, spans, tasks, grounding, termination |
| `HttpApi` | 3 requests, 2 addresses, token limit 2, address limit 2, 2 slots, windows of 3 ticks, fairness of time | slots, rate, no starvation |
| `SearchClient` | 2 searches, periods 2 and 1, cool-downs of 1 and 2 ticks, 2 retries, with and without Brave, fairness | locks, cool-downs, augmentation, termination |
| `McpTransport` | 2 calls, 2 pages, costs 0 and 1 | per-call progress, the shared list, the status counters |
| `CrawlClient` | 2 fetches of 1 page, TTL of 2 ticks, 2 redirects, a token per 2 ticks, 2 schema versions, fairness | fresh documents, polite connections, termination, through shutdown and restart |
| `Grounding` | texts of 4 characters of 5 kinds, quotes of 2 (3 where they are to be too long), 2 items on 2 documents, 2 items of a provider in 7 spellings of 3 pages, 4 results of 3 sites over 2 words, 4 open elements of 3 tags | the functions, on every such input |
| `GatewayRestart` | as `Gateway`, 1 day, symmetric callers | a divergence, below |
| `OrchestratorRaise` | 1 request, 3 pages, 2 crawl slots | a divergence, below |
| `HttpSlots` | as `HttpApi` with 2 requests and windows of 2 ticks | a divergence, below |
| `CitationOffsets` | as `Grounding`, the citations alone | a divergence, below |

Why the bounds are enough. Two gateway callers are the least that share a
balance and a probe; a chain of a local and two cloud models has a primary that may be
down, a failing middle and a last resort, and in the chain of the other role the
middle is skipped for want of a key; two days have one midnight. Costs
matter only through sums and zero, so 0, 1 (and 2) suffice. Two pages and one
slot have a waiting, a running and a finished task at once; requests of the
orchestrator share nothing, and two of them check exactly that. The limiter's
limits are reached, and its window wraps, within a few steps; three ticks let a
burst straddle the boundary. Two searches are the least with one behind the lock
of a sleeper, and with a late answer after a trip; two cool-downs are a growing
one and the maximum; two retries tell the shared attempt counter from two.

Two tool calls are the least where one begins while the other reports. Two
fetches are the least with two refreshes of one host, a write on top of a newer
one and a read of a replaced entry; a TTL and a period of two ticks have a state
strictly between new and expired; two redirects are one and the last. A second
page adds only interleavings (the run passes with it too, and takes ten times as
long). Four characters hold a composition, a repetition of its letter and a run
of white space, in every order; four results hold a rival of the same page, of
the same site and a near-duplicate besides the one they displace; two items of a
provider and two enough results have thin, sufficient and repeated answers; three open
elements nest a plain one of a hidden one's name inside it, and one more around.

`Orchestrator`, `McpTransport` and `Grounding` (with the runs on their modules) do
not check deadlock: a request or call that ended, or a function that returned,
does nothing more.

### Fairness
* `LLMGateway!FairSpec`: every suspended call is answered. Probes time out after
  2 s (`llm/client.py:426`), LiteLLM bounds a request, and a stream does not
  deliver chunks for ever (`Chunk` is not part of `Reply`).
* `Orchestrator!FairSpec`: the consumer pulls, time passes, timers fire, finished
  gathers are delivered, and the search is answered, because its providers have
  timeouts and bounded retries. Crawls and models may hang: the wall clock, not
  they, must end the request.
* `HttpApi!FairSpec`: time passes.
* `CrawlClient!FairSpec`: what a fetch awaits is answered: a `get` of the cache
  (which waits for its thread without a timeout, `cache/diskcache_backend.py:107`),
  the name resolution, and the requests, which have timeouts
  (`crawl/client.py:167`, `crawl/client.py:228`). Nothing is assumed about the thread
  of a `set`, since its caller waits 0.1 s only, nor about the answers.
* `SearchClient!FairSpec`: time passes and every await of a search is answered: the
  requests have timeouts (`search/brave.py:29`, `search/searxng.py:34`), the cache
  bounds its writes. Nothing is assumed about what the answer is, nor that a
  search is ever cancelled.

### Divergences
Each of these runs is expected to find a counterexample; `PROJECT.json` quotes
the sentence it contradicts.

* `OrchestratorRaise`: a stream can end without `answer` or `error`. In the
  counterexample the search raises something other than `SearchUnavailable` (a
  body of SearXNG that is not JSON, for one, `search/searxng.py:178`), which nothing
  catches (`orchestrator/service.py:74`). The model has the same hole in the crawl,
  in `_fit_messages`, in the model call and in what is made of its completion.
* `GatewayRestart`: a spent budget is open again after a restart, because `main.py:103`
  passes no path and the ledger is in memory; `docs/specs/05-llm.md:111` has all
  subsequent calls refused.
* `HttpSlots`: a stream whose client leaves before the first event is pulled
  keeps its slot until the process restarts.
* `CitationOffsets`: in text that is not in composed form, a valid citation's bytes
  may be others than those that were quoted. The spans come from a longest-match
  diff of the text with its composed form, which may pair a letter with another
  occurrence of it: in `a`, accent, `a` the quote `á` is cut out as `a`. In longer
  texts the slice may even be empty, since the characters that the diff takes to be
  inserted have no span: in `a`, `a`, accent, `a`, accent, `a`, `á` (beyond the bound
  of the run) the quote `áa` has `byte_start = byte_end = 10`, though the documents
  promise `byte_start < byte_end` (`docs/specs/04-citations.md`). Composed text is
  free of both, which `CitationsSliced` states.

Seen while modelling and left without a run:

* Gateway. `fallback_used` is false when the primary was skipped as unavailable
  (`llm/client.py:130`); `docs/specs/06-orchestrator.md:64` has `degraded` "true if
  any fallback was used", and no property of the models is about the flag. The cost
  of a response that is repaired, and of a stream that breaks off or is closed, is
  never booked (`llm/client.py:119`).
* Orchestrator. The search is not under the wall clock
  (`orchestrator/service.py:74`); a timeout of the crawl stage discards the pages
  that were already fetched (`orchestrator/service.py:142`), while
  `docs/specs/06-orchestrator.md:87` goes on with "whatever pages succeeded" and `:94`
  has a best-effort answer if synthesis is reachable.
* HTTP. `JSONResponse` cannot render the citation objects of an answer, so the
  plain search responds 500 to every answer that has any (`http/app.py:107`). The
  limiter is a fixed window and not a token bucket, so a minute may admit twice
  the limit, which `MinuteBound` states (`http/limits.py:18`). Exceptions other
  than `HTTPException` are answered in plain text (`http/app.py:35`).
* MCP. The counters of the day never return to zero (`mcp/server.py:47`);
  `answer_text_max_bytes` is compared with characters (`mcp/schemas.py:23`).
* Search. The engines of a search are read before it waits for their buckets, so one
  that trips meanwhile is asked nevertheless (`search/searxng.py:131`). The path of
  a URL is not percent-decoded (`search/canonical.py:42`; `docs/specs/01-search.md`
  has it so), so that two spellings of a page may both be returned. A 5xx that
  follows a 429 is not retried (`search/brave.py:110`; the documents promise one
  retry). UTC midnight resets the count of trips but no cool-down
  (`search/searxng.py:59`). A body of SearXNG that is not JSON
  (`search/searxng.py:178`), or an item that makes no `Result`
  (`search/searxng.py:223`), raises something other than `SearchUnavailable` and
  loses the results Brave had (`search/client.py:122`), while
  `docs/specs/01-search.md:149-151` has them returned and the offending rows
  dropped: `BraveStands` excepts this end by name, and the exception is one of those
  that `OrchestratorRaise` finds. And the duckduckgo bucket has a burst of one, not
  two (`search/searxng.py:121`).
* Crawl. A name that does not resolve raises `OSError` out of `fetch`
  (`crawl/client.py:129`), and through `gather` out of the request. So do a
  malformed `Location` or URL, whose `InvalidURL` is no `HTTPError`
  (`crawl/client.py:146`, `:163`), an exception of the extractor
  (`crawl/client.py:199`; `docs/specs/03-crawl.md:122` has `extraction_failed`), a
  cached document that no longer validates (`crawl/client.py:97`) and a robots.txt
  whose parsing raises (`crawl/robots.py:88`). `crawl_delay` (`crawl/robots.py:65`)
  has no caller, though `docs/specs/03-crawl.md:76` has the directive respected;
  `Polite` is about the token bucket alone. Redirects are followed without a token
  or robots of their site (`crawl/client.py:146`). A robots fetch that failed is
  kept as an allow for a day (`crawl/robots.py:82`). A fetch that connects during
  `aclose` gets the closing client and raises (`crawl/client.py:242`), one after it
  opens a client nobody closes (`crawl/client.py:235`).
* Cache. `incr`, of which nothing in `nexus/` is a caller, lets every exception
  of the file through, where its comment says `CacheDisabled`
  (`cache/diskcache_backend.py:167`).
* Extraction. A plain element nested in a hidden one of the same name ends the
  suppression early (`crawl/extract.py:83`), and a hidden start tag without an end
  tag suppresses the rest of the page (`crawl/extract.py:75`); `SuppressionExact`
  excuses these two and no other document.
* Citations. The length of a quote is measured before normalisation. Letters whose
  lower case has two characters (both get the letter's span) are not in the
  alphabet of `Citations`.
* Rerank. The cap is on full host names, where the plan says registrable domains
  (`docs/plans/02-rerank-plan.md:62`). A candidate that a later step drops has
  used up its domain's share, which `RankingJustified` allows. `main.py` does not
  wire `rerank`; the orchestrator's own cut is part of `Orchestrator`.

## 4. Proofs

All theorems hold for every value of the constants that satisfies the named
assumption of the module; TLC evaluates these on the runs. What they say beyond the
types of the constants: callers, calls and requests are finite (cardinalities and
sums are taken over them); a 5xx of Brave is retried at least once (the code's
three); there is a page to fetch, "ok" is one of the values a document may have,
there are finitely many words and at least one claim, a provider is asked for a
number of items, and the quotes and documents of the citations lie within the texts
of the instance. Every module but the last has one inductive invariant, `Inv`, with
a lemma for each kind of step.

* **DailyBudgetProofs.** `BudgetTypeCorrect`; `OvershootBounded`: no day of a role
  is charged more than `(Budget - 1) + MaxCost * |Callers|`. `SpendBounded` alone
  is not inductive, since a booking may follow any number of others: the
  invariant `Reserved` (`BookingsReserved`) adds what the calls in flight may
  still book, and that the rows of future days are empty. The argument rests on
  the cardinality of the callers holding a role: admitting adds one, booking
  trades one for at most `MaxCost`. `LedgerAppendOnly` follows from the type
  invariant step by step.
* **LLMGatewayProofs.** `TypeCorrect`; `FailoverCorrect` from the inductive
  invariant `CallsWellFormed`, which also describes calls that still resolve their
  chain: the available providers found so far lie before the one being probed, so
  the first request goes to the least of them and each failure moves the frontier to
  the next. `AskedUsable` is the step-by-step consequence: what a step adds to a
  call's list is configured, or is the model whose probe that same step judged.
  `GatewayImplementsBudget`: the refinement maps a call that is not idle to a
  holder; entering maps to `Admit` (or stutters when no provider is available),
  `Book` to `AddSpend`, other endings to `Abandon`.
* **OrchestratorProofs.** `Inv` is `TypeOK` with `AllConsistent`, one formula per
  request that ties the last event to the place where the generator is suspended
  and says when tasks exist and when their results are final. From it follow
  `TypeCorrect`, `RequestsConsistent`, `SpansMatchTerminals`, `TasksCancelled`,
  `AnswersGrounded` and `ImplementsStream`.
* **HttpApiProofs.** `TypeCorrect`; `ConcurrencyBounded`: the counter is exactly
  the requests that hold a slot plus the lost ones, and never above the limit; the
  cardinality of the holders is carried along each entry and exit.
  `MinuteBounded`: the invariant `Counted` says that whatever was admitted since
  the window began is in its count, and that whatever was admitted within a
  window's length before that fits into one more limit. Both are about the
  cumulative history `recent[k]`, so that time moves it by one shift.
* **SearchClientProofs** (with `SearXNG`). `LocksConsistent`: a queue holds no search
  twice, so a cancellation removes exactly one entry, and only a search suspended
  at that engine is in it. `Growth` needs that the longest cool-down of the day is at
  most half of the one the next trip will bring, until the maximum is reached;
  `Cooldown` is a recursive function, and that it exists, doubles and is bounded are
  lemmas by the least argument at which they could fail. `BraveAnswerKept`: a
  search that Brave has answered keeps the answer from step to step, the ones in
  which the breaker refuses at once included, and never ends as unavailable;
  cancellations and exceptions other than `SearchUnavailable` are excepted.
  `TypeCorrect` includes the bound on the attempts.
* **McpTransportProofs.** `Inv` ties every call to its stream: as long as neither has
  ended, the index is the number of events the stream emitted, and the progress
  number the client was told is that or one less; this gives `TypeCorrect`,
  `ProgressOrdered` and `ListExact`. `AccountsKept` is about a sum over all calls:
  the lemmas on `Total` show that the recursive definition under `MapThenSumSet` has
  a solution on every finite set, and that raising one term raises the sum by as
  much.
* **CrawlClientProofs** (with `DiskCache`). `Freshness`: every envelope, on disk, in the
  thread of a `get` or of a `set`, has the age that the history says its document
  has. `Politeness`: the bucket's credit and the tokens given out are one
  quantity: credit, and a period for each of the last tokens, never exceed a full
  bucket and the age of the oldest of those tokens; and no robots entry is used
  at or past its TTL. `TypeCorrect` includes that only good documents are stored.
* **GroundingProofs.** `SuppressionCorrect`, for a document of any depth. The
  invariant has two embeddings: of the hidden elements that must be suppressed
  into the stack, in order and with equal names, and (without unclosed hidden
  tags) of the stack into the open hidden elements. An end tag pops an entry that
  no element to be suppressed owns: the element that closes owns the last entry,
  or has made its namesakes outside leaky. `RerankCorrect`,
  for every query and list of candidates: each fold of `rerank` is described by
  what it leaves out (`Thins`: the elements kept are in order, and whatever is
  missing was refused for the ones kept before it), and these descriptions, the
  order of the scores and the cut give both halves of `RerankExact`.
  `CitationsCorrect`: the valid and the rejected items are two folds over the same
  list with opposite tests, so their lengths add up and their items are the two
  halves of `raw`; the sort by claim and document exists and is stable. `SearchCorrect`:
  the canonical form of a URL is idempotent (no repeated or trailing slash, a tidy
  query), so two spellings are one page exactly if their forms are equal; each
  provider's list is a fold with an invariant on how many items it took; the merge
  keeps the first list and appends what is new; distinct pages are counted by
  cardinality. `SlicesCorrect`: a byte offset is a sum that grows with every
  character; the recursion of `NfcSpans` over matching blocks has a solution, by
  induction over the characters a region has left, and its spans are in order and
  within the text, so the marks of the normal form are too. In composed text the
  first block is the whole text and every character has its own span: the marks
  are then the runs of white space and the other characters, and the part of the
  text that some of them stand for has those marks for its own normal form, which
  is the quote that was found. The invariant of these theorems is that
  `out.value` is the function of `in`; their content is in the lemmas about the
  functions.

Only model-checked: liveness (`CallsEnd`, `RequestsEnd`, `RefusalEnds`,
`SearchEnds`, `FetchEnds`), because the prover does not treat fairness. The proof of
`SlicesCorrect` refuted an earlier form of `CitationsSliced`, which promised a
non-empty slice of every text (see `CitationOffsets` above).
The overshoot bound of the ledger follows for the gateway from
`GatewayImplementsBudget` and `OvershootBounded`, but the prover does not take over
the theorems of a module that is instantiated, so it is not stated there.

## 5. Not modelled

Message texts, token counting, prices and their drift, logging, metrics and the
status payload change none of the state above. The rest, by component:

* Prompt construction, configuration, telemetry and the deployment files are
  pure, sequential or output only.
* The URL guard is present as its verdict; its address tables are data, and
  a table restated in another notation would show nothing.
* The startup self test and the start-up sequence of `main.py` are a straight line
  before the first request: a failure returns an exit code. Shutdown and restart
  are modelled where they meet the state they touch (`CrawlClient`, `LLMGateway`).
* Of the disk cache, `delete` and `incr` (no caller) and the digests of keys; of
  the search, the titles, snippets and dates of results.

Left for later: the composition of HTTP over the orchestrator over the gateway,
so that a consumer that leaves is followed down to the booking.
