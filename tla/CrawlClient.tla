----------------------------- MODULE CrawlClient -----------------------------
(***************************************************************************)
(* CrawlClient of nexus/crawl/client.py with its document cache            *)
(* (DiskCache), the robots cache of nexus/crawl/robots.py and the token    *)
(* bucket of nexus/crawl/rate_limit.py, up to the shutdown and the restart *)
(* of nexus/main.py.                                                       *)
(*                                                                         *)
(* The keys are pages of one site: one bucket and one robots entry.  Where *)
(* a redirect leads is left out, for nothing depends on it but the verdict *)
(* of the URL guard, which may differ at every connection.                 *)
(***************************************************************************)
EXTENDS DiskCache, Sequences

CONSTANTS
    MaxHops,  \* _MAX_REDIRECTS
    Period,   \* ticks per token of the bucket
    Burst     \* its capacity

ASSUME CrawlAssumption ==
    /\ Keys # {}
    /\ "ok" \in Values
    /\ MaxHops \in Nat
    /\ Period \in Nat \ {0}
    /\ Burst \in Nat \ {0}

VARIABLES
    phase,   \* of the process: up, its HTTP client closing, that one gone, its
             \* caches closed
    credit,  \* of the bucket, in ticks
    robots,  \* the entry of RobotsCache, None when expired
    fetch,   \* the coroutine of every fetch
    grants   \* history: ticks since each of the last Burst + 1 tokens

vars == <<cacheVars, phase, credit, robots, fetch, grants>>
bucket == <<credit, grants>>

Answers == {"allow", "disallow"}
Outcomes == {"none", "ok", "cached", "failed", "unresolved", "rate_limited",
             "blocked_by_robots", "raised"}

FetchType ==
    [pc : {"idle", "get", "robots", "http", "set"},
     key : Keys,
     hops : 0..MaxHops,
     text : Answers \cup {"waiting"},  \* the site's robots.txt
     begun : 0..TTL,                   \* ticks since `now` of allowed()
     read : 0..TTL,                    \* history: ticks since the site answered
     cut : BOOLEAN,                    \* its httpx client was closed
     out : Outcomes]
RobotsType == [kind : {"entry"}, allow : BOOLEAN, age : 0..TTL, read : 0..TTL]

(* State is of its type; in particular, nothing but a document with status *)
(* ok is ever in the cache or on its way there, and no fetch follows more  *)
(* than MaxHops redirects.                                                 *)
TypeOK ==
    /\ CacheTypeOK
    /\ phase \in {"up", "closing", "gone", "closed"}
    /\ credit \in 0..(Burst * Period)
    /\ robots \in RobotsType \cup {None}
    /\ fetch \in [Clients -> FetchType]
    /\ grants \in Seq(0..Period)
    /\ \A k \in Keys : disk[k] # None => disk[k].envelope.value = "ok"
    /\ \A c \in Clients : writer[c] # None => writer[c].envelope.value = "ok"

Idle(outcome, cut) ==
    [pc |-> "idle", key |-> CHOOSE k \in Keys : TRUE, hops |-> 0, text |-> "waiting",
     begun |-> 0, read |-> 0, cut |-> cut, out |-> outcome]

ProcessInit ==
    /\ phase = "up"
    /\ credit = Burst * Period
    /\ robots = None
    /\ fetch = [c \in Clients |-> Idle("none", FALSE)]
    /\ grants = <<>>

Init == CacheInit /\ ProcessInit

-----------------------------------------------------------------------------
Go(c, f) == fetch' = [fetch EXCEPT ![c] = f]
End(c, outcome) == Go(c, Idle(outcome, fetch[c].cut))

(* resolve_pinned, then the request with this client: one pass of the      *)
(* redirect loop.  Whatever is not an httpx.HTTPError leaves fetch: the    *)
(* OSError of getaddrinfo, the InvalidURL of a URL that httpx refuses, the *)
(* RuntimeError of a closed client.                                        *)
Connect(c, hops, cut) ==
    \/ End(c, "failed")       \* blocked_by_ssrf_guard
    \/ End(c, "unresolved")   \* OSError
    \/ End(c, "raised")       \* InvalidURL
    \/ IF cut THEN Go(c, Idle("raised", TRUE))
       ELSE Go(c, [fetch[c] EXCEPT !.pc = "http", !.hops = hops, !.text = "waiting",
                                   !.begun = 0, !.read = 0])

(* can_fetch of a robots entry, then _get_client, which hands out a closed *)
(* client while aclose awaits its end, and the first connection.           *)
Judge(c, allowed) ==
    IF allowed THEN Connect(c, 0, phase = "closing") ELSE End(c, "blocked_by_robots")

RobotsEntry(allow, begun, read) ==
    IF begun = TTL THEN None
    ELSE [kind |-> "entry", allow |-> allow, age |-> begun, read |-> read]

(* RobotsCache.allowed: the entry while it lasts, or a refresh, which is   *)
(* over at once when the guard refuses the site.                           *)
AskRobots(c) ==
    \/ robots # None /\ Judge(c, robots.allow) /\ UNCHANGED robots
    \/ robots = None /\ Go(c, [fetch[c] EXCEPT !.pc = "robots"]) /\ UNCHANGED robots
    \/ robots = None /\ robots' = RobotsEntry(TRUE, 0, 0) /\ Judge(c, TRUE)

TryAcquire ==
    /\ credit >= Period
    /\ credit' = credit - Period
    /\ grants' = IF Len(grants) > Burst THEN Append(Tail(grants), 0) ELSE Append(grants, 0)

(* Bound: a client begins again only when the thread of its last set ended.*)
Start(c) ==
    /\ fetch[c].pc = "idle"
    /\ writer[c] = None
    /\ \E k \in Keys : Go(c, [Idle("none", FALSE) EXCEPT !.pc = "get", !.key = k])
    /\ reader' = [reader EXCEPT ![c] = IF open THEN Waiting ELSE None]
    /\ UNCHANGED <<version, open, disk, writer, phase, bucket, robots>>

Lookup(c) ==
    /\ fetch[c].pc = "get"
    /\ ThreadReads(c, fetch[c].key)
    /\ UNCHANGED <<phase, bucket, robots, fetch>>

(* The cached document is served, unless it does not validate, which       *)
(* leaves fetch as an exception.                                           *)
Hit(c) ==
    /\ fetch[c].pc = "get"
    /\ reader[c] # Waiting
    /\ Valid(reader[c])
    /\ End(c, "cached") \/ End(c, "raised")
    /\ reader' = [reader EXCEPT ![c] = None]
    /\ UNCHANGED <<version, open, disk, writer, phase, bucket, robots>>

(* From a miss to the next await: the token, robots, the first connection. *)
Miss(c) ==
    /\ fetch[c].pc = "get"
    /\ reader[c] # Waiting
    /\ ~Valid(reader[c])
    /\ \/ TryAcquire /\ AskRobots(c)
       \/ credit < Period /\ End(c, "rate_limited") /\ UNCHANGED <<bucket, robots>>
    /\ reader' = [reader EXCEPT ![c] = None]
    /\ UNCHANGED <<version, open, disk, writer, phase>>

(* The site answers the request for its robots.txt ...                     *)
SiteAnswers(c) ==
    /\ fetch[c].pc = "robots"
    /\ fetch[c].text = "waiting"
    /\ \E t \in Answers : Go(c, [fetch[c] EXCEPT !.text = t, !.read = 0])
    /\ UNCHANGED <<cacheVars, phase, bucket, robots>>

(* Mutant: the entry is aged from the end of the refresh.                  *)
RefreshedFromEnd(c, allow) == robots' = RobotsEntry(allow, 0, fetch[c].read)
Refreshed(c, allow) == robots' = RobotsEntry(allow, fetch[c].begun, fetch[c].read)

(* ... and the refresh ends with the answer, or with a failure, which is   *)
(* cached as an allow.  A text whose parsing raises (it is parsed outside  *)
(* of the handler) ends the fetch, and no entry is made.                   *)
RobotsDone(c) ==
    /\ fetch[c].pc = "robots"
    /\ \/ \E allow \in BOOLEAN :
             /\ fetch[c].text = "waiting" => allow
             /\ fetch[c].text \in Answers => (allow <=> fetch[c].text = "allow")
             /\ Refreshed(c, allow)
             /\ Judge(c, allow)
       \/ fetch[c].text \in Answers /\ End(c, "raised") /\ UNCHANGED robots
    /\ UNCHANGED <<cacheVars, phase, bucket>>

(* Mutant: the last hop begins the loop again instead of giving up.        *)
RedirectAgain(c) ==
    /\ fetch[c].pc = "http"
    /\ \/ Connect(c, (fetch[c].hops + 1) % (MaxHops + 1), fetch[c].cut)
       \/ End(c, "raised")
    /\ UNCHANGED <<cacheVars, phase, bucket, robots>>

(* A redirect is followed to its next hop or exhausts the hops; a Location *)
(* that is no URL raises InvalidURL when it is joined.                     *)
Redirect(c) ==
    /\ fetch[c].pc = "http"
    /\ \/ fetch[c].hops < MaxHops /\ Connect(c, fetch[c].hops + 1, fetch[c].cut)
       \/ fetch[c].hops = MaxHops /\ End(c, "failed")
       \/ End(c, "raised")
    /\ UNCHANGED <<cacheVars, phase, bucket, robots>>

Store(c, status) ==
    \/ open /\ Set(c, fetch[c].key, status) /\ Go(c, [fetch[c] EXCEPT !.pc = "set", !.hops = 0])
    \/ ~open /\ End(c, status) /\ UNCHANGED writer

(* Mutant: every document is stored.                                       *)
FailAndStore(c) ==
    /\ fetch[c].pc = "http"
    /\ Store(c, "failed")
    /\ UNCHANGED <<version, open, disk, reader, phase, bucket, robots>>

(* The connection fails, or is cut with its client; the response is a      *)
(* redirect without Location, or no good document.                         *)
Fail(c) ==
    /\ fetch[c].pc = "http"
    /\ \/ End(c, "failed")
       \/ fetch[c].cut /\ End(c, "raised")
    /\ UNCHANGED <<cacheVars, phase, bucket, robots>>

(* An ok document is finalized and given to the cache; an exception of     *)
(* extract_markdown leaves fetch.                                          *)
Finalize(c) ==
    /\ fetch[c].pc = "http"
    /\ Store(c, "ok") \/ (End(c, "raised") /\ UNCHANGED writer)
    /\ UNCHANGED <<version, open, disk, reader, phase, bucket, robots>>

(* set() returns when its thread is done, or after 0.1 s.                  *)
SetReturns(c) ==
    /\ fetch[c].pc = "set"
    /\ End(c, "ok")
    /\ UNCHANGED <<cacheVars, phase, bucket, robots>>

(* The orchestrator's clock, or its own cancellation, cancels the fetch.   *)
Cancel(c) ==
    /\ fetch[c].pc # "idle"
    /\ End(c, "none")
    /\ reader' = [reader EXCEPT ![c] = None]
    /\ UNCHANGED <<version, open, disk, writer, phase, bucket, robots>>

Write(c) == ThreadWrites(c) /\ UNCHANGED <<phase, bucket, robots, fetch>>
Cull(k) == Evict(k) /\ UNCHANGED <<phase, bucket, robots, fetch>>

(* aclose: requests in flight lose their client; a fetch after its end     *)
(* makes a new one.                                                        *)
CloseClient ==
    /\ phase = "up"
    /\ phase' = "closing"
    /\ fetch' = [c \in Clients |-> [fetch[c] EXCEPT !.cut = fetch[c].pc = "http"]]
    /\ UNCHANGED <<cacheVars, bucket, robots>>

ClientGone ==
    /\ phase = "closing"
    /\ phase' = "gone"
    /\ UNCHANGED <<cacheVars, bucket, robots, fetch>>

CloseCache ==
    /\ phase = "gone"
    /\ phase' = "closed"
    /\ Close
    /\ UNCHANGED <<bucket, robots, fetch>>

(* The process ends, at any point, and another one starts.                 *)
Restart ==
    /\ Reopen
    /\ phase' = "up"
    /\ credit' = Burst * Period
    /\ robots' = None
    /\ fetch' = [c \in Clients |-> Idle("none", FALSE)]
    /\ grants' = <<>>

Tick ==
    /\ CacheTick
    /\ credit' = IF credit < Burst * Period THEN credit + 1 ELSE credit
    /\ robots' = IF robots = None THEN None
                 ELSE RobotsEntry(robots.allow, robots.age + 1, Older(robots.read))
    /\ fetch' = [c \in Clients |->
          IF fetch[c].pc # "robots" THEN fetch[c]
          ELSE [fetch[c] EXCEPT !.begun = Older(@),
                                !.read = IF fetch[c].text = "waiting" THEN 0 ELSE Older(@)]]
    /\ grants' = [i \in DOMAIN grants |-> IF grants[i] < Period THEN grants[i] + 1 ELSE Period]
    /\ UNCHANGED phase

(* What answers an await of c.                                             *)
Progress(c) ==
    \/ Lookup(c) \/ Hit(c) \/ Miss(c)
    \/ SiteAnswers(c) \/ RobotsDone(c)
    \/ Redirect(c) \/ Fail(c) \/ Finalize(c) \/ SetReturns(c)

Next ==
    \/ \E c \in Clients : Start(c) \/ Progress(c) \/ Cancel(c) \/ Write(c)
    \/ \E k \in Keys : Cull(k)
    \/ CloseClient \/ ClientGone \/ CloseCache \/ Restart \/ Tick

Spec == Init /\ [][Next]_vars

(* The threads of the cache and the name resolution return, and the        *)
(* requests to the site have timeouts.                                     *)
FairSpec == Spec /\ \A c \in Clients : WF_vars(Progress(c))

-----------------------------------------------------------------------------
(* "TTL upper bound respected even before eviction": a document served     *)
(* from the cache was finalized less than a TTL ago by a process with this *)
(* schema, whatever writes came late, from before a shutdown or on top of  *)
(* newer ones.                                                             *)
ServedFresh == [][\A c \in Clients :
    fetch[c].out # "cached" /\ fetch'[c].out = "cached" =>
        reader[c].since < TTL /\ reader[c].version = version]_vars

(* A fetch connects to a site only with a token and an allow: one that it  *)
(* asked the site for itself, or a cached one that the site gave less than *)
(* a TTL ago, however long the refreshes of others took; and no Burst + 1  *)
(* tokens are given out within a Period.                                   *)
Polite == [][
    /\ \A c \in Clients :
          fetch[c].pc \in {"get", "robots"} /\ fetch'[c].pc = "http" =>
              \/ fetch[c].pc = "robots" /\ fetch[c].text # "disallow"
              \/ fetch[c].pc = "get" /\ grants'[Len(grants')] = 0
                                     /\ robots' # None /\ robots'.allow /\ robots'.read < TTL
    /\ Len(grants') > Burst => grants'[1] >= Period]_vars

(* "Redirect chain capped": every fetch ends, wherever the site redirects  *)
(* it, while other fetches refresh robots and the cache, the clients and   *)
(* the caches are closed under it, and its own write may never return.     *)
FetchEnds == \A c \in Clients : fetch[c].pc # "idle" ~> fetch[c].pc = "idle"
=============================================================================
