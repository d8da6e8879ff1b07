------------------------------ MODULE SearXNG ------------------------------
(***************************************************************************)
(* SearXNGProvider of nexus/search/searxng.py: searches that read the      *)
(* engines whose breaker is closed, take a token from the bucket of each   *)
(* of them in turn, and send one request naming them all.  A search        *)
(* suspends in a bucket (behind its lock, or asleep until the next token)  *)
(* and at the request; everything between two awaits is one action.        *)
(*                                                                         *)
(* A bucket holds at most one token and its lock is first come, first      *)
(* served, so a bucket is the time until its next token and the queue of   *)
(* the searches behind its lock, the first of which sleeps.  Time passes   *)
(* in ticks; token periods and cool-downs are counted in them.  The        *)
(* results of a search are left out.                                       *)
(***************************************************************************)
EXTENDS Integers, Sequences, FiniteSets, SequencesExt

CONSTANTS
    Requests,
    GooglePeriod,   \* 1 / qps of google
    DuckPeriod,     \* 1 / qps of duckduckgo
    Base,           \* _TRIP_BASE_S
    Doublings       \* _TRIP_MAX_S = _TRIP_BASE_S * 2^Doublings

ASSUME SearXNGAssumption ==
    /\ IsFiniteSet(Requests)
    /\ GooglePeriod \in Nat \ {0}
    /\ DuckPeriod \in Nat \ {0}
    /\ Base \in Nat \ {0}
    /\ Doublings \in Nat

VARIABLES
    off,     \* ticks until _disabled_until, 0 when the breaker is closed
    trips,   \* _trip_count of today, up to Doublings: more change nothing
    longest, \* history: the longest cool-down that a trip of today began
    ready,   \* ticks until the bucket has a token
    queue,   \* the searches in acquire of each bucket; the first one sleeps
    sx       \* the state of every search

sxVars == <<off, trips, longest, ready, queue, sx>>
breaker == <<off, trips, longest>>
buckets == <<ready, queue>>

(* In the configured order, in which the buckets are visited.              *)
Engines == {"google", "duckduckgo"}
FirstEngine(S) == IF "google" \in S THEN "google" ELSE "duckduckgo"
Period == [google |-> GooglePeriod, duckduckgo |-> DuckPeriod]

Cooldown[n \in 0..Doublings] == IF n = 0 THEN Base ELSE 2 * Cooldown[n - 1]

SearchType ==
    [pc : {"idle", "bucket", "http"},
     asked : SUBSET Engines,    \* active_engines() on entry
     left : SUBSET Engines]     \* engines whose token is still missing

SXTypeOK ==
    /\ off \in [Engines -> 0..Cooldown[Doublings]]
    /\ trips \in [Engines -> 0..Doublings]
    /\ longest \in [Engines -> 0..Cooldown[Doublings]]
    /\ \A e \in Engines : ready[e] \in 0..Period[e]
    /\ DOMAIN queue = Engines
    /\ \A e \in Engines : IsInjective(queue[e]) /\ ToSet(queue[e]) \subseteq Requests
    /\ sx \in [Requests -> SearchType]

Quiet == [pc |-> "idle", asked |-> {}, left |-> {}]
NoEngine == [e \in Engines |-> 0]

SXInit ==
    /\ off = NoEngine
    /\ trips = NoEngine
    /\ longest = NoEngine
    /\ ready = NoEngine
    /\ queue = [e \in Engines |-> <<>>]
    /\ sx = [r \in Requests |-> Quiet]

-----------------------------------------------------------------------------
Active == {e \in Engines : off[e] = 0}

(* The loop over the buckets, for search r in state k with the buckets as  *)
(* they are in rd and qu: tokens that are there are taken at once, up to   *)
(* the first bucket that makes the search wait; after the last one the     *)
(* request is sent.                                                        *)
TakeTokens(r, k, rd, qu) ==
    LET busy == {e \in k.left : qu[e] # <<>> \/ rd[e] > 0}
        stop == FirstEngine(busy)
        taken == {e \in k.left : busy = {} \/ (e # stop /\ FirstEngine({e, stop}) = e)}
    IN  /\ ready' = [e \in Engines |-> IF e \in taken THEN Period[e] ELSE rd[e]]
        /\ \/ /\ busy = {}
              /\ sx' = [sx EXCEPT ![r] = [k EXCEPT !.pc = "http", !.left = {}]]
              /\ queue' = qu
           \/ /\ busy # {}
              /\ sx' = [sx EXCEPT ![r] = [k EXCEPT !.pc = "bucket", !.left = @ \ taken]]
              /\ queue' = [qu EXCEPT ![stop] = Append(@, r)]

(* search: every engine is tripped, SearchUnavailable.                     *)
Refused(r) ==
    /\ sx[r].pc = "idle"
    /\ Active = {}
    /\ UNCHANGED sxVars

Begin(r) ==
    /\ sx[r].pc = "idle"
    /\ Active # {}
    /\ TakeTokens(r, [Quiet EXCEPT !.asked = Active, !.left = Active], ready, queue)
    /\ UNCHANGED breaker

(* The sleep in acquire is over: the token is taken, the lock goes to the  *)
(* next search, and this one goes on to its next bucket.                   *)
Wake(r) ==
    /\ sx[r].pc = "bucket"
    /\ LET e == FirstEngine(sx[r].left)
       IN  /\ Head(queue[e]) = r
           /\ ready[e] = 0
           /\ TakeTokens(r, [sx[r] EXCEPT !.left = @ \ {e}],
                         [ready EXCEPT ![e] = Period[e]],
                         [queue EXCEPT ![e] = Tail(@)])
    /\ UNCHANGED breaker

-----------------------------------------------------------------------------
(* Mutant: an engine that answers loses the trips of the day.              *)
TripForgetful(T, asked) ==
    /\ off' = [e \in Engines |-> IF e \in T THEN Cooldown[trips[e]] ELSE off[e]]
    /\ trips' = [e \in Engines |->
          IF e \in asked \ T THEN 0
          ELSE IF e \in T /\ trips[e] < Doublings THEN trips[e] + 1
          ELSE trips[e]]

(* record_trip for the engines T; record_success, for the others that were *)
(* asked, changes nothing.                                                 *)
Trip(T, asked) ==
    /\ off' = [e \in Engines |-> IF e \in T THEN Cooldown[trips[e]] ELSE off[e]]
    /\ trips' = [e \in Engines |->
          IF e \in T /\ trips[e] < Doublings THEN trips[e] + 1 ELSE trips[e]]

(* The request of r is over, and the engines T are tripped by its answer.  *)
Ends(r, T) ==
    /\ sx[r].pc = "http"
    /\ Trip(T, sx[r].asked)
    /\ longest' = [e \in Engines |->
          IF e \in T /\ off'[e] > longest[e] THEN off'[e] ELSE longest[e]]
    /\ sx' = [sx EXCEPT ![r] = Quiet]
    /\ UNCHANGED buckets

(* HTTP 200: SearXNG reports some engines as blocked, each of them once.   *)
Reply(r) == \E T \in SUBSET sx[r].asked : Ends(r, T)

(* HTTP 429 trips every engine of the request, open or not by now.         *)
TooMany(r) == Ends(r, sx[r].asked)

(* A transport error, another status, or a body that is not JSON.          *)
Fails(r) == Ends(r, {})

(* Mutant: a cancelled search stays behind the lock.                       *)
DropKeepsLock(r) ==
    /\ sx[r].pc # "idle"
    /\ sx' = [sx EXCEPT ![r] = Quiet]
    /\ UNCHANGED <<breaker, buckets>>

(* The search is cancelled; tokens it took are gone.                       *)
Drop(r) ==
    /\ sx[r].pc # "idle"
    /\ sx' = [sx EXCEPT ![r] = Quiet]
    /\ queue' = [e \in Engines |-> RemoveFirst(queue[e], r)]
    /\ UNCHANGED <<breaker, ready>>

Sooner(n) == IF n = 0 THEN 0 ELSE n - 1

Tick ==
    /\ off' = [e \in Engines |-> Sooner(off[e])]
    /\ ready' = [e \in Engines |-> Sooner(ready[e])]
    /\ UNCHANGED <<trips, longest, queue, sx>>

(* The count of another day is thrown away by the next record_trip, the    *)
(* only one to read it.  Cool-downs go on.                                 *)
NewDay ==
    /\ trips' = NoEngine
    /\ longest' = NoEngine
    /\ UNCHANGED <<off, buckets, sx>>

-----------------------------------------------------------------------------
(* The lock of a bucket is never lost and never held twice: behind it are  *)
(* exactly the searches that miss this bucket's token, whatever was        *)
(* cancelled in between; and a search takes its tokens in order.           *)
Waiting(e) ==
    {r \in Requests : sx[r].pc = "bucket" /\ FirstEngine(sx[r].left) = e}
QueuesConsistent == \A e \in Engines : ToSet(queue[e]) = Waiting(e)

(* "Cool-down grows with the day's trip count": within a UTC day every     *)
(* trip of an engine, even by the late answer of a request sent before the *)
(* last one, closes it for twice as long as any trip before, or for the    *)
(* longest time there is.  Otherwise a cool-down just runs down.           *)
CooldownGrows ==
    [][\A e \in Engines :
          \/ off'[e] \in {off[e], Sooner(off[e])}
          \/ off'[e] >= 2 * longest[e]
          \/ off'[e] = Cooldown[Doublings]]_sxVars
=============================================================================
