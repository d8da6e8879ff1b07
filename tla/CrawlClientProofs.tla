-------------------------- MODULE CrawlClientProofs --------------------------
(***************************************************************************)
(* Proofs about CrawlClient and the cache below it, for any number of      *)
(* fetches, pages and ticks of the TTL and of the token bucket: types, a   *)
(* served document is fresh, and connections are polite.  The inductive    *)
(* invariant has a part for each of the cache, the token bucket, the       *)
(* robots entry and the coroutines.                                        *)
(***************************************************************************)
EXTENDS CrawlClient, SequenceTheorems, TLAPS

-----------------------------------------------------------------------------
(* The cache                                                               *)

(* What the cache holds or is about to hold: documents whose age was       *)
(* counted from the moment they were obtained.                             *)
Documents == {e \in Envelopes : e.value = "ok" /\ e.age = e.since}
Entries == [envelope : Documents, left : 1..TTL]
Pending == [kind : {"write"}, key : Keys, envelope : Documents]

CacheInv ==
    /\ version \in Versions
    /\ open \in BOOLEAN
    /\ disk \in [Keys -> Entries \cup {None}]
    /\ reader \in [Clients -> Documents \cup {None, Waiting}]
    /\ writer \in [Clients -> Pending \cup {None}]

LEMMA OlderDocument ==
  ASSUME NEW e \in Documents
  PROVE  OlderEnvelope(e) \in Documents
<1>1. TTL \in Nat
  BY CacheAssumption
<1>2. /\ e \in Envelopes /\ e.value = "ok" /\ e.age = e.since
      /\ e.age \in 0..TTL
  BY DEF Documents, Envelopes
<1>3. Older(e.age) \in 0..TTL /\ Older(e.since) = Older(e.age)
  BY <1>1, <1>2 DEF Older
<1>4. OlderEnvelope(e) = [e EXCEPT !.age = Older(e.age), !.since = Older(e.since)]
  BY DEF OlderEnvelope
<1> QED
  BY <1>2, <1>3, <1>4 DEF Documents, Envelopes

LEMMA FreshDocument ==
  ASSUME CacheInv
  PROVE  [kind |-> "envelope", value |-> "ok", version |-> version,
          age |-> 0, since |-> 0] \in Documents
<1>1. 0 \in 0..TTL
  BY CacheAssumption
<1> QED
  BY <1>1, CrawlAssumption DEF CacheInv, Documents, Envelopes

(* The thread of a get, and the get itself.                                *)
LEMMA ReadStep ==
  ASSUME CacheInv, NEW c \in Clients, UNCHANGED <<version, open, disk, writer>>,
         \/ \E k \in Keys : ThreadReads(c, k)
         \/ reader' = [reader EXCEPT ![c] = None]
         \/ reader' = [reader EXCEPT ![c] = Waiting]
  PROVE  CacheInv'
<1>1. CASE \E k \in Keys : ThreadReads(c, k)
  <2>1. PICK k \in Keys : ThreadReads(c, k)
    BY <1>1
  <2>2. PICK e \in Found(k) : reader' = [reader EXCEPT ![c] = e]
    BY <2>1 DEF ThreadReads
  <2>3. e \in Documents \cup {None}
    BY <2>2 DEF Found, CacheInv, Entries
  <2> QED
    BY <2>2, <2>3 DEF CacheInv
<1>2. CASE reader' = [reader EXCEPT ![c] = None]
  BY <1>2 DEF CacheInv
<1>3. CASE reader' = [reader EXCEPT ![c] = Waiting]
  BY <1>3 DEF CacheInv
<1> QED
  BY <1>1, <1>2, <1>3

(* A set is handed to its thread, and the thread writes or fails.          *)
LEMMA WriteStep ==
  ASSUME CacheInv, NEW c \in Clients,
         \/ ThreadWrites(c)
         \/ /\ \E k \in Keys : Set(c, k, "ok")
            /\ UNCHANGED <<version, open, disk, reader>>
  PROVE  CacheInv'
<1>1. CASE ThreadWrites(c)
  <2>1. writer[c] \in Pending
    BY <1>1 DEF ThreadWrites, CacheInv
  <2>2. writer[c].key \in Keys /\ writer[c].envelope \in Documents
    BY <2>1 DEF Pending
  <2> DEFINE entry == [envelope |-> writer[c].envelope, left |-> TTL]
  <2>3. entry \in Entries
    BY <2>2, CacheAssumption DEF Entries
  <2>4. disk' = [disk EXCEPT ![writer[c].key] = entry] \/ disk' = disk
    BY <1>1 DEF ThreadWrites
  <2> HIDE DEF entry
  <2>5. disk' \in [Keys -> Entries \cup {None}]
    BY <2>2, <2>3, <2>4 DEF CacheInv
  <2> QED
    BY <1>1, <2>5 DEF ThreadWrites, CacheInv
<1>2. CASE /\ \E k \in Keys : Set(c, k, "ok")
           /\ UNCHANGED <<version, open, disk, reader>>
  <2> DEFINE doc == [kind |-> "envelope", value |-> "ok", version |-> version,
                     age |-> 0, since |-> 0]
  <2>1. PICK k \in Keys : Set(c, k, "ok")
    BY <1>2
  <2>2. writer' = [writer EXCEPT ![c] = [kind |-> "write", key |-> k, envelope |-> doc]]
    BY <2>1 DEF Set
  <2>3. doc \in Documents
    BY FreshDocument
  <2> HIDE DEF doc
  <2>4. [kind |-> "write", key |-> k, envelope |-> doc] \in Pending
    BY <2>3 DEF Pending
  <2> QED
    BY <1>2, <2>2, <2>4 DEF CacheInv
<1> QED
  BY <1>1, <1>2

(* What the cache and the process do on their own.                         *)
LEMMA CacheStep ==
  ASSUME CacheInv,
         \/ \E k \in Keys : Evict(k)
         \/ Close
         \/ Reopen
         \/ CacheTick
  PROVE  CacheInv'
<1>1. CASE \E k \in Keys : Evict(k)
  BY <1>1 DEF Evict, CacheInv
<1>2. CASE Close
  BY <1>2 DEF Close, CacheInv
<1>3. CASE Reopen
  BY <1>3 DEF Reopen, CacheInv
<1>4. CASE CacheTick
  <2>1. disk' \in [Keys -> Entries \cup {None}]
    <3>1. ASSUME NEW k \in Keys, disk[k] # None, disk[k].left # 1
          PROVE  [envelope |-> OlderEnvelope(disk[k].envelope),
                  left |-> disk[k].left - 1] \in Entries
      <4>1. disk[k] \in Entries
        BY <3>1 DEF CacheInv
      <4>2. disk[k].envelope \in Documents /\ disk[k].left \in 1..TTL
        BY <4>1 DEF Entries
      <4>3. disk[k].left - 1 \in 1..TTL
        BY <3>1, <4>2, CacheAssumption
      <4> QED
        BY <4>2, <4>3, OlderDocument DEF Entries
    <3> QED
      BY <1>4, <3>1 DEF CacheTick
  <2>2. reader' \in [Clients -> Documents \cup {None, Waiting}]
    <3>1. ASSUME NEW c \in Clients, reader[c].kind = "envelope"
          PROVE  OlderEnvelope(reader[c]) \in Documents
      <4>1. reader[c] \in Documents
        BY <3>1 DEF CacheInv, None, Waiting
      <4> QED
        BY <4>1, OlderDocument
    <3>2. \A c \in Clients : reader[c] \in Documents \cup {None, Waiting}
      BY DEF CacheInv
    <3> QED
      BY <1>4, <3>1, <3>2 DEF CacheTick
  <2>3. writer' \in [Clients -> Pending \cup {None}]
    <3>1. ASSUME NEW c \in Clients, writer[c] # None
          PROVE  [writer[c] EXCEPT !.envelope = OlderEnvelope(writer[c].envelope)]
                     \in Pending
      <4>1. writer[c] \in Pending
        BY <3>1 DEF CacheInv
      <4>2. writer[c].envelope \in Documents
        BY <4>1 DEF Pending
      <4> QED
        BY <4>1, <4>2, OlderDocument DEF Pending
    <3> QED
      BY <1>4, <3>1 DEF CacheTick
  <2> QED
    BY <1>4, <2>1, <2>2, <2>3 DEF CacheTick, CacheInv
<1> QED
  BY <1>1, <1>2, <1>3, <1>4

-----------------------------------------------------------------------------
(* The token bucket                                                        *)

(* The j-th entry of grants is the (Len(grants) + 1 - j)-th youngest token.*)
(* As long as it is younger than Period, it and the tokens after it are    *)
(* still missing from the credit, but for the ticks since.                 *)
Missing(j) ==
    grants[j] < Period =>
        credit + (Len(grants) + 1 - j) * Period <= Burst * Period + grants[j]

BucketInv ==
    /\ credit \in 0..(Burst * Period)
    /\ grants \in Seq(0..Period)
    /\ Len(grants) <= Burst + 1
    /\ \A j \in 1..Len(grants) : Missing(j)
    /\ Len(grants) > Burst => grants[1] >= Period

LEMMA Capacity == Burst * Period \in Nat /\ Burst \in Nat /\ Period \in Nat
  BY CrawlAssumption

LEMMA GrantsType ==
  ASSUME BucketInv
  PROVE  /\ Len(grants) \in Nat
         /\ DOMAIN grants = 1..Len(grants)
         /\ \A j \in 1..Len(grants) : grants[j] \in 0..Period
<1>1. grants \in Seq(0..Period)
  BY DEF BucketInv
<1> QED
  BY <1>1, LenProperties, ElementOfSeq

LEMMA AcquireStep ==
  ASSUME BucketInv, TryAcquire
  PROVE  BucketInv' /\ Len(grants') > 0 /\ grants'[Len(grants')] = 0
<1> DEFINE n == Len(grants)
           kept == IF n > Burst THEN Tail(grants) ELSE grants
           m == Len(kept)
<1>1. n \in Nat /\ DOMAIN grants = 1..n /\ \A j \in 1..n : grants[j] \in 0..Period
  BY GrantsType
<1>2. credit \in Int /\ credit' = credit - Period /\ credit >= Period
      /\ credit' \in 0..(Burst * Period)
  BY Capacity DEF BucketInv, TryAcquire
<1>3. grants' = Append(kept, 0)
  BY DEF TryAcquire
<1>4. /\ kept \in Seq(0..Period)
      /\ m = IF n > Burst THEN Burst ELSE n
      /\ \A j \in 1..m : /\ j + (n - m) \in 1..n
                         /\ kept[j] = grants[j + (n - m)]
  <2>1. CASE n > Burst
    <3>1. n = Burst + 1
      <4>1. n <= Burst + 1
        BY DEF BucketInv
      <4>2. n \in Nat /\ n > Burst /\ Burst \in Nat
        BY <1>1, <2>1, Capacity
      <4> HIDE DEF n
      <4> QED
        BY <4>1, <4>2
    <3>2. grants # <<>>
      BY <2>1, <1>1, Capacity
    <3>3. /\ Tail(grants) \in Seq(0..Period) /\ Len(Tail(grants)) = n - 1
          /\ \A j \in 1..(n - 1) : Tail(grants)[j] = grants[j + 1]
      BY <3>2 DEF BucketInv
    <3> QED
      BY <1>1, <2>1, <3>1, <3>3, Capacity
  <2>2. CASE ~(n > Burst)
    BY <1>1, <2>2 DEF BucketInv
  <2> QED
    BY <2>1, <2>2
<1>5. /\ grants' \in Seq(0..Period) /\ Len(grants') = m + 1
      /\ \A j \in 1..m : grants'[j] = kept[j]
      /\ grants'[m + 1] = 0 /\ m \in Nat /\ m <= Burst
  <2>1. 0 \in 0..Period /\ m \in Nat /\ m <= Burst
    BY <1>1, <1>4, Capacity
  <2> HIDE DEF kept
  <2> QED
    BY <1>3, <1>4, <2>1
<1> HIDE DEF kept, m, n
(* The token of Burst grants ago is a Period old, or the credit for this   *)
(* one was not there.                                                      *)
<1>6. m = Burst => grants'[1] >= Period
  <2> SUFFICES ASSUME m = Burst PROVE grants'[1] >= Period
    OBVIOUS
  <2>1. 1 \in 1..m /\ 1 + (n - m) \in 1..n
    BY <1>4, CrawlAssumption
  <2>2. grants'[1] = grants[1 + (n - m)]
    BY <1>4, <1>5, <2>1
  <2>3. Missing(1 + (n - m))
    BY <2>1 DEF BucketInv, n
  <2>4. n + 1 - (1 + (n - m)) = Burst
    BY <1>1, <1>5
  <2>5. grants[1 + (n - m)] < Period =>
           credit + Burst * Period <= Burst * Period + grants[1 + (n - m)]
    BY <2>3, <2>4 DEF Missing, n
  <2>6. grants[1 + (n - m)] \in 0..Period
    BY <1>1, <2>1
  <2> QED
    BY <1>2, <2>2, <2>5, <2>6, Capacity
<1>7. ASSUME NEW j \in 1..(m + 1) PROVE Missing(j)'
  <2>0. j \in Nat /\ m \in Nat /\ n \in Nat
    BY <1>1, <1>5
  <2>1. CASE j = m + 1
    <3>1. grants'[j] = 0 /\ Len(grants') + 1 - j = 1
      BY <1>5, <2>0, <2>1
    <3>2. credit' + 1 * Period <= Burst * Period + 0
      BY <1>2, Capacity DEF BucketInv
    <3> QED
      BY <3>1, <3>2 DEF Missing
  <2>2. CASE j # m + 1
    <3> DEFINE i == j + (n - m)
    <3>1. j \in 1..m /\ i \in 1..n /\ grants'[j] = grants[i]
      BY <1>4, <1>5, <2>0, <2>2
    <3>2. Missing(i) /\ grants[i] \in 0..Period
      BY <1>1, <3>1 DEF BucketInv, n
    <3>3. n + 1 - i = m + 1 - j /\ Len(grants') + 1 - j = (m + 1 - j) + 1
      BY <1>5, <2>0
    <3> DEFINE rank == m + 1 - j
    <3>4. rank \in Int /\ (rank + 1) * Period = rank * Period + Period
          /\ rank * Period \in Int
      BY <2>0, Capacity
    <3>5. grants[i] < Period => credit + rank * Period <= Burst * Period + grants[i]
      BY <3>2, <3>3 DEF Missing, n
    <3>6. Len(grants') + 1 - j = rank + 1
      BY <3>3
    <3> HIDE DEF rank, i
    <3>7. grants[i] < Period => credit' + (rank + 1) * Period <= Burst * Period + grants[i]
      BY <1>2, <3>2, <3>4, <3>5, Capacity
    <3> QED
      BY <3>1, <3>6, <3>7 DEF Missing
  <2> QED
    BY <2>1, <2>2
<1>8. Len(grants') <= Burst + 1 /\ (Len(grants') > Burst => m = Burst)
  BY <1>5, Capacity
<1> QED
  BY <1>2, <1>5, <1>6, <1>7, <1>8 DEF BucketInv

LEMMA BucketTick ==
  ASSUME BucketInv, Tick
  PROVE  BucketInv'
<1> DEFINE n == Len(grants)
           aged == [i \in 1..n |-> IF grants[i] < Period THEN grants[i] + 1 ELSE Period]
<1>1. n \in Nat /\ DOMAIN grants = 1..n /\ \A j \in 1..n : grants[j] \in 0..Period
  BY GrantsType
<1>2. grants' = aged
  BY <1>1 DEF Tick
<1>3. \A i \in 1..n : aged[i] \in 0..Period
  BY <1>1, Capacity
<1>4. aged \in Seq(0..Period) /\ Len(aged) = n
  <2>1. aged \in [1..n -> 0..Period]
    BY <1>3
  <2>2. aged \in Seq(0..Period)
    BY <1>1, <1>3, IsASeq
  <2>3. DOMAIN aged = 1..n
    OBVIOUS
  <2> HIDE DEF aged, n
  <2>4. Len(aged) \in Nat /\ DOMAIN aged = 1..Len(aged)
    BY <2>2, LenProperties
  <2>5. Len(aged) = n
    BY <1>1, <2>3, <2>4
  <2> QED
    BY <2>2, <2>5
<1>5. credit \in 0..(Burst * Period) /\ credit' \in 0..(Burst * Period)
      /\ credit' <= credit + 1
  <2>1. credit \in 0..(Burst * Period)
    BY DEF BucketInv
  <2>2. credit' = IF credit < Burst * Period THEN credit + 1 ELSE credit
    BY DEF Tick
  <2> QED
    BY <2>1, <2>2, Capacity
<1>6. ASSUME NEW j \in 1..n PROVE Missing(j)'
  <2>1. Missing(j) /\ grants[j] \in 0..Period /\ Len(grants') = n
    BY <1>1, <1>2, <1>4 DEF BucketInv
  <2>2. grants'[j] = IF grants[j] < Period THEN grants[j] + 1 ELSE Period
    BY <1>2
  <2> DEFINE owed == (n + 1 - j) * Period
  <2>3. owed \in Int
    BY <1>1, Capacity
  <2>4. grants[j] < Period => credit + owed <= Burst * Period + grants[j]
    BY <2>1 DEF Missing
  <2> HIDE DEF owed
  <2>5. grants'[j] < Period => credit' + owed <= Burst * Period + grants'[j]
    BY <1>5, <2>1, <2>2, <2>3, <2>4, Capacity
  <2> QED
    BY <2>1, <2>5 DEF Missing, owed
<1>7. n > Burst => grants'[1] >= Period
  <2> SUFFICES ASSUME n > Burst PROVE grants'[1] >= Period
    OBVIOUS
  <2>1. 1 \in 1..n /\ grants[1] >= Period
    BY <1>1, Capacity DEF BucketInv
  <2> QED
    BY <1>1, <1>2, <2>1, Capacity
<1>8. Len(grants') = n /\ n <= Burst + 1
  BY <1>2, <1>4 DEF BucketInv
<1> HIDE DEF aged, n
<1> QED
  BY <1>2, <1>4, <1>5, <1>6, <1>7, <1>8 DEF BucketInv
-----------------------------------------------------------------------------
(* The robots entry                                                        *)

(* The entry is as old as its refresh at least, and not yet expired: what  *)
(* the site said is younger still.                                         *)
RobotsInv ==
    /\ robots \in RobotsType \cup {None}
    /\ robots # None => robots.read <= robots.age /\ robots.age < TTL

LEMMA EntryFresh ==
  ASSUME NEW allow \in BOOLEAN, NEW begun \in 0..TTL, NEW read \in 0..TTL, read <= begun
  PROVE  \/ RobotsEntry(allow, begun, read) = None
         \/ /\ RobotsEntry(allow, begun, read) \in RobotsType
            /\ RobotsEntry(allow, begun, read).read <= RobotsEntry(allow, begun, read).age
            /\ RobotsEntry(allow, begun, read).age < TTL
            /\ RobotsEntry(allow, begun, read).allow = allow
<1>1. TTL \in Nat
  BY CacheAssumption
<1>2. CASE begun = TTL
  BY <1>2 DEF RobotsEntry
<1>3. CASE begun # TTL
  <2> DEFINE e == [kind |-> "entry", allow |-> allow, age |-> begun, read |-> read]
  <2>1. RobotsEntry(allow, begun, read) = e
    BY <1>3 DEF RobotsEntry
  <2>2. /\ e \in RobotsType /\ e.read = read /\ e.age = begun /\ e.allow = allow
    BY DEF RobotsType
  <2>3. begun < TTL
    BY <1>1, <1>3
  <2> HIDE DEF e
  <2> QED
    BY <2>1, <2>2, <2>3
<1> QED
  BY <1>2, <1>3

LEMMA OlderType ==
  ASSUME NEW n \in 0..TTL
  PROVE  Older(n) \in 0..TTL /\ n <= Older(n) /\ Older(n) <= n + 1
  BY CacheAssumption DEF Older

LEMMA RobotsTick ==
  ASSUME RobotsInv, Tick
  PROVE  RobotsInv'
<1>1. CASE robots = None
  BY <1>1 DEF Tick, RobotsInv
<1>2. CASE robots # None
  <2>1. /\ robots \in RobotsType /\ robots.read <= robots.age /\ robots.age < TTL
        /\ robots.allow \in BOOLEAN /\ robots.age \in 0..TTL /\ robots.read \in 0..TTL
    BY <1>2 DEF RobotsInv, RobotsType
  <2>2. /\ robots.age + 1 \in 0..TTL /\ Older(robots.read) \in 0..TTL
        /\ Older(robots.read) <= robots.age + 1
    BY <2>1, OlderType, CacheAssumption
  <2>3. robots' = RobotsEntry(robots.allow, robots.age + 1, Older(robots.read))
    BY <1>2 DEF Tick
  <2> QED
    BY <2>1, <2>2, <2>3, EntryFresh DEF RobotsInv
<1> QED
  BY <1>1, <1>2

-----------------------------------------------------------------------------
(* The coroutines                                                          *)

(* What a fetch was told by the site is not older than the beginning of    *)
(* its refresh.                                                            *)
Sound == {f \in FetchType : f.pc \in {"get", "robots"} => f.read <= f.begun}

FetchInv ==
    /\ phase \in {"up", "closing", "gone", "closed"}
    /\ fetch \in [Clients -> Sound]

(* The fetch of c goes on as f, and is not served by this step.            *)
Moves(c, f) ==
    /\ Go(c, f)
    /\ f \in Sound
    /\ f.out = "cached" => fetch[c].out = "cached"

LEMMA FetchFields ==
  ASSUME FetchInv, NEW c \in Clients
  PROVE  /\ fetch[c] \in Sound /\ fetch[c] \in FetchType
         /\ fetch[c].pc \in {"idle", "get", "robots", "http", "set"}
         /\ fetch[c].key \in Keys
         /\ fetch[c].hops \in 0..MaxHops
         /\ fetch[c].text \in Answers \cup {"waiting"}
         /\ fetch[c].begun \in 0..TTL /\ fetch[c].read \in 0..TTL
         /\ fetch[c].cut \in BOOLEAN
         /\ fetch[c].out \in Outcomes
  BY DEF FetchInv, Sound, FetchType

LEMMA MovesStep ==
  ASSUME FetchInv, NEW c \in Clients, NEW f, Moves(c, f), UNCHANGED phase
  PROVE  /\ FetchInv'
         /\ fetch'[c] = f
         /\ \A d \in Clients : d # c => fetch'[d] = fetch[d]
<1>1. fetch' = [fetch EXCEPT ![c] = f] /\ fetch \in [Clients -> Sound]
  BY DEF Moves, Go, FetchInv
<1>2. f \in Sound
  BY DEF Moves
<1>3. /\ fetch' \in [Clients -> Sound] /\ fetch'[c] = f
      /\ \A d \in Clients : d # c => fetch'[d] = fetch[d]
  BY <1>1, <1>2
<1> QED
  BY <1>3 DEF FetchInv

LEMMA IdleSound ==
  ASSUME NEW outcome \in Outcomes, NEW cut \in BOOLEAN
  PROVE  /\ Idle(outcome, cut) \in Sound
         /\ Idle(outcome, cut).pc = "idle"
         /\ Idle(outcome, cut).out = outcome
         /\ Idle(outcome, cut).begun = 0
         /\ Idle(outcome, cut).read = 0
<1>1. (CHOOSE k \in Keys : TRUE) \in Keys
  BY CrawlAssumption
<1>2. 0 \in 0..TTL /\ 0 \in 0..MaxHops
  BY CacheAssumption, CrawlAssumption
<1> QED
  BY <1>1, <1>2 DEF Idle, Sound, FetchType

LEMMA EndMoves ==
  ASSUME FetchInv, NEW c \in Clients, NEW outcome \in Outcomes \ {"cached"},
         End(c, outcome)
  PROVE  \E f \in Sound : Moves(c, f) /\ f.pc = "idle"
<1> DEFINE f == Idle(outcome, fetch[c].cut)
<1>1. fetch[c].cut \in BOOLEAN
  BY FetchFields
<1>2. f \in Sound /\ f.pc = "idle" /\ f.out = outcome
  BY <1>1, IdleSound
<1>3. Go(c, f)
  BY DEF End
<1> HIDE DEF f
<1> QED
  BY <1>2, <1>3 DEF Moves, FetchInv

LEMMA ConnectMoves ==
  ASSUME FetchInv, NEW c \in Clients, NEW hops \in 0..MaxHops, NEW cut \in BOOLEAN,
         Connect(c, hops, cut)
  PROVE  \E f \in Sound : Moves(c, f) /\ f.pc \in {"idle", "http"}
<1>1. CASE End(c, "failed") \/ End(c, "unresolved") \/ End(c, "raised")
  BY <1>1, EndMoves DEF Outcomes
<1>2. CASE cut /\ Go(c, Idle("raised", TRUE))
  <2>1. Idle("raised", TRUE) \in Sound /\ Idle("raised", TRUE).pc = "idle"
        /\ Idle("raised", TRUE).out = "raised"
    BY IdleSound DEF Outcomes
  <2> QED
    BY <1>2, <2>1 DEF Moves
<1>3. ASSUME ~cut,
             Go(c, [fetch[c] EXCEPT !.pc = "http", !.hops = hops, !.text = "waiting",
                                    !.begun = 0, !.read = 0])
      PROVE  \E f \in Sound : Moves(c, f) /\ f.pc \in {"idle", "http"}
  <2> DEFINE f == [fetch[c] EXCEPT !.pc = "http", !.hops = hops, !.text = "waiting",
                                   !.begun = 0, !.read = 0]
  <2>1. 0 \in 0..TTL /\ fetch[c] \in Sound
    BY CacheAssumption, FetchFields
  <2>2. f \in Sound /\ f.pc = "http" /\ f.out = fetch[c].out
    BY <2>1 DEF Sound, FetchType
  <2>3. Go(c, f)
    BY <1>3
  <2> HIDE DEF f
  <2> QED
    BY <2>2, <2>3 DEF Moves, FetchInv
<1> QED
  BY <1>1, <1>2, <1>3 DEF Connect

LEMMA JudgeMoves ==
  ASSUME FetchInv, NEW c \in Clients, NEW allowed \in BOOLEAN, Judge(c, allowed)
  PROVE  \E f \in Sound : Moves(c, f) /\ f.pc \in {"idle", "http"}
                                      /\ (f.pc = "http" => allowed)
<1>1. CASE allowed
  <2>1. 0 \in 0..MaxHops /\ (phase = "closing") \in BOOLEAN
    BY CrawlAssumption
  <2>2. Connect(c, 0, phase = "closing")
    BY <1>1 DEF Judge
  <2> QED
    BY <1>1, <2>1, <2>2, ConnectMoves
<1>2. CASE ~allowed
  <2>1. End(c, "blocked_by_robots")
    BY <1>2 DEF Judge
  <2> QED
    BY <2>1, EndMoves DEF Outcomes
<1> QED
  BY <1>1, <1>2

-----------------------------------------------------------------------------
(* One lemma per step of a fetch                                           *)

(* The allow a connection from Miss or RobotsDone rests on.                *)
ConnectsPolitely(c) ==
    fetch[c].pc \in {"get", "robots"} /\ fetch'[c].pc = "http" =>
        \/ fetch[c].pc = "robots" /\ fetch[c].text # "disallow"
        \/ fetch[c].pc = "get" /\ grants'[Len(grants')] = 0
                               /\ robots' # None /\ robots'.allow /\ robots'.read < TTL

(* What is shown of every step but Hit.                                    *)
FetchStep ==
    /\ FetchInv'
    /\ \A c \in Clients : fetch'[c].out = "cached" => fetch[c].out = "cached"
    /\ \A c \in Clients : ConnectsPolitely(c)

LEMMA MovesFetch ==
  ASSUME FetchInv, NEW c \in Clients, UNCHANGED phase,
         \E f \in Sound : Moves(c, f) /\ (f.pc = "http" => fetch[c].pc \notin {"get", "robots"})
  PROVE  FetchStep
<1>1. PICK f \in Sound : Moves(c, f) /\ (f.pc = "http" => fetch[c].pc \notin {"get", "robots"})
  OBVIOUS
<1>2. /\ FetchInv'
      /\ fetch'[c] = f
      /\ \A d \in Clients : d # c => fetch'[d] = fetch[d]
  BY <1>1, MovesStep
<1>3. f.out = "cached" => fetch[c].out = "cached"
  BY <1>1 DEF Moves
<1> QED
  BY <1>1, <1>2, <1>3 DEF FetchStep, ConnectsPolitely

LEMMA StartFetch ==
  ASSUME FetchInv, NEW c \in Clients, Start(c)
  PROVE  FetchStep
<1>1. PICK k \in Keys : Go(c, [Idle("none", FALSE) EXCEPT !.pc = "get", !.key = k])
  BY DEF Start
<1> DEFINE none == Idle("none", FALSE)
           f == [none EXCEPT !.pc = "get", !.key = k]
<1>2. none \in Sound /\ none.out = "none" /\ none.begun = 0 /\ none.read = 0
  BY IdleSound DEF Outcomes
<1> HIDE DEF none
<1>3. f \in Sound /\ f.pc = "get" /\ f.out = "none"
  <2>1. f \in FetchType
    BY <1>1, <1>2 DEF Sound, FetchType
  <2>2. f.pc = "get" /\ f.out = "none" /\ f.begun = 0 /\ f.read = 0
    BY <1>2 DEF Sound, FetchType
  <2> HIDE DEF f
  <2> QED
    BY <2>1, <2>2 DEF Sound
<1>4. Go(c, f) /\ UNCHANGED phase
  BY <1>1 DEF Start, none
<1> HIDE DEF f
<1>5. Moves(c, f)
  BY <1>3, <1>4 DEF Moves
<1> QED
  BY <1>3, <1>4, <1>5, MovesFetch

LEMMA EndFetch ==
  ASSUME FetchInv, NEW c \in Clients, UNCHANGED phase,
         NEW outcome \in Outcomes \ {"cached"},
         End(c, outcome)
  PROVE  FetchStep
<1>1. PICK f \in Sound : Moves(c, f) /\ f.pc = "idle"
  BY EndMoves
<1> QED
  BY <1>1, MovesFetch

LEMMA MissFetch ==
  ASSUME FetchInv, RobotsInv, BucketInv, NEW c \in Clients, Miss(c)
  PROVE  FetchStep /\ RobotsInv' /\ BucketInv'
<1>0. fetch[c].pc = "get" /\ UNCHANGED phase
  BY DEF Miss
<1>1. CASE credit < Period /\ End(c, "rate_limited") /\ UNCHANGED <<bucket, robots>>
  <2>1. FetchStep
    BY <1>0, <1>1, EndFetch DEF Outcomes
  <2>2. RobotsInv' /\ BucketInv'
    BY <1>1 DEF RobotsInv, BucketInv, bucket, Missing
  <2> QED
    BY <2>1, <2>2
<1>2. CASE TryAcquire /\ AskRobots(c)
  <2>1. BucketInv' /\ grants'[Len(grants')] = 0
    BY <1>2, AcquireStep
  <2>2. ASSUME robots = None, Go(c, [fetch[c] EXCEPT !.pc = "robots"]), UNCHANGED robots
        PROVE  FetchStep /\ RobotsInv'
    <3> DEFINE f == [fetch[c] EXCEPT !.pc = "robots"]
    <3>1. fetch[c] \in Sound
      BY FetchFields
    <3>2. f \in Sound /\ f.pc = "robots" /\ f.out = fetch[c].out
      BY <1>0, <3>1 DEF Sound, FetchType
    <3>3. Go(c, f)
      BY <2>2
    <3> HIDE DEF f
    <3>4. Moves(c, f)
      BY <3>2, <3>3 DEF Moves, FetchInv
    <3>5. FetchStep
      BY <1>0, <3>2, <3>4, MovesFetch
    <3> QED
      BY <2>2, <3>5 DEF RobotsInv
  <2>3. ASSUME NEW allowed \in BOOLEAN, Judge(c, allowed), RobotsInv',
               robots' # None, robots'.allow = allowed
        PROVE  FetchStep
    <3>1. PICK f \in Sound : Moves(c, f) /\ (f.pc = "http" => allowed)
      BY <2>3, JudgeMoves
    <3>2. /\ FetchInv'
          /\ fetch'[c] = f
          /\ \A d \in Clients : d # c => fetch'[d] = fetch[d]
      BY <1>0, <3>1, MovesStep
    <3>3. f.out = "cached" => fetch[c].out = "cached"
      BY <3>1 DEF Moves
    <3>4. robots'.read < TTL
      <4>1. robots' \in RobotsType /\ robots'.read <= robots'.age /\ robots'.age < TTL
        BY <2>3 DEF RobotsInv
      <4>2. robots'.read \in Int /\ robots'.age \in Int /\ TTL \in Int
        BY <4>1, CacheAssumption DEF RobotsType
      <4> QED
        BY <4>1, <4>2
    <3>5. ConnectsPolitely(c)
      BY <1>0, <2>1, <2>3, <3>1, <3>2, <3>4 DEF ConnectsPolitely
    <3>6. \A d \in Clients : d # c => ConnectsPolitely(d)
      BY <3>2 DEF ConnectsPolitely
    <3> QED
      BY <3>2, <3>3, <3>5, <3>6 DEF FetchStep
  <2>4. ASSUME robots # None, Judge(c, robots.allow), UNCHANGED robots
        PROVE  FetchStep /\ RobotsInv'
    <3>1. RobotsInv' /\ robots.allow \in BOOLEAN /\ robots' # None
          /\ robots'.allow = robots.allow
      BY <2>4 DEF RobotsInv, RobotsType
    <3> QED
      BY <2>3, <2>4, <3>1
  <2>5. ASSUME robots = None, robots' = RobotsEntry(TRUE, 0, 0), Judge(c, TRUE)
        PROVE  FetchStep /\ RobotsInv'
    <3> DEFINE e == [kind |-> "entry", allow |-> TRUE, age |-> 0, read |-> 0]
    <3>1. robots' = e
      BY <2>5, CacheAssumption DEF RobotsEntry
    <3>2. e \in RobotsType /\ e.allow = TRUE /\ e # None /\ e.read <= e.age /\ e.age < TTL
      BY CacheAssumption DEF RobotsType, None
    <3> HIDE DEF e
    <3>3. RobotsInv' /\ robots' # None /\ robots'.allow = TRUE
      BY <3>1, <3>2 DEF RobotsInv
    <3> QED
      BY <2>3, <2>5, <3>3
  <2> QED
    BY <1>2, <2>1, <2>2, <2>4, <2>5 DEF AskRobots
<1> QED
  BY <1>1, <1>2 DEF Miss

LEMMA SiteAnswersFetch ==
  ASSUME FetchInv, NEW c \in Clients, SiteAnswers(c)
  PROVE  FetchStep
<1>1. PICK t \in Answers : Go(c, [fetch[c] EXCEPT !.text = t, !.read = 0])
  BY DEF SiteAnswers
<1> DEFINE f == [fetch[c] EXCEPT !.text = t, !.read = 0]
<1>2. fetch[c] \in Sound /\ 0 \in 0..TTL /\ 0 <= fetch[c].begun
  BY FetchFields, CacheAssumption
<1>3. f \in Sound /\ f.pc = fetch[c].pc /\ f.out = fetch[c].out
  BY <1>1, <1>2 DEF Sound, FetchType
<1>4. Go(c, f) /\ UNCHANGED phase /\ fetch[c].pc = "robots"
  BY <1>1 DEF SiteAnswers
<1> HIDE DEF f
<1>5. Moves(c, f)
  BY <1>3, <1>4 DEF Moves, FetchInv
<1> QED
  BY <1>3, <1>4, <1>5, MovesFetch

LEMMA RobotsDoneFetch ==
  ASSUME FetchInv, RobotsInv, NEW c \in Clients, RobotsDone(c)
  PROVE  FetchStep /\ RobotsInv'
<1>1. fetch[c].pc = "robots" /\ UNCHANGED phase
  BY DEF RobotsDone
<1>2. ASSUME NEW allow \in BOOLEAN,
             fetch[c].text \in Answers => (allow <=> fetch[c].text = "allow"),
             Refreshed(c, allow), Judge(c, allow)
      PROVE  FetchStep /\ RobotsInv'
  <2>1. PICK f \in Sound : Moves(c, f) /\ (f.pc = "http" => allow)
    BY <1>2, JudgeMoves
  <2>2. /\ FetchInv'
        /\ fetch'[c] = f
        /\ \A d \in Clients : d # c => fetch'[d] = fetch[d]
    BY <1>1, <2>1, MovesStep
  <2>3. f.out = "cached" => fetch[c].out = "cached"
    BY <2>1 DEF Moves
  <2>4. allow => fetch[c].text # "disallow"
    BY <1>2 DEF Answers
  <2>5. \A d \in Clients : ConnectsPolitely(d)
    BY <1>1, <2>1, <2>2, <2>4 DEF ConnectsPolitely
  <2>6. fetch[c].begun \in 0..TTL /\ fetch[c].read \in 0..TTL
        /\ fetch[c].read <= fetch[c].begun
    BY <1>1, FetchFields DEF Sound
  <2>7. robots' = RobotsEntry(allow, fetch[c].begun, fetch[c].read)
    BY <1>2 DEF Refreshed
  <2>8. RobotsInv'
    BY <2>6, <2>7, EntryFresh DEF RobotsInv
  <2> QED
    BY <2>2, <2>3, <2>5, <2>8 DEF FetchStep
<1>3. ASSUME End(c, "raised"), UNCHANGED robots
      PROVE  FetchStep /\ RobotsInv'
  <2>1. FetchStep
    BY <1>1, <1>3, EndFetch DEF Outcomes
  <2> QED
    BY <1>3, <2>1 DEF RobotsInv
<1> QED
  BY <1>2, <1>3 DEF RobotsDone

(* From the first connection on: redirects, failures, and the store.       *)
LEMMA HttpFetch ==
  ASSUME FetchInv, NEW c \in Clients, Redirect(c) \/ Fail(c) \/ Finalize(c)
  PROVE  FetchStep
<1>0. fetch[c].pc = "http" /\ UNCHANGED phase
  BY DEF Redirect, Fail, Finalize
<1>1. CASE Redirect(c)
  <2>1. CASE fetch[c].hops < MaxHops /\ Connect(c, fetch[c].hops + 1, fetch[c].cut)
    <3>1. fetch[c].hops + 1 \in 0..MaxHops /\ fetch[c].cut \in BOOLEAN
      BY <2>1, FetchFields, CrawlAssumption
    <3>2. \E f \in Sound : Moves(c, f)
      BY <2>1, <3>1, ConnectMoves
    <3> QED
      BY <1>0, <3>2, MovesFetch
  <2>2. CASE End(c, "failed") \/ End(c, "raised")
    BY <1>0, <2>2, EndFetch DEF Outcomes
  <2> QED
    BY <1>1, <2>1, <2>2 DEF Redirect
<1>2. CASE Fail(c)
  BY <1>0, <1>2, EndFetch DEF Fail, Outcomes
<1>3. CASE Finalize(c)
  <2>1. CASE Go(c, [fetch[c] EXCEPT !.pc = "set", !.hops = 0])
    <3> DEFINE f == [fetch[c] EXCEPT !.pc = "set", !.hops = 0]
    <3>1. fetch[c] \in Sound /\ 0 \in 0..MaxHops
      BY FetchFields, CrawlAssumption
    <3>2. f \in Sound /\ f.pc = "set" /\ f.out = fetch[c].out
      BY <3>1 DEF Sound, FetchType
    <3>3. Go(c, f)
      BY <2>1
    <3> HIDE DEF f
    <3>4. Moves(c, f)
      BY <3>2, <3>3 DEF Moves, FetchInv
    <3> QED
      BY <1>0, <3>2, <3>4, MovesFetch
  <2>2. CASE End(c, "ok") \/ End(c, "raised")
    BY <1>0, <2>2, EndFetch DEF Outcomes
  <2> QED
    BY <1>3, <2>1, <2>2 DEF Finalize, Store
<1> QED
  BY <1>1, <1>2, <1>3

(* Time, and the shutdown and the restart.                                 *)
LEMMA ProcessFetch ==
  ASSUME FetchInv, Tick \/ CloseClient \/ ClientGone \/ CloseCache \/ Restart
  PROVE  FetchStep
<1>1. CASE Tick
  <2>1. ASSUME NEW c \in Clients
        PROVE  /\ fetch'[c] \in Sound
               /\ fetch'[c].out = fetch[c].out /\ fetch'[c].pc = fetch[c].pc
    <3>1. CASE fetch[c].pc # "robots"
      <4>1. fetch'[c] = fetch[c]
        BY <1>1, <3>1 DEF Tick
      <4> QED
        BY <4>1, FetchFields
    <3>2. CASE fetch[c].pc = "robots"
      <4> DEFINE read == IF fetch[c].text = "waiting" THEN 0 ELSE Older(fetch[c].read)
                 f == [fetch[c] EXCEPT !.begun = Older(fetch[c].begun), !.read = read]
      <4>1. fetch'[c] = f
        BY <1>1, <3>2 DEF Tick
      <4>2. fetch[c] \in Sound /\ fetch[c].read \in 0..TTL /\ fetch[c].begun \in 0..TTL
            /\ fetch[c].read <= fetch[c].begun
        BY <3>2, FetchFields DEF Sound
      <4>3. read \in 0..TTL /\ Older(fetch[c].begun) \in 0..TTL
            /\ read <= Older(fetch[c].begun)
        BY <4>2, CacheAssumption DEF Older
      <4> HIDE DEF read
      <4>4. f \in Sound /\ f.pc = fetch[c].pc /\ f.out = fetch[c].out
        BY <4>2, <4>3 DEF Sound, FetchType
      <4> QED
        BY <4>1, <4>4
    <3> QED
      BY <3>1, <3>2
  <2>2. DOMAIN fetch' = Clients /\ fetch' = [c \in Clients |-> fetch'[c]]
    BY <1>1 DEF Tick
  <2>3. fetch' \in [Clients -> Sound] /\ UNCHANGED phase
    BY <1>1, <2>1, <2>2 DEF Tick
  <2> QED
    BY <2>1, <2>3 DEF FetchStep, FetchInv, ConnectsPolitely
<1>2. CASE CloseClient
  <2>1. ASSUME NEW c \in Clients
        PROVE  /\ fetch'[c] \in Sound
               /\ fetch'[c].out = fetch[c].out /\ fetch'[c].pc = fetch[c].pc
    <3> DEFINE cut == fetch[c].pc = "http"
               f == [fetch[c] EXCEPT !.cut = cut]
    <3>1. fetch'[c] = f
      BY <1>2 DEF CloseClient
    <3>2. cut \in BOOLEAN /\ fetch[c] \in Sound
      BY FetchFields
    <3> HIDE DEF cut
    <3>3. f \in Sound /\ f.pc = fetch[c].pc /\ f.out = fetch[c].out
      BY <3>2 DEF Sound, FetchType
    <3> QED
      BY <3>1, <3>3
  <2>2. fetch' = [c \in Clients |-> fetch'[c]]
    BY <1>2 DEF CloseClient
  <2>3. fetch' \in [Clients -> Sound] /\ phase' = "closing"
    BY <1>2, <2>1, <2>2 DEF CloseClient
  <2> QED
    BY <2>1, <2>3 DEF FetchStep, FetchInv, ConnectsPolitely
<1>3. CASE ClientGone \/ CloseCache
  BY <1>3 DEF ClientGone, CloseCache, FetchStep, FetchInv, ConnectsPolitely
<1>4. CASE Restart
  <2>1. /\ Idle("none", FALSE) \in Sound
        /\ Idle("none", FALSE).pc = "idle"
        /\ Idle("none", FALSE).out = "none"
    BY IdleSound DEF Outcomes
  <2> DEFINE f == Idle("none", FALSE)
  <2>2. fetch' = [c \in Clients |-> f] /\ phase' = "up"
    BY <1>4 DEF Restart
  <2>3. f \in Sound /\ f.pc = "idle" /\ f.out = "none"
    BY <2>1
  <2> HIDE DEF f
  <2> QED
    BY <2>2, <2>3 DEF FetchStep, FetchInv, ConnectsPolitely
<1> QED
  BY <1>1, <1>2, <1>3, <1>4
LEMMA StillFetch ==
  ASSUME FetchInv, UNCHANGED <<fetch, phase>>
  PROVE  FetchStep
  BY DEF FetchStep, FetchInv, ConnectsPolitely

-----------------------------------------------------------------------------
(* The inductive invariant                                                 *)

Inv == CacheInv /\ BucketInv /\ RobotsInv /\ FetchInv

LEMMA Unchanged ==
  /\ CacheInv /\ UNCHANGED cacheVars => CacheInv'
  /\ BucketInv /\ UNCHANGED bucket => BucketInv'
  /\ RobotsInv /\ UNCHANGED robots => RobotsInv'
  BY DEF CacheInv, cacheVars, BucketInv, Missing, bucket, RobotsInv

LEMMA NewBucket ==
  ASSUME credit = Burst * Period, grants = <<>>
  PROVE  BucketInv
<1>1. Len(grants) = 0 /\ grants \in Seq(0..Period)
  BY EmptySeq
<1>2. credit \in 0..(Burst * Period)
  BY Capacity
<1>3. 0 <= Burst + 1 /\ ~(0 > Burst) /\ 1..0 = {}
  BY Capacity
<1> QED
  BY <1>1, <1>2, <1>3 DEF BucketInv

LEMMA InvInit == Init => Inv
<1> SUFFICES ASSUME Init PROVE Inv
  OBVIOUS
<1>1. CacheInv
  BY DEF Init, CacheInit, CacheInv
<1>2. BucketInv
  BY NewBucket DEF Init, ProcessInit
<1>3. RobotsInv
  BY DEF Init, ProcessInit, RobotsInv
<1>4. FetchInv
  <2> DEFINE f == Idle("none", FALSE)
  <2>1. f \in Sound
    BY IdleSound DEF Outcomes
  <2>2. fetch = [c \in Clients |-> f] /\ phase = "up"
    BY DEF Init, ProcessInit
  <2> HIDE DEF f
  <2> QED
    BY <2>1, <2>2 DEF FetchInv
<1> QED
  BY <1>1, <1>2, <1>3, <1>4 DEF Inv

(* A hit: the envelope that is served is a valid document.                 *)
LEMMA HitStep ==
  ASSUME Inv, NEW c \in Clients, Hit(c)
  PROVE  /\ Inv'
         /\ \A d \in Clients : d # c => fetch'[d] = fetch[d]
         /\ fetch'[c].pc = "idle"
         /\ reader[c].since < TTL /\ reader[c].version = version
<1>0. PICK outcome \in {"cached", "raised"} : End(c, outcome)
  BY DEF Hit
<1> DEFINE f == Idle(outcome, fetch[c].cut)
<1>1. f \in Sound /\ f.pc = "idle"
  BY <1>0, IdleSound, FetchFields DEF Inv, Outcomes
<1>2. fetch' = [fetch EXCEPT ![c] = f] /\ UNCHANGED <<phase, bucket, robots>>
  BY <1>0 DEF Hit, End, Go
<1> HIDE DEF f
<1>3. /\ FetchInv'
      /\ \A d \in Clients : d # c => fetch'[d] = fetch[d]
      /\ fetch'[c].pc = "idle"
  BY <1>1, <1>2 DEF Inv, FetchInv
<1>4. CacheInv'
  BY ReadStep DEF Hit, Inv
<1>5. reader[c] \in Documents
  BY DEF Inv, CacheInv, Hit, Valid
<1>6. reader[c].since < TTL /\ reader[c].version = version
  BY <1>5 DEF Hit, Valid, Documents
<1> QED
  BY <1>2, <1>3, <1>4, <1>6, Unchanged DEF Inv

(* Every step keeps the invariant, and every step but a hit moves fetches  *)
(* without serving or connecting impolitely.                               *)
LEMMA InvStep ==
  ASSUME Inv, [Next]_vars
  PROVE  Inv' /\ (FetchStep \/ \E c \in Clients : Hit(c))
<1>0. CacheInv /\ BucketInv /\ RobotsInv /\ FetchInv
  BY DEF Inv
<1>1. ASSUME NEW c \in Clients, Start(c)
      PROVE  Inv' /\ FetchStep
  <2>1. FetchStep
    BY <1>0, <1>1, StartFetch
  <2>2. CacheInv'
    BY <1>0, <1>1, ReadStep DEF Start
  <2> QED
    BY <1>0, <1>1, <2>1, <2>2, Unchanged DEF Start, Inv, FetchStep
<1>2. ASSUME NEW c \in Clients, Lookup(c)
      PROVE  Inv' /\ FetchStep
  <2>1. fetch[c].key \in Keys /\ ThreadReads(c, fetch[c].key)
    BY <1>0, <1>2, FetchFields DEF Lookup
  <2>2. CacheInv'
    BY <1>0, <2>1, ReadStep DEF ThreadReads
  <2>3. FetchStep
    BY <1>0, <1>2, StillFetch DEF Lookup
  <2> QED
    BY <1>0, <1>2, <2>2, <2>3, Unchanged DEF Lookup, Inv, FetchStep
<1>3. ASSUME NEW c \in Clients, Miss(c)
      PROVE  Inv' /\ FetchStep
  <2>1. FetchStep /\ RobotsInv' /\ BucketInv'
    BY <1>0, <1>3, MissFetch
  <2>2. CacheInv'
    BY <1>0, <1>3, ReadStep DEF Miss
  <2> QED
    BY <2>1, <2>2 DEF Inv, FetchStep
<1>4. ASSUME NEW c \in Clients, SiteAnswers(c)
      PROVE  Inv' /\ FetchStep
  <2>1. FetchStep
    BY <1>0, <1>4, SiteAnswersFetch
  <2> QED
    BY <1>0, <1>4, <2>1, Unchanged DEF SiteAnswers, Inv, FetchStep
<1>5. ASSUME NEW c \in Clients, RobotsDone(c)
      PROVE  Inv' /\ FetchStep
  <2>1. FetchStep /\ RobotsInv'
    BY <1>0, <1>5, RobotsDoneFetch
  <2> QED
    BY <1>0, <1>5, <2>1, Unchanged DEF RobotsDone, Inv, FetchStep
<1>6. ASSUME NEW c \in Clients, Redirect(c) \/ Fail(c) \/ Finalize(c)
      PROVE  Inv' /\ FetchStep
  <2>1. FetchStep
    BY <1>0, <1>6, HttpFetch
  <2>2. UNCHANGED <<bucket, robots>>
    BY <1>6 DEF Redirect, Fail, Finalize
  <2>3. CacheInv'
    <3>1. CASE Redirect(c) \/ Fail(c)
      BY <1>0, <3>1, Unchanged DEF Redirect, Fail
    <3>2. CASE Finalize(c)
      <4>1. CASE Set(c, fetch[c].key, "ok")
        BY <1>0, <3>2, <4>1, FetchFields, WriteStep DEF Finalize
      <4>2. CASE UNCHANGED writer
        BY <1>0, <3>2, <4>2, Unchanged DEF Finalize, cacheVars
      <4> QED
        BY <3>2, <4>1, <4>2 DEF Finalize, Store
    <3> QED
      BY <1>6, <3>1, <3>2
  <2> QED
    BY <1>0, <2>1, <2>2, <2>3, Unchanged DEF Inv, FetchStep
<1>7. ASSUME NEW c \in Clients, SetReturns(c) \/ Cancel(c)
      PROVE  Inv' /\ FetchStep
  <2>1. FetchStep
    BY <1>0, <1>7, EndFetch DEF SetReturns, Cancel, Outcomes
  <2>2. CacheInv'
    BY <1>0, <1>7, Unchanged, ReadStep DEF SetReturns, Cancel
  <2> QED
    BY <1>0, <1>7, <2>1, <2>2, Unchanged DEF SetReturns, Cancel, Inv, FetchStep
<1>8. ASSUME NEW c \in Clients, Write(c)
      PROVE  Inv' /\ FetchStep
  BY <1>0, <1>8, WriteStep, StillFetch, Unchanged DEF Write, Inv, FetchStep
<1>9. ASSUME NEW k \in Keys, Cull(k)
      PROVE  Inv' /\ FetchStep
  BY <1>0, <1>9, CacheStep, StillFetch, Unchanged DEF Cull, Inv, FetchStep
<1>10. CASE CloseClient \/ ClientGone
  BY <1>0, <1>10, ProcessFetch, Unchanged DEF CloseClient, ClientGone, Inv, FetchStep
<1>11. CASE CloseCache
  BY <1>0, <1>11, ProcessFetch, CacheStep, Unchanged DEF CloseCache, Inv, FetchStep
<1>12. CASE Restart
  <2>1. BucketInv'
    <3>1. credit' = Burst * Period /\ grants' = <<>>
      BY <1>12 DEF Restart
    <3>2. Len(grants') = 0 /\ grants' \in Seq(0..Period)
      BY <3>1, EmptySeq
    <3>3. credit' \in 0..(Burst * Period)
      BY <3>1, Capacity
    <3>4. 0 <= Burst + 1 /\ ~(0 > Burst) /\ 1..0 = {}
      BY Capacity
    <3> QED
      BY <3>2, <3>3, <3>4 DEF BucketInv
  <2>2. RobotsInv'
    BY <1>12 DEF Restart, RobotsInv
  <2>3. CacheInv'
    BY <1>0, <1>12, CacheStep DEF Restart
  <2> QED
    BY <1>0, <1>12, <2>1, <2>2, <2>3, ProcessFetch DEF Inv, FetchStep
<1>13. CASE Tick
  BY <1>0, <1>13, CacheStep, BucketTick, RobotsTick, ProcessFetch
     DEF Tick, Inv, FetchStep
<1>14. CASE UNCHANGED vars
  BY <1>0, <1>14, StillFetch, Unchanged DEF vars, bucket, Inv, FetchStep
<1> QED
  BY <1>1, <1>2, <1>3, <1>4, <1>5, <1>6, <1>7, <1>8, <1>9, <1>10, <1>11,
     <1>12, <1>13, <1>14, HitStep DEF Next, Progress

LEMMA InvAlways == Spec => []Inv
<1> QED
  BY InvInit, InvStep, PTL DEF Spec

(* Types, and nothing but a good document is ever in the cache or on its   *)
(* way there, whichever threads outlive their call or their process.       *)
THEOREM TypeCorrect == Spec => []TypeOK
<1>1. Inv => TypeOK
  <2> SUFFICES ASSUME Inv PROVE TypeOK
    OBVIOUS
  <2>1. CacheTypeOK
    BY DEF Inv, CacheInv, CacheTypeOK, Documents, Entries, Pending, Stored, Writes
  <2>2. /\ \A k \in Keys : disk[k] # None => disk[k].envelope.value = "ok"
        /\ \A c \in Clients : writer[c] # None => writer[c].envelope.value = "ok"
    BY DEF Inv, CacheInv, Documents, Entries, Pending
  <2>3. fetch \in [Clients -> FetchType]
    BY DEF Inv, FetchInv, Sound
  <2> QED
    BY <2>1, <2>2, <2>3 DEF Inv, FetchInv, BucketInv, RobotsInv, TypeOK
<1> QED
  BY <1>1, InvAlways, PTL

(* The envelope's own expiry bounds the age of what is served, whatever    *)
(* diskcache's expiry, late writes, restarts and schemas do.               *)
THEOREM Freshness == Spec => ServedFresh
<1>1. Inv /\ [Next]_vars =>
        [\A c \in Clients :
           fetch[c].out # "cached" /\ fetch'[c].out = "cached" =>
               reader[c].since < TTL /\ reader[c].version = version]_vars
  BY InvStep, HitStep DEF FetchStep
<1> QED
  BY <1>1, InvAlways, PTL DEF Spec, ServedFresh

(* A site is contacted only with a token and on its own word or on one not *)
(* older than the TTL, and of Burst + 1 successive tokens the last comes a *)
(* Period after the first or later.                                        *)
THEOREM Politeness == Spec => Polite
<1>1. Inv /\ [Next]_vars =>
        [/\ \A c \in Clients :
              fetch[c].pc \in {"get", "robots"} /\ fetch'[c].pc = "http" =>
                  \/ fetch[c].pc = "robots" /\ fetch[c].text # "disallow"
                  \/ fetch[c].pc = "get" /\ grants'[Len(grants')] = 0
                                         /\ robots' # None /\ robots'.allow
                                         /\ robots'.read < TTL
         /\ Len(grants') > Burst => grants'[1] >= Period]_vars
  <2> SUFFICES ASSUME Inv, [Next]_vars
      PROVE  /\ \A c \in Clients : ConnectsPolitely(c)
             /\ Len(grants') > Burst => grants'[1] >= Period
    BY DEF ConnectsPolitely
  <2>1. Inv' /\ (FetchStep \/ \E c \in Clients : Hit(c))
    BY InvStep
  <2>2. Len(grants') > Burst => grants'[1] >= Period
    BY <2>1 DEF Inv, BucketInv
  <2>3. ASSUME NEW c \in Clients, Hit(c)
        PROVE  \A d \in Clients : ConnectsPolitely(d)
    BY <2>3, HitStep DEF ConnectsPolitely
  <2> QED
    BY <2>1, <2>2, <2>3 DEF FetchStep
<1> QED
  BY <1>1, InvAlways, PTL DEF Spec, Polite
=============================================================================
