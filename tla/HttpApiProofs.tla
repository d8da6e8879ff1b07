--------------------------- MODULE HttpApiProofs ----------------------------
(***************************************************************************)
(* Proofs about HttpApi, for any number of requests, clients and limits:   *)
(* types, that the concurrency counter is exactly the requests that hold a *)
(* slot and the slots whose stream never started, and that no minute       *)
(* admits more than two windows' worth.                                    *)
(***************************************************************************)
EXTENDS HttpApi, FiniteSetTheorems, TLAPS

Inv == TypeOK /\ SlotsCounted

LEMMA HoldersFinite ==
  IsFiniteSet(Holders) /\ Cardinality(Holders) \in Nat
<1>1. Holders \subseteq Requests
  BY DEF Holders
<1> QED
  BY <1>1, HttpAssumption, FS_Subset, FS_CardinalityType

(* Allowing or refusing a request keeps the limiter's types.               *)
LEMMA LimiterType ==
  ASSUME TypeOK, NEW ip \in Clients, Allow(ip) \/ Refuse(ip)
  PROVE  /\ tokenCount' \in 0..TokenLimit
         /\ ipCount' \in [Clients -> 0..IpLimit]
         /\ tokenAge' \in 0..Window
         /\ ipAge' \in 0..Window
         /\ recent' \in [Back -> Nat]
<1>1. TokenUsed \in 0..TokenLimit /\ IpUsed \in [Clients -> 0..IpLimit]
  BY HttpAssumption DEF TypeOK, TokenUsed, IpUsed
<1>2. tokenAge' \in 0..Window /\ ipAge' \in 0..Window
  BY HttpAssumption DEF TypeOK, Allow, Refuse, ResetWindows
<1>3. CASE Refuse(ip)
  BY <1>1, <1>2, <1>3 DEF Refuse, TypeOK
<1>4. CASE Allow(ip)
  <2>1. TokenUsed + 1 \in 0..TokenLimit /\ IpUsed[ip] + 1 \in 0..IpLimit
    BY <1>1, <1>4, HttpAssumption DEF Allow, Allowed
  <2>2. ipCount' = [IpUsed EXCEPT ![ip] = IpUsed[ip] + 1]
    BY <1>4 DEF Allow
  <2>3. ipCount' \in [Clients -> 0..IpLimit]
    BY <1>1, <2>1, <2>2
  <2>4. recent' \in [Back -> Nat]
    BY <1>4 DEF Allow, TypeOK
  <2> QED
    BY <1>2, <1>4, <2>1, <2>3, <2>4 DEF Allow
<1> QED
  BY <1>3, <1>4

(* A request takes a slot: one more holder.                                *)
LEMMA TakeSlot ==
  ASSUME TypeOK, NEW r \in Requests, NEW p \in Holding,
         pc[r] = "idle", pc' = [pc EXCEPT ![r] = p]
  PROVE  Cardinality(Holders') = Cardinality(Holders) + 1
<1>1. Holders' = Holders \cup {r}
  BY DEF Holders, TypeOK
<1>2. r \notin Holders
  BY DEF Holders, Holding
<1> QED
  BY <1>1, <1>2, HoldersFinite, FS_AddElement

(* A holder goes: one less.                                                *)
LEMMA LeaveSlot ==
  ASSUME TypeOK, NEW r \in Requests,
         pc[r] \in Holding, pc' = [pc EXCEPT ![r] = "idle"]
  PROVE  /\ Cardinality(Holders') = Cardinality(Holders) - 1
         /\ Cardinality(Holders) > 0
<1>1. Holders' = Holders \ {r}
  BY DEF Holders, TypeOK, Holding
<1>2. r \in Holders
  BY DEF Holders
<1>3. Cardinality(Holders') = Cardinality(Holders) - 1
  BY <1>1, <1>2, HoldersFinite, FS_RemoveElement
<1>4. Cardinality(Holders) # 0
  BY <1>2, HoldersFinite, FS_EmptySet
<1> QED
  BY <1>3, <1>4, HoldersFinite

(* A holder stays one.                                                     *)
LEMMA KeepSlot ==
  ASSUME TypeOK, NEW r \in Requests, NEW p \in Holding,
         pc[r] \in Holding, pc' = [pc EXCEPT ![r] = p]
  PROVE  Holders' = Holders
  BY DEF Holders, TypeOK

(* release_concurrency by a holder: the counter follows the holders.       *)
LEMMA ReleaseStep ==
  ASSUME Inv, NEW r \in Requests, pc[r] \in Holding, Release(r),
         reply' \in Replies
  PROVE  Inv'
<1>1. /\ Cardinality(Holders') = Cardinality(Holders) - 1
      /\ Cardinality(Holders) > 0
  BY LeaveSlot DEF Inv, Release
<1>2. lost \in Nat /\ inflight \in Nat /\ Cardinality(Holders) \in Nat
  BY HoldersFinite DEF Inv, TypeOK
<1>3. inflight' = inflight - 1 /\ inflight' \in Nat
  BY <1>1, <1>2 DEF Inv, SlotsCounted, Release, Released
<1>4. pc' \in [Requests -> Holding \cup {"idle"}]
  BY DEF Inv, TypeOK, Release
<1>5. TypeOK'
  BY <1>3, <1>4 DEF Inv, TypeOK, Release, limiter
<1>6. SlotsCounted'
  BY <1>1, <1>2, <1>3, HttpAssumption DEF Inv, SlotsCounted, Release
<1> QED
  BY <1>5, <1>6 DEF Inv

LEMMA InvInit == Init => Inv
<1> SUFFICES ASSUME Init PROVE Inv
  OBVIOUS
<1>1. TypeOK
  BY HttpAssumption DEF Init, TypeOK, Replies, Back
<1>2. Holders = {}
  BY DEF Init, Holders, Holding
<1>3. SlotsCounted
  BY <1>2, FS_EmptySet, HttpAssumption DEF Init, SlotsCounted
<1> QED
  BY <1>1, <1>3 DEF Inv

(* What happens to a request before its first await.                       *)
LEMMA EnterStep ==
  ASSUME Inv, NEW r \in Requests, NEW ip \in Clients,
         \/ RateLimited(r, ip)
         \/ Status(r, ip)
         \/ TooManyInFlight(r, ip)
         \/ Invalid(r, ip)
         \/ StartSearch(r, ip)
         \/ StartStream(r, ip)
  PROVE  Inv'
<1>1. Allow(ip) \/ Refuse(ip)
  BY DEF RateLimited, Status, TooManyInFlight, Invalid, StartSearch, StartStream
<1>2. /\ tokenCount' \in 0..TokenLimit
      /\ ipCount' \in [Clients -> 0..IpLimit]
      /\ tokenAge' \in 0..Window
      /\ ipAge' \in 0..Window
      /\ recent' \in [Back -> Nat]
  BY <1>1, LimiterType DEF Inv
<1>3. reply' \in Replies
  BY DEF Inv, TypeOK, RateLimited, Status, TooManyInFlight, Invalid,
         StartSearch, StartStream, Respond, Replies, Statuses
<1>4. CASE UNCHANGED <<pc, inflight, lost>>
  BY <1>2, <1>3, <1>4 DEF Inv, TypeOK, SlotsCounted, Holders
<1>5. CASE Invalid(r, ip)
  <2>1. inflight' = inflight
    BY <1>5 DEF Invalid, Released, Inv, TypeOK
  <2> QED
    BY <1>4, <1>5, <2>1 DEF Invalid
<1>6. ASSUME NEW p \in Holding, pc[r] = "idle", FreeSlot,
             inflight' = inflight + 1, pc' = [pc EXCEPT ![r] = p],
             UNCHANGED lost
      PROVE  Inv'
  <2>1. Cardinality(Holders') = Cardinality(Holders) + 1
    BY <1>6, TakeSlot DEF Inv
  <2>2. lost \in Nat /\ inflight \in Nat /\ Cardinality(Holders) \in Nat
    BY HoldersFinite DEF Inv, TypeOK
  <2>3. pc' \in [Requests -> Holding \cup {"idle"}]
    BY <1>6 DEF Inv, TypeOK
  <2>4. TypeOK'
    BY <1>2, <1>3, <1>6, <2>2, <2>3 DEF Inv, TypeOK
  <2>5. SlotsCounted'
    BY <1>6, <2>1, <2>2, HttpAssumption DEF Inv, SlotsCounted, FreeSlot
  <2> QED
    BY <2>4, <2>5 DEF Inv
<1>7. CASE StartSearch(r, ip)
  BY <1>6, <1>7 DEF StartSearch, Holding
<1>8. CASE StartStream(r, ip)
  BY <1>6, <1>8 DEF StartStream, Holding
<1> QED
  BY <1>4, <1>5, <1>7, <1>8 DEF RateLimited, Status, TooManyInFlight

(* A stream moves without giving its slot back.                            *)
LEMMA HoldStep ==
  ASSUME Inv, NEW r \in Requests, NEW p \in Holding, pc[r] \in Holding,
         pc' = [pc EXCEPT ![r] = p], UNCHANGED <<inflight, limiter, lost>>,
         reply' \in Replies
  PROVE  Inv'
<1>1. Holders' = Holders
  BY KeepSlot DEF Inv
<1>2. pc' \in [Requests -> Holding \cup {"idle"}]
  BY DEF Inv, TypeOK
<1> QED
  BY <1>1, <1>2 DEF Inv, TypeOK, SlotsCounted, limiter

LEMMA InvStep == Inv /\ [Next]_vars => Inv'
<1> SUFFICES ASSUME Inv, [Next]_vars PROVE Inv'
  OBVIOUS
<1>0. reply \in Replies
  BY DEF Inv, TypeOK
<1>1. ASSUME NEW r \in Requests, BodyTooLarge(r) \/ Unauthorized(r)
      PROVE  Inv'
  BY <1>1 DEF BodyTooLarge, Unauthorized, Respond, Replies, Statuses, limiter,
              Inv, TypeOK, SlotsCounted, Holders
<1>2. ASSUME NEW r \in Requests, NEW ip \in Clients,
             \/ RateLimited(r, ip)
             \/ Status(r, ip)
             \/ TooManyInFlight(r, ip)
             \/ Invalid(r, ip)
             \/ StartSearch(r, ip)
             \/ StartStream(r, ip)
      PROVE  Inv'
  BY <1>2, EnterStep
<1>3. ASSUME NEW r \in Requests, SearchEnds(r)
      PROVE  Inv'
  <2>1. reply' \in Replies
    BY <1>3 DEF SearchEnds, RespondTo, Respond, Replies, Statuses, Endings, Errors
  <2> QED
    BY <1>3, <2>1, ReleaseStep DEF SearchEnds, Holding
<1>4. ASSUME NEW r \in Requests, StreamStarts(r)
      PROVE  Inv'
  <2>1. reply' \in Replies
    BY <1>4 DEF StreamStarts, Respond, Replies, Statuses
  <2> QED
    BY <1>4, <2>1, HoldStep DEF StreamStarts, Holding
<1>5. ASSUME NEW r \in Requests,
             StreamEnds(r) \/ LeaveStream(r) \/ CloseOrphan(r)
      PROVE  Inv'
  <2>1. CASE Release(r)
    BY <1>0, <1>5, <2>1, ReleaseStep
       DEF StreamEnds, LeaveStream, CloseOrphan, Holding
  <2>2. CASE /\ pc' = [pc EXCEPT ![r] = "orphaned"]
             /\ UNCHANGED <<inflight, limiter, lost>>
             /\ LeaveStream(r)
    BY <1>0, <2>2, HoldStep DEF LeaveStream, Holding
  <2> QED
    BY <1>5, <2>1, <2>2 DEF StreamEnds, LeaveStream, CloseOrphan
<1>6. ASSUME NEW r \in Requests, LeaveUnstarted(r)
      PROVE  Inv'
  <2>1. /\ Cardinality(Holders') = Cardinality(Holders) - 1
        /\ lost' = lost + 1 /\ inflight' = inflight
    BY <1>6, LeaveSlot DEF LeaveUnstarted, Inv, Holding
  <2>2. lost \in Nat /\ inflight \in Nat /\ Cardinality(Holders) \in Nat
    BY HoldersFinite DEF Inv, TypeOK
  <2>3. pc' \in [Requests -> Holding \cup {"idle"}]
    BY <1>6 DEF LeaveUnstarted, Inv, TypeOK
  <2>4. SlotsCounted'
    BY <2>1, <2>2 DEF Inv, SlotsCounted
  <2>5. TypeOK'
    BY <1>6, <2>1, <2>2, <2>3 DEF Inv, TypeOK, LeaveUnstarted, limiter
  <2> QED
    BY <2>4, <2>5 DEF Inv
<1>7. CASE Tick
  <2>1. tokenAge' \in 0..Window /\ ipAge' \in 0..Window
    BY <1>7, HttpAssumption DEF Tick, Older, Inv, TypeOK
  <2>2. recent' \in [Back -> Nat]
    <3>1. \A k \in Back : k # 0 => k - 1 \in Back
      BY HttpAssumption DEF Back
    <3> QED
      BY <1>7, <3>1 DEF Tick, Inv, TypeOK
  <2> QED
    BY <1>7, <2>1, <2>2 DEF Tick, Inv, TypeOK, SlotsCounted, Holders
<1>8. CASE UNCHANGED vars
  BY <1>8 DEF vars, limiter, Inv, TypeOK, SlotsCounted, Holders
<1> QED
  BY <1>1, <1>2, <1>3, <1>4, <1>5, <1>6, <1>7, <1>8 DEF Next

LEMMA InvAlways == Spec => []Inv
<1> QED
  BY InvInit, InvStep, PTL DEF Spec

(* The counters of the limiter stay within their limits, and the slots in  *)
(* use and lost are natural numbers: nothing is given back twice.          *)
THEOREM TypeCorrect == Spec => []TypeOK
<1>1. Inv => TypeOK
  BY DEF Inv
<1> QED
  BY <1>1, InvAlways, PTL

(* At most max_concurrent_per_token requests run at a time, whichever way  *)
(* requests end, and only unstarted streams lose a slot.                   *)
THEOREM ConcurrencyBounded == Spec => []SlotsCounted
<1>1. Inv => SlotsCounted
  BY DEF Inv
<1> QED
  BY <1>1, InvAlways, PTL
-----------------------------------------------------------------------------
(* Between two resets the counter of the token covers what it was given.   *)
(* What was admitted within k ticks is counted as long as the window is    *)
(* older than that; and what was counted before the last reset was less    *)
(* than a window's worth.                                                  *)
Counted ==
    /\ \A k \in Back : k < tokenAge => recent[k] <= tokenCount
    /\ \A k \in Back : recent[k] <= tokenCount + TokenLimit

LEMMA CountedInit == Init => Counted
<1> SUFFICES ASSUME Init PROVE Counted
  OBVIOUS
<1>1. TokenLimit \in Nat /\ TokenLimit >= 0
  BY HttpAssumption
<1> QED
  BY <1>1 DEF Init, Counted

(* allow, whether it admits the request or not.  When the window has       *)
(* expired every k in Back is covered by the old count, at most TokenLimit.*)
LEMMA CountedEnter ==
  ASSUME TypeOK, Counted, NEW ip \in Clients, Allow(ip) \/ Refuse(ip)
  PROVE  Counted'
<1>1. /\ TokenLimit \in Nat /\ Window \in Nat /\ tokenCount \in 0..TokenLimit
      /\ tokenAge \in 0..Window /\ recent \in [Back -> Nat]
  BY HttpAssumption DEF TypeOK
<1>2. \A k \in Back : k \in Nat /\ k < Window
  BY HttpAssumption DEF Back
<1>3. CASE Allow(ip)
  <2>1. /\ tokenCount' = TokenUsed + 1
        /\ tokenAge' = IF TokenExpired THEN 0 ELSE tokenAge
        /\ \A k \in Back : recent'[k] = recent[k] + 1
    BY <1>3 DEF Allow, ResetWindows
  <2>2. CASE TokenExpired
    BY <1>1, <1>2, <2>1, <2>2 DEF Counted, TokenUsed, TokenExpired
  <2>3. CASE ~TokenExpired
    BY <1>1, <1>2, <2>1, <2>3 DEF Counted, TokenUsed
  <2> QED
    BY <2>2, <2>3
<1>4. CASE Refuse(ip)
  <2>1. /\ tokenCount' = TokenUsed
        /\ tokenAge' = IF TokenExpired THEN 0 ELSE tokenAge
        /\ recent' = recent
    BY <1>4 DEF Refuse, ResetWindows
  <2>2. CASE TokenExpired
    BY <1>1, <1>2, <2>1, <2>2 DEF Counted, TokenUsed, TokenExpired
  <2>3. CASE ~TokenExpired
    BY <1>1, <1>2, <2>1, <2>3 DEF Counted, TokenUsed
  <2> QED
    BY <2>2, <2>3
<1> QED
  BY <1>3, <1>4

LEMMA CountedTick ==
  ASSUME TypeOK, Counted, Tick
  PROVE  Counted'
<1>1. /\ TokenLimit \in Nat /\ Window \in Nat /\ tokenCount \in 0..TokenLimit
      /\ tokenAge \in 0..Window /\ recent \in [Back -> Nat]
  BY HttpAssumption DEF TypeOK
<1>2. tokenCount' = tokenCount /\ tokenAge' = Older(tokenAge)
  BY DEF Tick
<1>3. ASSUME NEW k \in Back
      PROVE  /\ k < tokenAge' => recent'[k] <= tokenCount'
             /\ recent'[k] <= tokenCount' + TokenLimit
  <2>1. k \in Nat /\ k < Window
    BY HttpAssumption DEF Back
  <2>2. recent'[k] = IF k = 0 THEN 0 ELSE recent[k - 1]
    BY DEF Tick
  <2>3. CASE k = 0
    BY <1>1, <1>2, <2>2, <2>3
  <2>4. CASE k # 0
    <3>1. k - 1 \in Back
      BY <1>1, <2>1, <2>4 DEF Back
    <3>2. k < tokenAge' => k - 1 < tokenAge
      BY <1>1, <1>2, <2>1 DEF Older
    <3> QED
      BY <1>1, <1>2, <2>2, <2>4, <3>1, <3>2 DEF Counted
  <2> QED
    BY <2>3, <2>4
<1> QED
  BY <1>3 DEF Counted

LEMMA CountedStep == Inv /\ Counted /\ [Next]_vars => Counted'
<1> SUFFICES ASSUME Inv, Counted, [Next]_vars PROVE Counted'
  OBVIOUS
<1>0. TypeOK
  BY DEF Inv
<1>1. ASSUME UNCHANGED limiter
      PROVE  Counted'
  BY <1>1 DEF Counted, limiter
<1>2. ASSUME NEW r \in Requests, NEW ip \in Clients,
             \/ RateLimited(r, ip)
             \/ Status(r, ip)
             \/ TooManyInFlight(r, ip)
             \/ Invalid(r, ip)
             \/ StartSearch(r, ip)
             \/ StartStream(r, ip)
      PROVE  Counted'
  BY <1>0, <1>2, CountedEnter
     DEF RateLimited, Status, TooManyInFlight, Invalid, StartSearch, StartStream
<1>3. ASSUME NEW r \in Requests,
             \/ BodyTooLarge(r) \/ Unauthorized(r)
             \/ SearchEnds(r) \/ StreamStarts(r) \/ StreamEnds(r)
             \/ LeaveStream(r) \/ CloseOrphan(r) \/ LeaveUnstarted(r)
      PROVE  Counted'
  <2>1. UNCHANGED limiter
    BY <1>3 DEF BodyTooLarge, Unauthorized, SearchEnds, StreamStarts, StreamEnds,
                LeaveStream, CloseOrphan, LeaveUnstarted, Release
  <2> QED
    BY <1>1, <2>1
<1>4. CASE Tick
  BY <1>0, <1>4, CountedTick
<1>5. CASE UNCHANGED vars
  BY <1>1, <1>5 DEF vars
<1> QED
  BY <1>2, <1>3, <1>4, <1>5 DEF Next

(* A minute admits at most two windows' worth, wherever it starts and      *)
(* however the requests, the refusals and the resets fall: the counters    *)
(* are cleared by the clock of the first request after the minute, not by  *)
(* a sliding window, and twice the limit is what that costs.               *)
THEOREM MinuteBounded == Spec => []MinuteBound
<1>1. Inv /\ Counted => MinuteBound
  <2> SUFFICES ASSUME Inv, Counted PROVE MinuteBound
    OBVIOUS
  <2>1. Window - 1 \in Back
    BY HttpAssumption DEF Back
  <2>2. recent[Window - 1] <= tokenCount + TokenLimit
    BY <2>1 DEF Counted
  <2>3. recent[Window - 1] \in Nat /\ tokenCount \in 0..TokenLimit /\ TokenLimit \in Nat
    BY <2>1, HttpAssumption DEF Inv, TypeOK
  <2> QED
    BY <2>2, <2>3 DEF MinuteBound
<1> QED
  BY <1>1, CountedInit, CountedStep, InvAlways, PTL DEF Spec
=============================================================================
