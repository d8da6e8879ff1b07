------------------------- MODULE SearchClientProofs -------------------------
(***************************************************************************)
(* Proofs about SearchClient and the SearXNG provider below it, for any    *)
(* number of searches, token periods, cool-downs and retries: types, the   *)
(* queues behind the locks of the buckets, the growth of the cool-downs    *)
(* and the fate of an answer of Brave.                                     *)
(***************************************************************************)
EXTENDS SearchClient, SequenceTheorems, WellFoundedInduction, TLAPS

-----------------------------------------------------------------------------
(* Cool-downs                                                              *)

LEMMA LeastElement ==
  ASSUME NEW T \in SUBSET Nat, T # {}
  PROVE  \E x \in T : \A y \in T : x <= y
<1>1. PICK x \in T : \A y \in T : ~ (<<y, x>> \in OpToRel(<, Nat))
  BY NatLessThanWellFounded, WFMin
<1>2. \A y \in T : <<y, x>> \in OpToRel(<, Nat) <=> y < x
  BY <1>1 DEF OpToRel
<1>3. \A y \in T : y \in Nat /\ x \in Nat /\ ~(y < x)
  BY <1>1, <1>2
<1>4. \A y \in T : x <= y
  BY <1>3
<1> QED
  BY <1>1, <1>4

(* The equation that defines Cooldown up to m has a solution.              *)
IsCooldown(f, m) == f = [n \in 0..m |-> IF n = 0 THEN Base ELSE 2 * f[n - 1]]

LEMMA CooldownExists == \A m \in Nat : \E f : IsCooldown(f, m)
<1> DEFINE T == {m \in Nat : ~ \E f : IsCooldown(f, m)}
<1> SUFFICES ASSUME T # {} PROVE FALSE
  OBVIOUS
<1>1. PICK x \in T : \A y \in T : x <= y
  BY LeastElement
<1>2. CASE x = 0
  <2> DEFINE f == [n \in {0} |-> Base]
  <2>1. 0..0 = {0}
    OBVIOUS
  <2>2. f = [n \in 0..0 |-> IF n = 0 THEN Base ELSE 2 * f[n - 1]]
    BY <2>1
  <2> HIDE DEF f
  <2>3. IsCooldown(f, 0)
    BY <2>2 DEF IsCooldown
  <2> QED
    BY <1>1, <1>2, <2>3
<1>3. CASE x # 0
  <2>1. x - 1 \in Nat /\ x \in Nat
    BY <1>1, <1>3
  <2>2. x - 1 \notin T
    BY <1>1, <2>1
  <2>3. PICK g : IsCooldown(g, x - 1)
    BY <2>1, <2>2
  <2> DEFINE f == [n \in 0..x |-> IF n = x THEN 2 * g[x - 1] ELSE g[n]]
  <2>4. ASSUME NEW n \in 0..x
        PROVE f[n] = IF n = 0 THEN Base ELSE 2 * f[n - 1]
    <3>0. \A i \in 0..(x - 1) : g[i] = IF i = 0 THEN Base ELSE 2 * g[i - 1]
      BY <2>3 DEF IsCooldown
    <3>1. CASE n = x
      <4>1. f[n] = 2 * g[x - 1]
        BY <3>1
      <4>2. x - 1 \in 0..x /\ x - 1 # x
        BY <2>1
      <4>3. f[n - 1] = g[x - 1]
        BY <3>1, <4>2
      <4> QED
        BY <1>3, <3>1, <4>1, <4>3
    <3>2. CASE n # x
      <4>1. n \in 0..(x - 1) /\ f[n] = g[n]
        BY <2>1, <3>2
      <4>2. n # 0 => n - 1 \in 0..x /\ n - 1 # x
        BY <2>1, <4>1
      <4>3. n # 0 => f[n - 1] = g[n - 1]
        BY <4>2
      <4> HIDE DEF f
      <4> QED
        BY <3>0, <4>1, <4>3
    <3> QED
      BY <3>1, <3>2
  <2>5. f = [n \in 0..x |-> f[n]]
    OBVIOUS
  <2> HIDE DEF f
  <2>6. f = [n \in 0..x |-> IF n = 0 THEN Base ELSE 2 * f[n - 1]]
    BY <2>4, <2>5
  <2>7. IsCooldown(f, x)
    BY <2>6 DEF IsCooldown
  <2> QED
    BY <1>1, <2>7
<1> QED
  BY <1>2, <1>3

LEMMA CooldownDef ==
  \A n \in 0..Doublings : Cooldown[n] = IF n = 0 THEN Base ELSE 2 * Cooldown[n - 1]
<1>1. \E f : IsCooldown(f, Doublings)
  BY CooldownExists, SearXNGAssumption
<1>2. IsCooldown(CHOOSE f : IsCooldown(f, Doublings), Doublings)
  BY <1>1
<1>3. Cooldown = CHOOSE f : IsCooldown(f, Doublings)
  BY DEF Cooldown, IsCooldown
<1>4. IsCooldown(Cooldown, Doublings)
  BY <1>2, <1>3
<1> QED
  BY <1>4 DEF IsCooldown

LEMMA CooldownType == \A n \in 0..Doublings : Cooldown[n] \in Nat
<1> DEFINE T == {n \in 0..Doublings : Cooldown[n] \notin Nat}
<1> SUFFICES ASSUME T # {} PROVE FALSE
  OBVIOUS
<1>0. Doublings \in Nat /\ Base \in Nat /\ T \in SUBSET Nat
  BY SearXNGAssumption
<1>1. PICK x \in T : \A y \in T : x <= y
  BY <1>0, LeastElement
<1>2. x \in 0..Doublings /\ Cooldown[x] \notin Nat
  BY <1>1
<1>3. x # 0
  BY <1>0, <1>2, CooldownDef
<1>4. x - 1 \in 0..Doublings /\ ~(x <= x - 1)
  BY <1>0, <1>2, <1>3
<1>5. Cooldown[x - 1] \in Nat
  BY <1>1, <1>4
<1>6. Cooldown[x] = 2 * Cooldown[x - 1]
  BY <1>2, <1>3, CooldownDef
<1> QED
  BY <1>2, <1>5, <1>6

(* Cool-downs double, and none exceeds the last.                           *)
LEMMA CooldownDoubles ==
  ASSUME NEW n \in 0..Doublings, n < Doublings
  PROVE  n + 1 \in 0..Doublings /\ Cooldown[n + 1] = 2 * Cooldown[n]
<1>1. n + 1 \in 0..Doublings /\ n + 1 # 0 /\ (n + 1) - 1 = n
  BY SearXNGAssumption
<1> QED
  BY <1>1, CooldownDef

LEMMA CooldownBound == \A n \in 0..Doublings : Cooldown[n] <= Cooldown[Doublings]
<1> DEFINE T == {j \in 0..Doublings : ~(Cooldown[Doublings - j] <= Cooldown[Doublings])}
<1>0. Doublings \in Nat /\ T \in SUBSET Nat /\ Cooldown[Doublings] \in Nat
  BY SearXNGAssumption, CooldownType
<1>1. T = {}
  <2> SUFFICES ASSUME T # {} PROVE FALSE
    OBVIOUS
  <2>1. PICK x \in T : \A y \in T : x <= y
    BY <1>0, LeastElement
  <2>2. x \in 0..Doublings /\ ~(Cooldown[Doublings - x] <= Cooldown[Doublings])
    BY <2>1
  <2>3. x # 0
    BY <1>0, <2>2
  <2>4. x - 1 \in 0..Doublings /\ ~(x <= x - 1)
    BY <1>0, <2>2, <2>3
  <2>5. Cooldown[Doublings - (x - 1)] <= Cooldown[Doublings]
    BY <2>1, <2>4
  <2> DEFINE n == Doublings - x
  <2>6. n \in 0..Doublings /\ n < Doublings /\ Doublings - (x - 1) = n + 1
    BY <1>0, <2>2, <2>3
  <2>7. Cooldown[n + 1] = 2 * Cooldown[n] /\ Cooldown[n] \in Nat
    BY <2>6, CooldownDoubles, CooldownType
  <2> QED
    BY <1>0, <2>2, <2>5, <2>6, <2>7
<1>2. ASSUME NEW n \in 0..Doublings
      PROVE  Cooldown[n] <= Cooldown[Doublings]
  <2>1. Doublings - n \in 0..Doublings /\ Doublings - (Doublings - n) = n
    BY <1>0
  <2> QED
    BY <1>1, <2>1
<1> QED
  BY <1>2

-----------------------------------------------------------------------------
(* Queues of searches                                                      *)

LEMMA QueueFields ==
  ASSUME NEW q \in Seq(Requests)
  PROVE  /\ Len(q) \in Nat
         /\ DOMAIN q = 1..Len(q)
         /\ \A i \in 1..Len(q) : q[i] \in Requests
         /\ ToSet(q) = {q[i] : i \in 1..Len(q)}
  BY LenProperties, ElementOfSeq DEF ToSet

LEMMA AppendQueue ==
  ASSUME NEW q \in Seq(Requests), IsInjective(q),
         NEW r \in Requests, r \notin ToSet(q)
  PROVE  /\ Append(q, r) \in Seq(Requests)
         /\ IsInjective(Append(q, r))
         /\ ToSet(Append(q, r)) = ToSet(q) \cup {r}
<1> DEFINE n == Len(q)
           a == Append(q, r)
<1>1. n \in Nat /\ DOMAIN q = 1..n /\ ToSet(q) = {q[i] : i \in 1..n}
  BY QueueFields
<1>2. a \in Seq(Requests) /\ Len(a) = n + 1
      /\ (\A i \in 1..n : a[i] = q[i]) /\ a[n + 1] = r
  OBVIOUS
<1>3. DOMAIN a = 1..(n + 1) /\ ToSet(a) = {a[i] : i \in 1..(n + 1)}
  BY <1>2, QueueFields
<1> HIDE DEF a, n
<1>4. \A i \in 1..(n + 1) : i \in 1..n \/ i = n + 1
  BY <1>1
<1>5. \A i \in 1..n : q[i] # r
  BY <1>1
<1>6. \A i, j \in 1..n : q[i] = q[j] => i = j
  BY <1>1 DEF IsInjective
<1>7. \A i, j \in 1..(n + 1) : a[i] = a[j] => i = j
  BY <1>2, <1>4, <1>5, <1>6
<1>8. ToSet(a) = ToSet(q) \cup {r}
  <2>1. ASSUME NEW x \in ToSet(a) PROVE x \in ToSet(q) \cup {r}
    BY <1>1, <1>2, <1>3, <1>4
  <2>2. ASSUME NEW x \in ToSet(q) PROVE x \in ToSet(a)
    <3>1. PICK i \in 1..n : x = q[i]
      BY <1>1
    <3>2. i \in 1..(n + 1) /\ a[i] = x
      BY <1>1, <1>2, <3>1
    <3> QED
      BY <1>3, <3>2
  <2>3. r \in ToSet(a)
    BY <1>1, <1>2, <1>3
  <2> QED
    BY <2>1, <2>2, <2>3
<1> QED
  BY <1>2, <1>3, <1>7, <1>8 DEF IsInjective, a

LEMMA TailQueue ==
  ASSUME NEW q \in Seq(Requests), IsInjective(q), q # <<>>
  PROVE  /\ Tail(q) \in Seq(Requests)
         /\ IsInjective(Tail(q))
         /\ ToSet(Tail(q)) = ToSet(q) \ {Head(q)}
<1> DEFINE n == Len(q)
           t == Tail(q)
<1>1. n \in Nat /\ DOMAIN q = 1..n /\ ToSet(q) = {q[i] : i \in 1..n} /\ n > 0
  BY QueueFields, EmptySeq
<1>2. t \in Seq(Requests) /\ Len(t) = n - 1 /\ Head(q) = q[1]
      /\ (\A i \in 1..(n - 1) : t[i] = q[i + 1])
  BY HeadTailProperties
<1>3. DOMAIN t = 1..(n - 1) /\ ToSet(t) = {t[i] : i \in 1..(n - 1)}
  BY <1>2, QueueFields
<1> HIDE DEF t, n
<1>4. \A i, j \in 1..n : q[i] = q[j] => i = j
  BY <1>1 DEF IsInjective
<1>5. \A i \in 1..(n - 1) : i + 1 \in 1..n /\ i + 1 # 1
  BY <1>1
<1>6. \A i, j \in 1..(n - 1) : t[i] = t[j] => i = j
  BY <1>2, <1>4, <1>5
<1>7. ToSet(t) = ToSet(q) \ {Head(q)}
  <2>1. ASSUME NEW x \in ToSet(t) PROVE x \in ToSet(q) \ {Head(q)}
    <3>1. PICK i \in 1..(n - 1) : x = t[i]
      BY <1>3
    <3>2. x = q[i + 1] /\ i + 1 \in 1..n /\ i + 1 # 1 /\ 1 \in 1..n
      BY <1>1, <1>2, <1>5, <3>1
    <3> QED
      BY <1>1, <1>2, <1>4, <3>2
  <2>2. ASSUME NEW x \in ToSet(q), x # Head(q) PROVE x \in ToSet(t)
    <3>1. PICK i \in 1..n : x = q[i]
      BY <1>1
    <3>2. i # 1
      BY <1>2, <2>2, <3>1
    <3>3. i - 1 \in 1..(n - 1) /\ (i - 1) + 1 = i
      BY <1>1, <3>1, <3>2
    <3>4. t[i - 1] = x
      BY <1>2, <3>1, <3>3
    <3> QED
      BY <1>3, <3>3, <3>4
  <2> QED
    BY <2>1, <2>2
<1> QED
  BY <1>2, <1>3, <1>6, <1>7 DEF IsInjective, t

LEMMA RemoveQueue ==
  ASSUME NEW q \in Seq(Requests), IsInjective(q), NEW r \in Requests
  PROVE  /\ RemoveFirst(q, r) \in Seq(Requests)
         /\ IsInjective(RemoveFirst(q, r))
         /\ ToSet(RemoveFirst(q, r)) = ToSet(q) \ {r}
<1> DEFINE n == Len(q)
           t == RemoveFirst(q, r)
<1>1. n \in Nat /\ DOMAIN q = 1..n /\ ToSet(q) = {q[i] : i \in 1..n}
      /\ \A i \in 1..n : q[i] \in Requests
  BY QueueFields
<1>2. \A i, j \in 1..n : q[i] = q[j] => i = j
  BY <1>1 DEF IsInjective
<1>3. CASE ~ \E i \in 1..n : q[i] = r
  <2>1. t = q
    BY <1>3 DEF RemoveFirst
  <2> QED
    BY <1>1, <1>3, <2>1
<1>4. ASSUME NEW k \in 1..n, q[k] = r
      PROVE  /\ t \in Seq(Requests)
             /\ IsInjective(t)
             /\ ToSet(t) = ToSet(q) \ {r}
  <2>1. t = RemoveAt(q, k)
    <3>1. {i \in 1..n : q[i] = r} = {k}
      BY <1>2, <1>4
    <3>2. Min({k}) = k
      <4>1. \A y \in {k} : k <= y
        BY <1>1
      <4> QED
        BY <4>1 DEF Min
    <3>3. SelectInSeq(q, LAMBDA v : v = r) = k
      BY <3>1, <3>2 DEF SelectInSeq
    <3> QED
      BY <1>4, <3>3 DEF RemoveFirst
  <2> DEFINE front == SubSeq(q, 1, k - 1)
             back == SubSeq(q, k + 1, n)
  <2>2. t = front \o back
    BY <2>1 DEF RemoveAt
  <2>3. /\ front \in Seq(Requests) /\ Len(front) = k - 1
        /\ \A i \in 1..(k - 1) : front[i] = q[i]
    <3>1. \A i \in 1..(k - 1) : q[i] \in Requests
      BY <1>1
    <3>2. k - 1 \in Int /\ 1 \in Int /\ (k - 1) - 1 + 1 = k - 1
      BY <1>1
    <3>3. /\ front \in Seq(Requests)
          /\ Len(front) = IF 1 <= k - 1 THEN (k - 1) - 1 + 1 ELSE 0
          /\ \A i \in 1..((k - 1) - 1 + 1) : front[i] = q[1 + i - 1]
      BY <3>1, <3>2, SubSeqProperties
    <3> HIDE DEF front
    <3> QED
      BY <1>1, <3>3
  <2>4. /\ back \in Seq(Requests) /\ Len(back) = n - k
        /\ \A i \in 1..(n - k) : back[i] = q[k + i]
    <3>1. \A i \in (k + 1)..n : q[i] \in Requests
      BY <1>1
    <3>2. k + 1 \in Int /\ n \in Int /\ n - (k + 1) + 1 = n - k
      BY <1>1
    <3>3. /\ back \in Seq(Requests)
          /\ Len(back) = IF k + 1 <= n THEN n - (k + 1) + 1 ELSE 0
          /\ \A i \in 1..(n - (k + 1) + 1) : back[i] = q[k + 1 + i - 1]
      BY <3>1, <3>2, SubSeqProperties
    <3> HIDE DEF back, n
    <3>4. Len(back) = n - k
      BY <1>1, <3>2, <3>3
    <3>5. \A i \in 1..(n - k) : k + 1 + i - 1 = k + i
      BY <1>1
    <3> QED
      BY <3>2, <3>3, <3>4, <3>5
  <2> HIDE DEF front, back, t, n
  <2>5. /\ t \in Seq(Requests) /\ Len(t) = n - 1
        /\ \A i \in 1..(n - 1) : t[i] = IF i < k THEN q[i] ELSE q[i + 1]
    <3>1. /\ t \in Seq(Requests) /\ Len(t) = (k - 1) + (n - k)
          /\ \A i \in 1..((k - 1) + (n - k)) :
               t[i] = IF i <= k - 1 THEN front[i] ELSE back[i - (k - 1)]
      BY <2>2, <2>3, <2>4, ConcatProperties
    <3>2. (k - 1) + (n - k) = n - 1
      BY <1>1
    <3>3. ASSUME NEW i \in 1..(n - 1)
          PROVE  t[i] = IF i < k THEN q[i] ELSE q[i + 1]
      <4>1. CASE i < k
        <5>1. i \in 1..(k - 1) /\ i <= k - 1
          BY <1>1, <4>1
        <5> QED
          BY <2>3, <3>1, <3>2, <4>1, <5>1
      <4>2. CASE ~(i < k)
        <5>1. i - (k - 1) \in 1..(n - k) /\ ~(i <= k - 1) /\ k + (i - (k - 1)) = i + 1
          BY <1>1, <4>2
        <5>2. back[i - (k - 1)] = q[i + 1]
          BY <2>4, <5>1
        <5> QED
          BY <3>1, <3>2, <4>2, <5>1, <5>2
      <4> QED
        BY <4>1, <4>2
    <3> QED
      BY <3>1, <3>2, <3>3
  <2>6. DOMAIN t = 1..(n - 1) /\ ToSet(t) = {t[i] : i \in 1..(n - 1)}
    BY <2>5, QueueFields
  <2> DEFINE at(i) == IF i < k THEN i ELSE i + 1
  <2>7. \A i \in 1..(n - 1) : at(i) \in 1..n /\ at(i) # k /\ t[i] = q[at(i)]
    BY <1>1, <2>5
  <2>8. \A i, j \in 1..(n - 1) : at(i) = at(j) => i = j
    BY <1>1
  <2> HIDE DEF at
  <2>9. IsInjective(t)
    BY <1>2, <2>6, <2>7, <2>8 DEF IsInjective
  <2>10. ToSet(t) = ToSet(q) \ {r}
    <3>1. ASSUME NEW x \in ToSet(t) PROVE x \in ToSet(q) \ {r}
      <4>1. PICK i \in 1..(n - 1) : x = t[i]
        BY <2>6
      <4>2. at(i) \in 1..n /\ at(i) # k /\ x = q[at(i)]
        BY <2>7, <4>1
      <4> QED
        BY <1>1, <1>2, <1>4, <4>2
    <3>2. ASSUME NEW x \in ToSet(q), x # r PROVE x \in ToSet(t)
      <4>1. PICK i \in 1..n : x = q[i]
        BY <1>1
      <4>2. i # k
        BY <1>4, <3>2, <4>1
      <4>3. CASE i < k
        <5>1. i \in 1..(n - 1) /\ t[i] = x
          BY <1>1, <2>5, <4>1, <4>3
        <5> QED
          BY <2>6, <5>1
      <4>4. CASE ~(i < k)
        <5>1. i - 1 \in 1..(n - 1) /\ ~(i - 1 < k) /\ (i - 1) + 1 = i
          BY <1>1, <4>2, <4>4
        <5>2. t[i - 1] = x
          BY <2>5, <4>1, <5>1
        <5> QED
          BY <2>6, <5>1, <5>2
      <4> QED
        BY <4>3, <4>4
    <3> QED
      BY <3>1, <3>2
  <2> QED
    BY <2>5, <2>9, <2>10
<1> QED
  BY <1>3, <1>4
-----------------------------------------------------------------------------
(* The breaker                                                             *)

(* What makes the cool-downs grow: before the last doubling, the next trip *)
(* will be twice as long as any trip of the day.                           *)
BreakerInv ==
    /\ off \in [Engines -> 0..Cooldown[Doublings]]
    /\ trips \in [Engines -> 0..Doublings]
    /\ longest \in [Engines -> 0..Cooldown[Doublings]]
    /\ \A e \in Engines :
          trips[e] < Doublings => 2 * longest[e] <= Cooldown[trips[e]]

Grows(e) ==
    \/ off'[e] \in {off[e], Sooner(off[e])}
    \/ off'[e] >= 2 * longest[e]
    \/ off'[e] = Cooldown[Doublings]

LEMMA Longest == 0 \in 0..Cooldown[Doublings] /\ Cooldown[Doublings] \in Nat
  BY CooldownType, SearXNGAssumption

LEMMA NewDayInv ==
  /\ NoEngine \in [Engines -> 0..Cooldown[Doublings]]
  /\ NoEngine \in [Engines -> 0..Doublings]
  /\ \A e \in Engines : 2 * NoEngine[e] <= Cooldown[NoEngine[e]]
<1>1. 0 \in 0..Doublings /\ Cooldown[0] \in Nat
  BY CooldownType, SearXNGAssumption
<1>2. 2 * 0 <= Cooldown[0]
  BY <1>1
<1>3. NoEngine = [e \in Engines |-> 0]
  BY DEF NoEngine
<1> QED
  BY <1>1, <1>2, <1>3, Longest

LEMMA BreakerStill ==
  ASSUME BreakerInv, UNCHANGED breaker
  PROVE  BreakerInv' /\ \A e \in Engines : Grows(e)
  BY DEF BreakerInv, breaker, Grows

LEMMA TripStep ==
  ASSUME BreakerInv, NEW r \in Requests, NEW T, Ends(r, T)
  PROVE  BreakerInv' /\ \A e \in Engines : Grows(e)
<1>1. ASSUME NEW e \in Engines
      PROVE  /\ off'[e] \in 0..Cooldown[Doublings]
             /\ trips'[e] \in 0..Doublings
             /\ longest'[e] \in 0..Cooldown[Doublings]
             /\ trips'[e] < Doublings => 2 * longest'[e] <= Cooldown[trips'[e]]
             /\ Grows(e)
  <2>1. /\ off[e] \in 0..Cooldown[Doublings] /\ trips[e] \in 0..Doublings
        /\ longest[e] \in 0..Cooldown[Doublings]
        /\ trips[e] < Doublings => 2 * longest[e] <= Cooldown[trips[e]]
    BY DEF BreakerInv
  <2>2. /\ off'[e] = IF e \in T THEN Cooldown[trips[e]] ELSE off[e]
        /\ trips'[e] = IF e \in T /\ trips[e] < Doublings THEN trips[e] + 1 ELSE trips[e]
        /\ longest'[e] = IF e \in T /\ off'[e] > longest[e] THEN off'[e] ELSE longest[e]
    BY DEF Ends, Trip
  <2>3. Cooldown[trips[e]] \in 0..Cooldown[Doublings]
    BY <2>1, Longest, CooldownType, CooldownBound
  <2>4. CASE e \notin T
    BY <2>1, <2>2, <2>4 DEF Grows
  <2>5. CASE e \in T /\ trips[e] < Doublings
    <3>1. trips[e] + 1 \in 0..Doublings /\ Cooldown[trips[e] + 1] = 2 * Cooldown[trips[e]]
      BY <2>1, <2>5, CooldownDoubles
    <3>2. off'[e] = Cooldown[trips[e]] /\ trips'[e] = trips[e] + 1
      BY <2>2, <2>5
    <3>3. off'[e] >= 2 * longest[e]
      BY <2>1, <2>3, <2>5, <3>2
    <3>4. longest'[e] \in 0..Cooldown[Doublings] /\ longest'[e] <= Cooldown[trips[e]]
      BY <2>1, <2>2, <2>3, <2>5, <3>2, <3>3
    <3>5. 2 * longest'[e] <= Cooldown[trips'[e]]
      BY <2>3, <3>1, <3>2, <3>4
    <3> QED
      BY <2>3, <3>1, <3>2, <3>3, <3>4, <3>5 DEF Grows
  <2>6. CASE e \in T /\ ~(trips[e] < Doublings)
    <3>1. trips[e] = Doublings /\ trips'[e] = Doublings
      BY <2>1, <2>2, <2>6, SearXNGAssumption
    <3>2. off'[e] = Cooldown[Doublings]
      BY <2>2, <2>6, <3>1
    <3>3. ~(Doublings < Doublings)
      BY SearXNGAssumption
    <3> QED
      BY <2>1, <2>2, <2>3, <3>1, <3>2, <3>3 DEF Grows
  <2> QED
    BY <2>4, <2>5, <2>6
<1>2. /\ off' = [e \in Engines |-> off'[e]]
      /\ trips' = [e \in Engines |-> trips'[e]]
      /\ longest' = [e \in Engines |-> longest'[e]]
  BY DEF Ends, Trip
<1>3. /\ off' \in [Engines -> 0..Cooldown[Doublings]]
      /\ trips' \in [Engines -> 0..Doublings]
      /\ longest' \in [Engines -> 0..Cooldown[Doublings]]
  BY <1>1, <1>2
<1> QED
  BY <1>1, <1>3 DEF BreakerInv

LEMMA BreakerTime ==
  ASSUME BreakerInv, Tick \/ NewDay
  PROVE  BreakerInv' /\ \A e \in Engines : Grows(e)
<1>1. CASE Tick
  <2>1. \A e \in Engines : off'[e] = Sooner(off[e]) /\ off'[e] \in 0..Cooldown[Doublings]
    BY <1>1, Longest DEF Tick, Sooner, BreakerInv
  <2>2. off' = [e \in Engines |-> off'[e]]
    BY <1>1 DEF Tick
  <2>3. off' \in [Engines -> 0..Cooldown[Doublings]]
    BY <2>1, <2>2
  <2> QED
    BY <1>1, <2>1, <2>3 DEF Tick, BreakerInv, Grows
<1>2. CASE NewDay
  BY <1>2, NewDayInv DEF NewDay, BreakerInv, Grows
<1> QED
  BY <1>1, <1>2

-----------------------------------------------------------------------------
(* The buckets and their queues                                            *)

ReadyType == {f \in [Engines -> Nat] : \A e \in Engines : f[e] \in 0..Period[e]}
QueueType == {q \in [Engines -> Seq(Requests)] : \A e \in Engines : IsInjective(q[e])}

BucketInv ==
    /\ ready \in ReadyType
    /\ queue \in QueueType
    /\ sx \in [Requests -> SearchType]
    /\ QueuesConsistent

LEMMA PeriodType == \A e \in Engines : Period[e] \in Nat \ {0}
  BY SearXNGAssumption DEF Engines, Period

LEMMA FirstEngineFacts ==
  /\ \A S : FirstEngine(S) \in Engines
  /\ \A S \in SUBSET Engines : S # {} => FirstEngine(S) \in S
  BY DEF FirstEngine, Engines

(* The loop over the buckets, for a search r that is in no queue: it       *)
(* suspends behind the lock of the first engine whose token is missing,    *)
(* or in none.                                                             *)
LEMMA TakeTokensStep ==
  ASSUME NEW r \in Requests, NEW k \in SearchType, NEW rd \in ReadyType,
         NEW qu \in QueueType, sx \in [Requests -> SearchType],
         \A e \in Engines : ToSet(qu[e]) = Waiting(e) \ {r},
         TakeTokens(r, k, rd, qu)
  PROVE  BucketInv'
<1> DEFINE busy == {e \in k.left : qu[e] # <<>> \/ rd[e] > 0}
           stop == FirstEngine(busy)
           taken == {e \in k.left : busy = {} \/ (e # stop /\ FirstEngine({e, stop}) = e)}
<1>1. k.left \in SUBSET Engines /\ busy \in SUBSET Engines /\ stop \in Engines
  BY FirstEngineFacts DEF SearchType
<1>2. ready' \in ReadyType
  <2>1. ready' = [e \in Engines |-> IF e \in taken THEN Period[e] ELSE rd[e]]
    BY DEF TakeTokens
  <2> HIDE DEF taken
  <2>2. \A e \in Engines : ready'[e] \in Nat /\ ready'[e] \in 0..Period[e]
    BY <2>1, PeriodType DEF ReadyType
  <2> QED
    BY <2>1, <2>2 DEF ReadyType
<1>3. CASE busy = {}
  <2>1. sx' = [sx EXCEPT ![r] = [k EXCEPT !.pc = "http", !.left = {}]] /\ queue' = qu
    BY <1>3 DEF TakeTokens
  <2>2. [k EXCEPT !.pc = "http", !.left = {}] \in SearchType
    BY DEF SearchType
  <2>3. /\ sx' \in [Requests -> SearchType] /\ sx'[r].pc = "http"
        /\ \A s \in Requests : s # r => sx'[s] = sx[s]
    BY <2>1, <2>2 DEF SearchType
  <2>4. \A e \in Engines : Waiting(e)' = Waiting(e) \ {r}
    BY <2>3 DEF Waiting
  <2>5. QueuesConsistent'
    BY <2>1, <2>4 DEF QueuesConsistent
  <2> QED
    BY <1>2, <2>1, <2>3, <2>5 DEF BucketInv
<1>4. CASE busy # {}
  <2> DEFINE left == k.left \ taken
             n == [k EXCEPT !.pc = "bucket", !.left = left]
  <2>1. sx' = [sx EXCEPT ![r] = n] /\ queue' = [qu EXCEPT ![stop] = Append(qu[stop], r)]
    BY <1>4 DEF TakeTokens
  <2>2. stop \in k.left
    BY <1>1, <1>4, FirstEngineFacts
  <2>3. left \in SUBSET Engines /\ FirstEngine(left) = stop
    <3>1. stop \in left
      BY <1>4, <2>2
    <3>2. left \in SUBSET Engines
      BY <1>1
    <3>3. ASSUME "google" \in left PROVE stop = "google"
      <4>1. FirstEngine({"google", stop}) = "google"
        BY DEF FirstEngine
      <4> HIDE DEF stop
      <4> QED
        BY <3>3, <4>1
    <3> HIDE DEF left, stop
    <3> QED
      BY <1>1, <3>1, <3>2, <3>3 DEF FirstEngine, Engines
  <2> HIDE DEF left, stop
  <2>4. n \in SearchType /\ n.pc = "bucket" /\ n.left = left
    BY <2>3 DEF SearchType
  <2> HIDE DEF n
  <2>5. /\ sx' \in [Requests -> SearchType] /\ sx'[r] = n
        /\ \A s \in Requests : s # r => sx'[s] = sx[s]
    BY <2>1, <2>4
  <2>6. \A e \in Engines : Waiting(e)' = IF e = stop THEN (Waiting(e) \ {r}) \cup {r}
                                                     ELSE Waiting(e) \ {r}
    BY <2>3, <2>4, <2>5 DEF Waiting
  <2>7. /\ Append(qu[stop], r) \in Seq(Requests)
        /\ IsInjective(Append(qu[stop], r))
        /\ ToSet(Append(qu[stop], r)) = ToSet(qu[stop]) \cup {r}
    <3>1. qu[stop] \in Seq(Requests) /\ IsInjective(qu[stop]) /\ r \notin ToSet(qu[stop])
      BY <1>1 DEF QueueType
    <3> QED
      BY <3>1, AppendQueue
  <2> DEFINE longer == Append(qu[stop], r)
  <2>8. /\ queue' \in [Engines -> Seq(Requests)]
        /\ \A e \in Engines : queue'[e] = IF e = stop THEN longer ELSE qu[e]
    <3>1. longer \in Seq(Requests) /\ qu \in [Engines -> Seq(Requests)]
      BY <2>7 DEF QueueType
    <3>2. queue' = [qu EXCEPT ![stop] = longer]
      BY <2>1
    <3> HIDE DEF longer
    <3> QED
      BY <1>1, <3>1, <3>2
  <2> HIDE DEF longer
  <2>9. queue' \in QueueType
    BY <2>7, <2>8 DEF QueueType, longer
  <2>10. QueuesConsistent'
    BY <2>6, <2>7, <2>8 DEF QueuesConsistent, longer
  <2> QED
    BY <1>2, <2>5, <2>9, <2>10 DEF BucketInv
<1> QED
  BY <1>3, <1>4

LEMMA BucketStill ==
  ASSUME BucketInv, UNCHANGED <<buckets, sx>>
  PROVE  BucketInv'
  BY DEF BucketInv, buckets, QueuesConsistent, Waiting

LEMMA QuietType == Quiet \in SearchType /\ Quiet.pc = "idle"
  BY DEF Quiet, SearchType

LEMMA BeginStep ==
  ASSUME BucketInv, NEW r \in Requests, Begin(r)
  PROVE  BucketInv'
<1> DEFINE k == [Quiet EXCEPT !.asked = Active, !.left = Active]
<1>1. k \in SearchType
  BY DEF Quiet, SearchType, Active
<1>2. TakeTokens(r, k, ready, queue)
  BY DEF Begin
<1> HIDE DEF k
<1>3. \A e \in Engines : ToSet(queue[e]) = Waiting(e) \ {r}
  BY DEF BucketInv, QueuesConsistent, Waiting, Begin
<1> QED
  BY <1>1, <1>2, <1>3, TakeTokensStep DEF BucketInv

LEMMA WakeStep ==
  ASSUME BucketInv, NEW r \in Requests, Wake(r)
  PROVE  BucketInv'
<1> DEFINE e == FirstEngine(sx[r].left)
           k == [sx[r] EXCEPT !.left = sx[r].left \ {e}]
           rd == [ready EXCEPT ![e] = Period[e]]
           qu == [queue EXCEPT ![e] = Tail(queue[e])]
<1>1. /\ sx[r].pc = "bucket" /\ Head(queue[e]) = r
      /\ TakeTokens(r, k, rd, qu)
  BY DEF Wake
<1>2. e \in Engines
  BY FirstEngineFacts
<1>3. k \in SearchType
  BY DEF BucketInv, SearchType
<1>4. rd \in ReadyType
  <2> HIDE DEF e
  <2>1. ready \in [Engines -> Nat] /\ \A d \in Engines : ready[d] \in 0..Period[d]
    BY DEF BucketInv, ReadyType
  <2>2. Period[e] \in Nat /\ Period[e] \in 0..Period[e]
    BY <1>2, PeriodType
  <2> QED
    BY <1>2, <2>1, <2>2 DEF ReadyType
<1>5. r \in Waiting(e) /\ \A d \in Engines : d # e => r \notin Waiting(d)
  BY <1>1, <1>2 DEF Waiting
<1> HIDE DEF e, k, rd
<1>6. /\ Tail(queue[e]) \in Seq(Requests)
      /\ IsInjective(Tail(queue[e]))
      /\ ToSet(Tail(queue[e])) = ToSet(queue[e]) \ {r}
  <2>1. queue[e] \in Seq(Requests) /\ IsInjective(queue[e])
    BY <1>2 DEF BucketInv, QueueType
  <2>2. r \in ToSet(queue[e])
    BY <1>2, <1>5 DEF BucketInv, QueuesConsistent
  <2>3. queue[e] # <<>>
    <3> SUFFICES ASSUME queue[e] = <<>> PROVE FALSE
      OBVIOUS
    <3>1. Len(queue[e]) = 0 /\ ToSet(queue[e]) = {queue[e][i] : i \in 1..Len(queue[e])}
      BY <2>1, QueueFields, EmptySeq
    <3> QED
      BY <2>2, <3>1
  <2> QED
    BY <1>1, <2>1, <2>3, TailQueue
<1> DEFINE tail == Tail(queue[e])
<1>7. /\ qu \in [Engines -> Seq(Requests)]
      /\ \A d \in Engines : qu[d] = IF d = e THEN tail ELSE queue[d]
  <2>1. queue \in [Engines -> Seq(Requests)] /\ tail \in Seq(Requests)
    BY <1>6 DEF BucketInv, QueueType
  <2>2. qu = [queue EXCEPT ![e] = tail]
    OBVIOUS
  <2> HIDE DEF tail, qu
  <2> QED
    BY <1>2, <2>1, <2>2
<1> HIDE DEF tail, qu
<1>8. qu \in QueueType
  BY <1>6, <1>7 DEF QueueType, BucketInv, tail
<1>9. \A d \in Engines : ToSet(qu[d]) = Waiting(d) \ {r}
  BY <1>5, <1>6, <1>7 DEF BucketInv, QueuesConsistent, tail
<1> QED
  BY <1>1, <1>3, <1>4, <1>8, <1>9, TakeTokensStep DEF BucketInv

(* A search that ends: at the request it is in no queue, and a cancelled   *)
(* one leaves its queue.                                                   *)
LEMMA EndsStep ==
  ASSUME BucketInv, NEW r \in Requests, NEW T, Ends(r, T)
  PROVE  BucketInv'
<1>1. sx' = [sx EXCEPT ![r] = Quiet] /\ sx[r].pc = "http" /\ UNCHANGED buckets
  BY DEF Ends
<1>2. /\ sx' \in [Requests -> SearchType] /\ sx'[r].pc = "idle"
      /\ \A s \in Requests : s # r => sx'[s] = sx[s]
  BY <1>1, QuietType DEF BucketInv
<1>3. \A e \in Engines : Waiting(e)' = Waiting(e)
  BY <1>1, <1>2 DEF Waiting
<1> QED
  BY <1>1, <1>2, <1>3 DEF BucketInv, buckets, QueuesConsistent

LEMMA DropStep ==
  ASSUME BucketInv, NEW r \in Requests, Drop(r)
  PROVE  BucketInv'
<1>1. sx' = [sx EXCEPT ![r] = Quiet] /\ UNCHANGED ready
  BY DEF Drop
<1>2. /\ sx' \in [Requests -> SearchType] /\ sx'[r].pc = "idle"
      /\ \A s \in Requests : s # r => sx'[s] = sx[s]
  BY <1>1, QuietType DEF BucketInv
<1>3. \A e \in Engines : Waiting(e)' = Waiting(e) \ {r}
  BY <1>2 DEF Waiting
<1>4. ASSUME NEW e \in Engines
      PROVE  /\ queue'[e] \in Seq(Requests)
             /\ IsInjective(queue'[e])
             /\ ToSet(queue'[e]) = ToSet(queue[e]) \ {r}
  <2>1. queue'[e] = RemoveFirst(queue[e], r)
    BY DEF Drop
  <2>2. queue[e] \in Seq(Requests) /\ IsInjective(queue[e])
    BY DEF BucketInv, QueueType
  <2> QED
    BY <2>1, <2>2, RemoveQueue
<1>5. queue' = [e \in Engines |-> queue'[e]]
  BY DEF Drop
<1>6. queue' \in QueueType
  BY <1>4, <1>5 DEF QueueType
<1>7. QueuesConsistent'
  BY <1>3, <1>4 DEF BucketInv, QueuesConsistent
<1> QED
  BY <1>1, <1>2, <1>6, <1>7 DEF BucketInv

LEMMA BucketTime ==
  ASSUME BucketInv, Tick \/ NewDay
  PROVE  BucketInv'
<1>1. CASE Tick
  <2>1. ready' = [e \in Engines |-> Sooner(ready[e])]
    BY <1>1 DEF Tick
  <2>2. ready' \in ReadyType
    <3>1. \A e \in Engines : ready[e] \in Nat /\ ready[e] \in 0..Period[e] /\ Period[e] \in Nat
      BY PeriodType DEF BucketInv, ReadyType
    <3>2. \A e \in Engines : ready'[e] \in Nat /\ ready'[e] \in 0..Period[e]
      BY <2>1, <3>1 DEF Sooner
    <3> QED
      BY <2>1, <3>2 DEF ReadyType
  <2> QED
    BY <1>1, <2>2 DEF Tick, BucketInv, QueuesConsistent, Waiting
<1>2. CASE NewDay
  BY <1>2, BucketStill DEF NewDay
<1> QED
  BY <1>1, <1>2
-----------------------------------------------------------------------------
(* The provider as a whole                                                 *)

ProviderInv == BreakerInv /\ BucketInv

(* What is shown of every step of the provider.                            *)
ProviderStep == ProviderInv' /\ \A e \in Engines : Grows(e)

LEMMA ProviderStill ==
  ASSUME ProviderInv, UNCHANGED sxVars
  PROVE  ProviderStep
  BY BreakerStill, BucketStill DEF ProviderInv, ProviderStep, sxVars, breaker, buckets

LEMMA ProviderBegin ==
  ASSUME ProviderInv, NEW r \in Requests, Refused(r) \/ Begin(r)
  PROVE  ProviderStep
<1>1. CASE Refused(r)
  BY <1>1, ProviderStill DEF Refused
<1>2. CASE Begin(r)
  <2>1. UNCHANGED breaker
    BY <1>2 DEF Begin
  <2> QED
    BY <1>2, <2>1, BreakerStill, BeginStep DEF ProviderInv, ProviderStep
<1> QED
  BY <1>1, <1>2

LEMMA ProviderWake ==
  ASSUME ProviderInv, NEW r \in Requests, Wake(r)
  PROVE  ProviderStep
<1>1. UNCHANGED breaker
  BY DEF Wake
<1> QED
  BY <1>1, BreakerStill, WakeStep DEF ProviderInv, ProviderStep

LEMMA ProviderEnds ==
  ASSUME ProviderInv, NEW r \in Requests, Reply(r) \/ TooMany(r) \/ Fails(r)
  PROVE  ProviderStep
<1>1. ASSUME NEW T, Ends(r, T) PROVE ProviderStep
  BY <1>1, TripStep, EndsStep DEF ProviderInv, ProviderStep
<1> QED
  BY <1>1 DEF Reply, TooMany, Fails

LEMMA ProviderDrop ==
  ASSUME ProviderInv, NEW r \in Requests, Drop(r)
  PROVE  ProviderStep
<1>1. UNCHANGED breaker
  BY DEF Drop
<1> QED
  BY <1>1, BreakerStill, DropStep DEF ProviderInv, ProviderStep

LEMMA ProviderInit == SXInit => ProviderInv
<1> SUFFICES ASSUME SXInit PROVE ProviderInv
  OBVIOUS
<1>1. BreakerInv
  BY NewDayInv DEF SXInit, BreakerInv
<1>2. ready \in ReadyType
  <2>1. \A e \in Engines : 0 \in 0..Period[e]
    BY PeriodType
  <2> QED
    BY <2>1 DEF SXInit, NoEngine, ReadyType
<1>3. <<>> \in Seq(Requests) /\ ToSet(<<>>) = {} /\ IsInjective(<<>>)
  BY EmptySeq DEF ToSet, IsInjective
<1>4. queue \in QueueType /\ \A e \in Engines : ToSet(queue[e]) = {}
  BY <1>3 DEF SXInit, QueueType
<1>5. /\ sx \in [Requests -> SearchType] /\ \A e \in Engines : Waiting(e) = {}
  BY QuietType DEF SXInit, Waiting
<1> QED
  BY <1>1, <1>2, <1>4, <1>5 DEF ProviderInv, BucketInv, QueuesConsistent

-----------------------------------------------------------------------------
(* The router                                                              *)

(* A search under way has no outcome yet, has no results before Brave has  *)
(* answered, and does not end as unavailable once it has.                  *)
RouteWell(k) ==
    /\ k.pc # "idle" => k.out = "none"
    /\ k.pc \in {"get", "brave", "backoff"} => k.heard = {}
    /\ "brave" \in k.heard => k.out # "unavailable"

RouteInv ==
    /\ enabled \in BOOLEAN
    /\ cached \in BOOLEAN
    /\ rq \in [Requests -> RouteType]
    /\ \A r \in Requests : RouteWell(rq[r])

(* A search that goes from state k to state n keeps what Brave found.      *)
Keeps(k, n) ==
    "brave" \in k.heard /\ k.pc # "idle" => "brave" \in n.heard \/ n = NoSearch

Stands(r) == RouteWell(rq'[r]) /\ Keeps(rq[r], rq'[r])

RouteStep == RouteInv' /\ \A r \in Requests : Stands(r)

Providers == {"brave", "searxng"}

LEMMA RouteFields ==
  ASSUME RouteInv, NEW r \in Requests
  PROVE  /\ rq[r] \in RouteType
         /\ rq[r].attempt \in 0..MaxRetries
         /\ rq[r].heard \in SUBSET Providers
         /\ RouteWell(rq[r])
  BY DEF RouteInv, RouteType, Providers

(* The search r goes on as n.                                              *)
LEMMA OneRoute ==
  ASSUME RouteInv, NEW r \in Requests, NEW n \in RouteType,
         rq' = [rq EXCEPT ![r] = n], enabled' \in BOOLEAN, cached' \in BOOLEAN,
         RouteWell(n), Keeps(rq[r], n)
  PROVE  RouteStep
<1>1. /\ rq' \in [Requests -> RouteType] /\ rq'[r] = n
      /\ \A s \in Requests : s # r => rq'[s] = rq[s]
  BY DEF RouteInv
<1>2. ASSUME NEW s \in Requests
      PROVE  Stands(s)
  <2>1. CASE s = r
    BY <1>1, <2>1 DEF Stands
  <2>2. CASE s # r
    BY <1>1, <2>2 DEF RouteInv, Stands, Keeps
  <2> QED
    BY <2>1, <2>2
<1>3. \A s \in Requests : RouteWell(rq'[s])
  BY <1>2 DEF Stands
<1>4. (\A s \in Requests : RouteWell(rq[s]))'
  BY <1>3 DEF RouteWell
<1> QED
  BY <1>1, <1>2, <1>4 DEF RouteStep, RouteInv

LEMMA RouteStill ==
  ASSUME RouteInv, UNCHANGED rq, enabled' \in BOOLEAN, cached' \in BOOLEAN
  PROVE  RouteStep
<1>1. (\A s \in Requests : RouteWell(rq[s]))'
  BY DEF RouteInv, RouteWell
<1>2. \A s \in Requests : RouteWell(rq'[s]) /\ Keeps(rq[s], rq'[s])
  BY DEF RouteInv, Keeps
<1> QED
  BY <1>1, <1>2 DEF RouteStep, RouteInv, Stands

LEMMA NoSearchType ==
  NoSearch \in RouteType /\ NoSearch.pc = "idle" /\ NoSearch.out = "none"
<1>1. 0 \in 0..MaxRetries
  BY RetryAssumption
<1> QED
  BY <1>1 DEF NoSearch, RouteType, Outcomes

(* Brave's results, if the search has them, are in heard.                  *)
Heard(r, heard) == rq[r].pc # "idle" /\ "brave" \in rq[r].heard => "brave" \in heard

LEMMA AwaitRoute ==
  ASSUME RouteInv, NEW r \in Requests, NEW pc \in {"get", "brave", "searxng", "set"},
         NEW heard \in SUBSET Providers, Await(r, pc, heard), Heard(r, heard),
         pc \in {"get", "brave"} => heard = {},
         enabled' \in BOOLEAN, cached' \in BOOLEAN
  PROVE  RouteStep
<1> DEFINE n == [NoSearch EXCEPT !.pc = pc, !.heard = heard]
<1>1. n \in RouteType /\ n.pc = pc /\ n.heard = heard /\ n.out = "none"
  BY NoSearchType DEF RouteType, Providers
<1>2. rq' = [rq EXCEPT ![r] = n]
  BY DEF Await
<1> HIDE DEF n
<1>3. RouteWell(n) /\ Keeps(rq[r], n)
  BY <1>1 DEF RouteWell, Keeps, Heard
<1> QED
  BY <1>1, <1>2, <1>3, OneRoute

LEMMA EndRoute ==
  ASSUME RouteInv, NEW r \in Requests, NEW outcome \in Outcomes,
         NEW heard \in SUBSET Providers, End(r, outcome, heard), Heard(r, heard),
         "brave" \in heard => outcome # "unavailable",
         enabled' \in BOOLEAN, cached' \in BOOLEAN
  PROVE  RouteStep
<1> DEFINE n == [NoSearch EXCEPT !.out = outcome, !.heard = heard]
<1>1. n \in RouteType /\ n.pc = "idle" /\ n.heard = heard /\ n.out = outcome
  BY NoSearchType DEF RouteType, Providers
<1>2. rq' = [rq EXCEPT ![r] = n]
  BY DEF End
<1> HIDE DEF n
<1>3. RouteWell(n) /\ Keeps(rq[r], n)
  BY <1>1 DEF RouteWell, Keeps, Heard
<1> QED
  BY <1>1, <1>2, <1>3, OneRoute

(* SearchUnavailable reaches the caller only if nobody else was heard.     *)
LEMMA WithoutRoute ==
  ASSUME RouteInv, NEW r \in Requests, NEW heard \in SUBSET Providers,
         WithoutSearXNG(r, heard), Heard(r, heard),
         enabled' \in BOOLEAN, cached' \in BOOLEAN
  PROVE  RouteStep
<1>1. ASSUME heard = {}, End(r, "unavailable", heard)
      PROVE  RouteStep
  <2>1. "unavailable" \in Outcomes /\ ("brave" \in heard => "unavailable" # "unavailable")
    BY <1>1 DEF Outcomes
  <2> QED
    BY <1>1, <2>1, EndRoute
<1>2. ASSUME Await(r, "set", heard)
      PROVE  RouteStep
  BY <1>2, AwaitRoute
<1> QED
  BY <1>1, <1>2 DEF WithoutSearXNG

LEMMA CallStep ==
  ASSUME ProviderInv, RouteInv, NEW r \in Requests, NEW heard \in SUBSET Providers,
         CallSearXNG(r, heard), Heard(r, heard),
         enabled' \in BOOLEAN, cached' \in BOOLEAN
  PROVE  ProviderStep /\ RouteStep
<1>1. Refused(r) \/ Begin(r)
  BY DEF CallSearXNG
<1>2. ASSUME WithoutSearXNG(r, heard)
      PROVE  RouteStep
  BY <1>2, WithoutRoute
<1>3. ASSUME Await(r, "searxng", heard)
      PROVE  RouteStep
  BY <1>3, AwaitRoute
<1> QED
  BY <1>1, <1>2, <1>3, ProviderBegin DEF CallSearXNG

-----------------------------------------------------------------------------
(* The inductive invariant                                                 *)

Inv == ProviderInv /\ RouteInv

LEMMA InvInit == Init => Inv
<1> SUFFICES ASSUME Init PROVE Inv
  OBVIOUS
<1>1. RouteInv
  BY NoSearchType DEF Init, RouteInv, RouteWell, NoSearch
<1> QED
  BY <1>1, ProviderInit DEF Init, Inv

LEMMA InvStep ==
  ASSUME Inv, [Next]_vars
  PROVE  ProviderStep /\ RouteStep
<1>0. ProviderInv /\ RouteInv /\ enabled \in BOOLEAN /\ cached \in BOOLEAN
      /\ {} \in SUBSET Providers /\ {"brave"} \in SUBSET Providers
  BY DEF Inv, RouteInv, Providers
<1>a. ASSUME NEW r \in Requests, rq[r].pc \in {"idle", "get", "brave", "backoff"},
             NEW heard
      PROVE  Heard(r, heard)
  BY <1>0, <1>a, RouteFields DEF RouteWell, Heard
<1>1. ASSUME NEW r \in Requests, Search(r)
      PROVE  ProviderStep /\ RouteStep
  <2>1. Heard(r, {}) /\ Await(r, "get", {}) /\ UNCHANGED <<searxng, cached>>
    BY <1>1, <1>a DEF Search
  <2> QED
    BY <1>0, <2>1, ProviderStill, AwaitRoute DEF searxng
<1>2. ASSUME NEW r \in Requests, CacheHit(r)
      PROVE  ProviderStep /\ RouteStep
  <2>1. Heard(r, {}) /\ End(r, "ok", {}) /\ UNCHANGED <<searxng, cached>>
    BY <1>2, <1>a DEF CacheHit
  <2> QED
    BY <1>0, <2>1, ProviderStill, EndRoute DEF searxng, Outcomes
<1>3. ASSUME NEW r \in Requests, CacheMiss(r)
      PROVE  ProviderStep /\ RouteStep
  <2>1. Heard(r, {}) /\ UNCHANGED <<enabled, cached>>
    BY <1>3, <1>a DEF CacheMiss
  <2>2. ASSUME Await(r, "brave", {}), UNCHANGED sxVars
        PROVE  ProviderStep /\ RouteStep
    BY <1>0, <2>1, <2>2, ProviderStill, AwaitRoute
  <2>3. ASSUME CallSearXNG(r, {})
        PROVE  ProviderStep /\ RouteStep
    BY <1>0, <2>1, <2>3, CallStep
  <2> QED
    BY <1>3, <2>2, <2>3 DEF CacheMiss
<1>4. ASSUME NEW r \in Requests, BraveRetry(r)
      PROVE  ProviderStep /\ RouteStep
  <2> DEFINE n == [rq[r] EXCEPT !.pc = "backoff", !.attempt = rq[r].attempt + 1]
  <2>1. rq' = [rq EXCEPT ![r] = n] /\ rq[r].pc = "brave" /\ UNCHANGED <<searxng, cached>>
    <3>1. rq[r] \in RouteType
      BY <1>0, RouteFields
    <3>2. /\ rq' = [rq EXCEPT ![r].pc = "backoff", ![r].attempt = rq[r].attempt + 1]
          /\ rq[r].pc = "brave" /\ UNCHANGED <<searxng, cached>>
      BY <1>4 DEF BraveRetry
    <3>3. rq' = [rq EXCEPT ![r] = n]
      BY <1>0, <3>1, <3>2 DEF RouteInv, RouteType
    <3> QED
      BY <3>2, <3>3
  <2>2. /\ rq[r] \in RouteType /\ rq[r].attempt \in 0..MaxRetries
        /\ rq[r].out = "none" /\ rq[r].heard = {}
    BY <1>0, <2>1, RouteFields DEF RouteWell
  <2>4. rq[r].attempt + 1 \in 0..MaxRetries
    <3>1. PICK status \in {429, 500} : Retried(status, rq[r].attempt)
      BY <1>4 DEF BraveRetry
    <3> QED
      BY <2>2, <3>1, RetryAssumption DEF Retried
  <2>5. n \in RouteType /\ n.pc = "backoff" /\ n.out = "none" /\ n.heard = {}
    BY <2>2, <2>4 DEF RouteType
  <2> HIDE DEF n
  <2>7. RouteWell(n) /\ Keeps(rq[r], n)
    BY <2>2, <2>5 DEF RouteWell, Keeps
  <2>6. RouteStep
    <3>1. enabled' = enabled /\ cached' = cached
      BY <2>1 DEF searxng
    <3> QED
      BY <1>0, <2>1, <2>5, <2>7, <3>1, OneRoute
  <2> QED
    BY <1>0, <2>1, <2>6, ProviderStill DEF searxng
<1>5. ASSUME NEW r \in Requests, BackoffOver(r)
      PROVE  ProviderStep /\ RouteStep
  <2> DEFINE n == [rq[r] EXCEPT !.pc = "brave"]
  <2>1. rq' = [rq EXCEPT ![r] = n] /\ rq[r].pc = "backoff" /\ UNCHANGED <<searxng, cached>>
    BY <1>5 DEF BackoffOver
  <2>2. rq[r] \in RouteType /\ rq[r].out = "none" /\ rq[r].heard = {}
    BY <1>0, <2>1, RouteFields DEF RouteWell
  <2>3. n \in RouteType /\ n.pc = "brave" /\ n.out = "none" /\ n.heard = {}
    BY <2>2 DEF RouteType
  <2> HIDE DEF n
  <2>5. RouteWell(n) /\ Keeps(rq[r], n)
    BY <2>2, <2>3 DEF RouteWell, Keeps
  <2>4. RouteStep
    BY <1>0, <2>1, <2>3, <2>5, OneRoute DEF searxng
  <2> QED
    BY <1>0, <2>1, <2>4, ProviderStill DEF searxng
<1>6. ASSUME NEW r \in Requests, BraveFails(r) \/ BraveThin(r)
      PROVE  ProviderStep /\ RouteStep
  <2>1. PICK heard \in {{}, {"brave"}} :
           CallSearXNG(r, heard) /\ rq[r].pc = "brave" /\ UNCHANGED <<enabled, cached>>
    BY <1>6 DEF BraveFails, BraveThin
  <2>2. Heard(r, heard) /\ heard \in SUBSET Providers
    BY <1>0, <1>a, <2>1
  <2> QED
    BY <1>0, <2>1, <2>2, CallStep
<1>7. ASSUME NEW r \in Requests, BraveAnswers(r)
      PROVE  ProviderStep /\ RouteStep
  <2>1. Heard(r, {}) /\ Heard(r, {"brave"}) /\ UNCHANGED <<searxng, cached>>
    BY <1>7, <1>a DEF BraveAnswers
  <2>2. ASSUME Await(r, "set", {"brave"})
        PROVE  RouteStep
    BY <1>0, <2>1, <2>2, AwaitRoute DEF searxng
  <2>3. ASSUME End(r, "raised", {})
        PROVE  RouteStep
    BY <1>0, <2>1, <2>3, EndRoute DEF searxng, Outcomes
  <2> QED
    BY <1>0, <1>7, <2>1, <2>2, <2>3, ProviderStill DEF BraveAnswers, searxng
<1>8. ASSUME NEW r \in Requests, SearXNGWakes(r)
      PROVE  ProviderStep /\ RouteStep
  BY <1>0, <1>8, ProviderWake, RouteStill DEF SearXNGWakes
<1>9. ASSUME NEW r \in Requests, SearXNGAnswers(r)
      PROVE  ProviderStep /\ RouteStep
  <2>1. ProviderStep
    BY <1>0, <1>9, ProviderEnds DEF SearXNGAnswers
  <2>2. rq[r].heard \in SUBSET Providers /\ rq[r].heard \cup {"searxng"} \in SUBSET Providers
    BY <1>0, RouteFields DEF Providers
  <2>3. UNCHANGED <<enabled, cached>>
    BY <1>9 DEF SearXNGAnswers
  <2>7. Heard(r, rq[r].heard) /\ Heard(r, rq[r].heard \cup {"searxng"})
    BY DEF Heard
  <2>4. ASSUME Await(r, "set", rq[r].heard \cup {"searxng"})
        PROVE  RouteStep
    BY <1>0, <2>2, <2>3, <2>4, <2>7, AwaitRoute
  <2>5. ASSUME End(r, "raised", rq[r].heard)
        PROVE  RouteStep
    BY <1>0, <2>2, <2>3, <2>5, <2>7, EndRoute DEF Outcomes
  <2>6. ASSUME WithoutSearXNG(r, rq[r].heard)
        PROVE  RouteStep
    BY <1>0, <2>2, <2>3, <2>6, <2>7, WithoutRoute
  <2> QED
    BY <1>9, <2>1, <2>4, <2>5, <2>6 DEF SearXNGAnswers
<1>10. ASSUME NEW r \in Requests, SetDone(r)
       PROVE  ProviderStep /\ RouteStep
  <2>1. /\ rq[r].heard \in SUBSET Providers /\ Heard(r, rq[r].heard)
        /\ End(r, "ok", rq[r].heard) /\ UNCHANGED searxng /\ cached' = TRUE
    BY <1>0, <1>10, RouteFields DEF SetDone, Heard
  <2> QED
    BY <1>0, <2>1, ProviderStill, EndRoute DEF searxng, Outcomes
<1>11. ASSUME NEW r \in Requests, Cancel(r)
       PROVE  ProviderStep /\ RouteStep
  <2>1. ProviderStep
    BY <1>0, <1>11, ProviderStill, ProviderDrop DEF Cancel
  <2>2. enabled' \in BOOLEAN /\ cached' \in BOOLEAN /\ rq' = [rq EXCEPT ![r] = NoSearch]
    BY <1>0, <1>11 DEF Cancel
  <2>3. RouteStep
    <3>1. RouteWell(NoSearch) /\ Keeps(rq[r], NoSearch)
      BY DEF RouteWell, Keeps, NoSearch
    <3> QED
      BY <1>0, <2>2, <3>1, NoSearchType, OneRoute
  <2> QED
    BY <2>1, <2>3
<1>12. CASE Time
  <2>1. Tick \/ NewDay
    BY <1>12 DEF Time
  <2>2. ProviderStep
    BY <1>0, <2>1, BreakerTime, BucketTime DEF ProviderInv, ProviderStep
  <2> QED
    BY <1>0, <1>12, <2>2, RouteStill DEF Time
<1>13. CASE UNCHANGED vars
  BY <1>0, <1>13, ProviderStill, RouteStill DEF vars
<1> QED
  BY <1>1, <1>2, <1>3, <1>4, <1>5, <1>6, <1>7, <1>8, <1>9, <1>10, <1>11,
     <1>12, <1>13 DEF Next, Progress

LEMMA InvAlways == Spec => []Inv
<1>1. Inv /\ [Next]_vars => Inv'
  BY InvStep DEF Inv, ProviderStep, RouteStep
<1> QED
  BY <1>1, InvInit, PTL DEF Spec

(* Cool-downs, waits, queues and attempts stay in their bounds: no engine  *)
(* is closed for longer than the longest cool-down, no search is twice in  *)
(* a queue, and Brave is asked MaxRetries + 1 times at most.               *)
THEOREM TypeCorrect == Spec => []TypeOK
<1>1. Inv => TypeOK
  <2> SUFFICES ASSUME Inv PROVE TypeOK
    OBVIOUS
  <2>1. DOMAIN queue = Engines
    BY DEF Inv, ProviderInv, BucketInv, QueueType
  <2>2. ASSUME NEW e \in Engines
        PROVE  IsInjective(queue[e]) /\ ToSet(queue[e]) \subseteq Requests
    <3>1. queue[e] \in Seq(Requests) /\ IsInjective(queue[e])
      BY DEF Inv, ProviderInv, BucketInv, QueueType
    <3> QED
      BY <3>1, QueueFields
  <2>3. SXTypeOK
    BY <2>1, <2>2 DEF Inv, ProviderInv, BreakerInv, BucketInv, ReadyType, SXTypeOK
  <2> QED
    BY <2>3 DEF Inv, RouteInv, TypeOK
<1> QED
  BY <1>1, InvAlways, PTL

(* The lock of a bucket is held by exactly the searches that wait for its  *)
(* token, whichever of them are cancelled, asleep or in line.              *)
THEOREM LocksConsistent == Spec => []QueuesConsistent
<1>1. Inv => QueuesConsistent
  BY DEF Inv, ProviderInv, BucketInv
<1> QED
  BY <1>1, InvAlways, PTL

(* No trip of a day, however late the answer that causes it, closes an     *)
(* engine for less than twice as long as the trips before it, up to the    *)
(* longest cool-down.                                                      *)
THEOREM Growth == Spec => CooldownGrows
<1>1. Inv /\ [Next]_vars =>
        [\A e \in Engines :
           \/ off'[e] \in {off[e], Sooner(off[e])}
           \/ off'[e] >= 2 * longest[e]
           \/ off'[e] = Cooldown[Doublings]]_sxVars
  BY InvStep DEF ProviderStep, Grows
<1> QED
  BY <1>1, InvAlways, PTL DEF Spec, CooldownGrows

(* What Brave answered stays in the search until its response, and is not  *)
(* given up for SearchUnavailable, whether SearXNG fails, answers 429 or   *)
(* is refused by its breaker before it is asked.  (A SearXNG body that     *)
(* raises another exception is the exception: out is then "raised".)       *)
THEOREM BraveAnswerKept == Spec => BraveStands
<1>1. Inv /\ [Next]_vars =>
        [\A r \in Requests :
           /\ "brave" \in rq'[r].heard => rq'[r].out # "unavailable"
           /\ "brave" \in rq[r].heard /\ rq[r].pc # "idle" =>
                 "brave" \in rq'[r].heard \/ rq'[r] = NoSearch]_vars
  BY InvStep DEF RouteStep, Stands, RouteWell, Keeps
<1> QED
  BY <1>1, InvAlways, PTL DEF Spec, BraveStands
=============================================================================
