------------------------- MODULE McpTransportProofs -------------------------
(***************************************************************************)
(* Proofs about McpTransport, for any number of calls and pages and any    *)
(* costs: types, the order of the progress notifications, the shared list  *)
(* of events, and the counters against what the calls returned.            *)
(***************************************************************************)
EXTENDS McpTransport, FiniteSetTheorems, TLAPS

-----------------------------------------------------------------------------
(* Sums over the calls                                                     *)

LEMMA LeastElement ==
  ASSUME NEW T \in SUBSET Nat, T # {}
  PROVE  \E x \in T : \A y \in T : x <= y
<1>1. PICK x \in T : \A y \in T : ~ (<<y, x>> \in OpToRel(<, Nat))
  BY NatLessThanWellFounded, WFMin
<1>2. \A y \in T : <<y, x>> \in OpToRel(<, Nat) <=> y < x
  BY <1>1 DEF OpToRel
<1>3. \A y \in T : y \in Nat /\ x \in Nat /\ ~(y < x)
  BY <1>1, <1>2
<1>4. \A y \in T : x <= y
  BY <1>3
<1> QED
  BY <1>1, <1>4

Chosen(s) == CHOOSE x \in s : TRUE

(* g sums f over the members of D, a set of sets closed under taking the   *)
(* chosen element away.                                                    *)
IsSum(g, f, D) ==
    g = [s \in D |-> IF s = {} THEN 0 ELSE f[Chosen(s)] + g[s \ {Chosen(s)}]]

Total(f, S) == (CHOOSE g : IsSum(g, f, SUBSET S))[S]

Sums(g, f, S) == \A s \in SUBSET S :
    g[s] = IF s = {} THEN 0 ELSE f[Chosen(s)] + g[s \ {Chosen(s)}]

Small(S, n) == {s \in SUBSET S : Cardinality(s) <= n}

LEMMA WithoutChosen ==
  ASSUME NEW S, IsFiniteSet(S), NEW s \in SUBSET S, s # {}
  PROVE  /\ Chosen(s) \in s
         /\ s \ {Chosen(s)} \in SUBSET S
         /\ Cardinality(s) \in Nat \ {0}
         /\ Cardinality(s \ {Chosen(s)}) = Cardinality(s) - 1
<1>1. Chosen(s) \in s
  BY DEF Chosen
<1>2. IsFiniteSet(s) /\ Cardinality(s) \in Nat
  BY FS_Subset, FS_CardinalityType
<1>3. Cardinality(s) # 0
  BY <1>2, FS_EmptySet
<1>4. Cardinality(s \ {Chosen(s)}) = Cardinality(s) - 1
  BY <1>1, <1>2, FS_RemoveElement
<1> QED
  BY <1>1, <1>2, <1>3, <1>4

LEMMA SumExists ==
  ASSUME NEW S, IsFiniteSet(S), NEW f
  PROVE  \A n \in Nat : \E g : IsSum(g, f, Small(S, n))
<1> DEFINE T == {n \in Nat : ~ \E g : IsSum(g, f, Small(S, n))}
<1> SUFFICES ASSUME T # {} PROVE FALSE
  OBVIOUS
<1>1. PICK n \in T : \A y \in T : n <= y
  BY LeastElement
<1>2. n \in Nat /\ ~ \E g : IsSum(g, f, Small(S, n))
  BY <1>1
<1>3. CASE n = 0
  <2> DEFINE g == [s \in Small(S, 0) |-> 0]
  <2>1. ASSUME NEW s \in Small(S, 0), s # {} PROVE FALSE
    <3>1. s \in SUBSET S /\ Cardinality(s) <= 0
      BY DEF Small
    <3>2. Cardinality(s) \in Nat \ {0}
      BY <2>1, <3>1, WithoutChosen
    <3> QED
      BY <3>1, <3>2
  <2>2. g = [s \in Small(S, 0) |-> IF s = {} THEN 0 ELSE f[Chosen(s)] + g[s \ {Chosen(s)}]]
    BY <2>1
  <2> HIDE DEF g
  <2>3. IsSum(g, f, Small(S, 0))
    BY <2>2 DEF IsSum
  <2> QED
    BY <1>2, <1>3, <2>3
<1>4. CASE n # 0
  <2> DEFINE m == n - 1
  <2>1. m \in Nat /\ m + 1 = n /\ ~(n <= m)
    BY <1>2, <1>4
  <2>2. PICK h : IsSum(h, f, Small(S, m))
    BY <1>1, <2>1
  <2> HIDE DEF m
  <2>3. \A s \in Small(S, m) :
          h[s] = IF s = {} THEN 0 ELSE f[Chosen(s)] + h[s \ {Chosen(s)}]
    BY <2>2 DEF IsSum
  <2> DEFINE g == [s \in Small(S, n) |->
                     IF s \in Small(S, m) THEN h[s] ELSE f[Chosen(s)] + h[s \ {Chosen(s)}]]
  <2>4. ASSUME NEW s \in Small(S, n)
        PROVE  g[s] = IF s = {} THEN 0 ELSE f[Chosen(s)] + g[s \ {Chosen(s)}]
    <3>1. CASE s = {}
      <4>1. s \in Small(S, m)
        BY <2>1, <3>1, FS_EmptySet DEF Small
      <4> QED
        BY <2>3, <3>1, <4>1
    <3>2. CASE s # {}
      <4> DEFINE t == s \ {Chosen(s)}
      <4>1. /\ t \in SUBSET S /\ Cardinality(s) \in Nat
            /\ Cardinality(t) = Cardinality(s) - 1 /\ Cardinality(s) <= n
        BY <3>2, WithoutChosen DEF Small
      <4>2. t \in Small(S, m) /\ t \in Small(S, n)
        BY <1>2, <2>1, <4>1 DEF Small
      <4>3. g[t] = h[t]
        BY <4>2
      <4>4. g[s] = f[Chosen(s)] + h[t]
        BY <2>3, <3>2
      <4> QED
        BY <3>2, <4>3, <4>4
    <3> QED
      BY <3>1, <3>2
  <2>5. g = [s \in Small(S, n) |-> g[s]]
    OBVIOUS
  <2> HIDE DEF g
  <2>6. IsSum(g, f, Small(S, n))
    BY <2>4, <2>5 DEF IsSum
  <2> QED
    BY <1>2, <2>6
<1> QED
  BY <1>3, <1>4

LEMMA TotalDef ==
  ASSUME NEW S, IsFiniteSet(S), NEW f
  PROVE  \E g : Total(f, S) = g[S] /\ Sums(g, f, S)
<1>1. Cardinality(S) \in Nat
  BY FS_CardinalityType
<1>2. Small(S, Cardinality(S)) = SUBSET S
  BY FS_Subset DEF Small
<1>3. \E g : IsSum(g, f, SUBSET S)
  <2>1. \E g : IsSum(g, f, Small(S, Cardinality(S)))
    BY <1>1, SumExists
  <2> QED
    BY <1>2, <2>1
<1> DEFINE g == CHOOSE g : IsSum(g, f, SUBSET S)
<1>4. IsSum(g, f, SUBSET S) /\ Total(f, S) = g[S]
  BY <1>3 DEF Total
<1> HIDE DEF g
<1>5. Sums(g, f, S)
  BY <1>4 DEF IsSum, Sums
<1> QED
  BY <1>4, <1>5

LEMMA TotalZero ==
  ASSUME NEW S, IsFiniteSet(S), NEW f, \A x \in S : f[x] = 0
  PROVE  Total(f, S) = 0
<1>1. PICK g : Total(f, S) = g[S] /\ Sums(g, f, S)
  BY TotalDef
<1> DEFINE T == {Cardinality(s) : s \in {r \in SUBSET S : g[r] # 0}}
<1>2. T = {}
  <2> SUFFICES ASSUME T # {} PROVE FALSE
    OBVIOUS
  <2>1. T \in SUBSET Nat
    BY FS_Subset, FS_CardinalityType
  <2>2. PICK n \in T : \A y \in T : n <= y
    BY <2>1, LeastElement
  <2>3. PICK s \in SUBSET S : n = Cardinality(s) /\ g[s] # 0
    BY <2>2
  <2>4. s # {}
    BY <1>1, <2>3 DEF Sums
  <2> DEFINE t == s \ {Chosen(s)}
  <2>5. /\ Chosen(s) \in S /\ t \in SUBSET S /\ n \in Nat
        /\ Cardinality(t) = n - 1
    BY <2>3, <2>4, WithoutChosen
  <2>6. g[t] = 0
    <3> SUFFICES ASSUME g[t] # 0 PROVE FALSE
      OBVIOUS
    <3>1. n - 1 \in T
      BY <2>5
    <3> QED
      BY <2>2, <2>5, <3>1
  <2>7. g[s] = f[Chosen(s)] + g[t]
    BY <1>1, <2>4 DEF Sums
  <2> QED
    BY <2>3, <2>5, <2>6, <2>7
<1> QED
  BY <1>1, <1>2

(* One term grows by d, and so does the sum.                               *)
LEMMA TotalAdd ==
  ASSUME NEW S, IsFiniteSet(S), NEW e, NEW f, NEW c \in S, NEW d \in Nat,
         \A x \in S : e[x] \in Nat /\ f[x] = IF x = c THEN e[x] + d ELSE e[x]
  PROVE  Total(f, S) = Total(e, S) + d
<1>1. PICK g : Total(e, S) = g[S] /\ Sums(g, e, S)
  BY TotalDef
<1>2. PICK h : Total(f, S) = h[S] /\ Sums(h, f, S)
  BY TotalDef
<1> DEFINE Good(s) == /\ g[s] \in Nat
                      /\ h[s] = g[s] + (IF c \in s THEN d ELSE 0)
           T == {Cardinality(s) : s \in {r \in SUBSET S : ~Good(r)}}
<1>3. T = {}
  <2> SUFFICES ASSUME T # {} PROVE FALSE
    OBVIOUS
  <2>1. T \in SUBSET Nat
    BY FS_Subset, FS_CardinalityType
  <2>2. PICK n \in T : \A y \in T : n <= y
    BY <2>1, LeastElement
  <2>3. PICK s \in SUBSET S : n = Cardinality(s) /\ ~Good(s)
    BY <2>2
  <2>4. s # {}
    BY <1>1, <1>2, <2>3 DEF Sums
  <2> DEFINE x == Chosen(s)
             t == s \ {x}
  <2>5. /\ x \in s /\ x \in S /\ t \in SUBSET S /\ n \in Nat
        /\ Cardinality(t) = n - 1
    BY <2>3, <2>4, WithoutChosen
  <2>6. Good(t)
    <3> SUFFICES ASSUME ~Good(t) PROVE FALSE
      OBVIOUS
    <3>1. n - 1 \in T
      BY <2>5
    <3> HIDE DEF Good, T
    <3> QED
      BY <2>2, <2>5, <3>1
  <2>7. g[s] = e[x] + g[t] /\ h[s] = f[x] + h[t]
    BY <1>1, <1>2, <2>4 DEF Sums
  <2>8. e[x] \in Nat /\ f[x] = IF x = c THEN e[x] + d ELSE e[x]
    BY <2>5
  <2>9. c \in t <=> c \in s /\ c # x
    OBVIOUS
  <2> HIDE DEF x, t
  <2> QED
    BY <2>3, <2>5, <2>6, <2>7, <2>8, <2>9
<1>4. Good(S)
  BY <1>3
<1> QED
  BY <1>1, <1>2, <1>4

(* The costs of the results of all calls, as Accounted adds them up.       *)
Paid == [c \in Calls |-> call[c].paid]

LEMMA PaidTotal ==
  MapThenSumSet(LAMBDA c : call[c].paid, Calls) = Total(Paid, Calls)
<1> DEFINE next(g) == [s \in SUBSET Calls |->
                         IF s = {} THEN 0
                         ELSE call[Chosen(s)].paid + g[s \ {Chosen(s)}]]
<1>1. ASSUME NEW s \in SUBSET Calls, s # {}
      PROVE  Paid[Chosen(s)] = call[Chosen(s)].paid
  BY <1>1 DEF Chosen, Paid
<1>2. ASSUME NEW g PROVE (g = next(g)) <=> IsSum(g, Paid, SUBSET Calls)
  BY <1>1 DEF IsSum
<1>3. MapThenSumSet(LAMBDA c : call[c].paid, Calls) = (CHOOSE g : g = next(g))[Calls]
  BY DEF MapThenSumSet, MapThenFoldSet, Chosen
<1> HIDE DEF next
<1>4. (CHOOSE g : g = next(g)) = (CHOOSE g : IsSum(g, Paid, SUBSET Calls))
  BY <1>2
<1> QED
  BY <1>3, <1>4 DEF Total

-----------------------------------------------------------------------------
(* The inductive invariant                                                 *)

Early == {"none", "accepted", "expanded", "searched", "ranked"}

(* A call follows its stream event by event until one of them ends.        *)
Follows(c) ==
    /\ call[c].pc # "done" =>
          call[c].result = "none" /\ call[c].paid = 0 /\ stage[c] \notin Stream!Terminal
    /\ call[c].pc = "idle" => stage[c] = "none" /\ call[c].index = 0 /\ call[c].told = 0
    /\ stage[c] \in Early => pages[c] = 0
    /\ stage[c] \notin Stream!Terminal =>
          /\ call[c].index = Emitted(c)
          /\ call[c].pc = "pull" => call[c].told = Emitted(c)
          /\ call[c].pc = "report" => call[c].told = Emitted(c) - 1
    /\ listed[c] = call[c].index - earlier[c]
    /\ stage[c] = "answer" => call[c].result \in {"answer", "internal"}
    /\ stage[c] = "error" => call[c].result = "error"
    /\ call[c].result \in {"answer", "error"} => stage[c] = call[c].result

Begun == {c \in Calls : call[c].pc # "idle" /\ call[c].result # "invalid_input"}

Inv ==
    /\ TypeOK
    /\ \A c \in Calls : Follows(c)
    /\ requests = Cardinality(Begun)
    /\ cost = Total(Paid, Calls)

LEMMA CallFields ==
  ASSUME TypeOK, NEW c \in Calls
  PROVE  /\ call[c] \in CallType
         /\ call[c].pc \in {"idle", "pull", "report", "done"}
         /\ call[c].index \in 0..EventsMax /\ call[c].told \in 0..EventsMax
         /\ call[c].result \in Results
         /\ call[c].paid \in Costs \cup {0} /\ call[c].paid \in Nat
         /\ listed[c] \in 0..EventsMax /\ earlier[c] \in 0..EventsMax
         /\ stage[c] \in Stream!Stages
         /\ kept[c] \in 0..PagesMax /\ pages[c] \in 0..PagesMax
<1>1. call[c] \in CallType
  BY DEF TypeOK
<1>2. call[c].paid \in Costs \cup {0}
  BY <1>1 DEF CallType
<1>3. call[c].paid \in Nat
  <2>1. \A usd \in Costs \cup {0} : usd \in Nat
    BY McpAssumption
  <2> QED
    BY <1>2, <2>1
<1>4. /\ call[c].pc \in {"idle", "pull", "report", "done"}
      /\ call[c].index \in 0..EventsMax /\ call[c].told \in 0..EventsMax
      /\ call[c].result \in Results
  BY <1>1 DEF CallType
<1>5. listed[c] \in 0..EventsMax /\ earlier[c] \in 0..EventsMax
  BY DEF TypeOK
<1>6. /\ stage[c] \in Stream!Stages
      /\ kept[c] \in 0..PagesMax /\ pages[c] \in 0..PagesMax
  BY DEF TypeOK, Stream!StreamTypeOK
<1> QED
  BY <1>1, <1>2, <1>3, <1>4, <1>5, <1>6

LEMMA Bounds == PagesMax \in Nat /\ EventsMax = PagesMax + 6 /\ EventsMax \in Nat
  BY McpAssumption DEF EventsMax

(* What a call is told is bounded by the pages of its stream.              *)
LEMMA EmittedBound ==
  ASSUME TypeOK, NEW c \in Calls
  PROVE  Emitted(c) \in 0..EventsMax
<1>1. stage[c] \in Stream!Stages /\ pages[c] \in 0..PagesMax
  BY CallFields
<1> QED
  BY <1>1, Bounds DEF Emitted, Stream!Stages, Stream!Terminal

(* A stream emits an event that is not its last: one more.                 *)
LEMMA EmitStep ==
  ASSUME TypeOK, NEW c \in Calls, stage[c] \in Early => pages[c] = 0,
         Stream!Begin(c) \/ Stream!Rank(c) \/ Stream!PageReady(c) \/ Stream!Synthesize(c)
  PROVE  /\ Stream!StreamTypeOK'
         /\ \A d \in Calls : d # c => stage'[d] = stage[d] /\ pages'[d] = pages[d]
         /\ stage[c] \notin Stream!Terminal /\ stage'[c] \notin Stream!Terminal
         /\ stage'[c] \in Early => pages'[c] = 0
         /\ Emitted(c)' = Emitted(c) + 1
<1>1. /\ stage \in [Calls -> Stream!Stages] /\ kept \in [Calls -> 0..PagesMax]
      /\ pages \in [Calls -> 0..PagesMax] /\ PagesMax \in Nat
  BY Bounds DEF TypeOK, Stream!StreamTypeOK
<1>2. CASE Stream!Begin(c)
  BY <1>1, <1>2 DEF Stream!Begin, Stream!Emit, Stream!StreamTypeOK, Stream!Stages,
                    Stream!Terminal, Early, Emitted
<1>3. CASE Stream!Rank(c)
  BY <1>1, <1>3 DEF Stream!Rank, Stream!Emit, Stream!StreamTypeOK, Stream!Stages,
                    Stream!Terminal, Early, Emitted
<1>4. CASE Stream!PageReady(c)
  <2>1. /\ stage[c] \in {"ranked", "page_ready"}
        /\ stage' = [stage EXCEPT ![c] = "page_ready"]
        /\ pages[c] < kept[c] /\ pages' = [pages EXCEPT ![c] = pages[c] + 1]
        /\ kept' = kept
    BY <1>4 DEF Stream!PageReady, Stream!Emit
  <2>2. pages[c] + 1 \in 0..PagesMax
    BY <1>1, <2>1
  <2>3. /\ pages' \in [Calls -> 0..PagesMax] /\ pages'[c] = pages[c] + 1
        /\ \A d \in Calls : d # c => pages'[d] = pages[d]
    BY <1>1, <2>1, <2>2
  <2>4. /\ stage' \in [Calls -> Stream!Stages] /\ stage'[c] = "page_ready"
        /\ \A d \in Calls : d # c => stage'[d] = stage[d]
    BY <1>1, <2>1 DEF Stream!Stages
  <2>5. Emitted(c)' = 4 + pages'[c] /\ Emitted(c) = 4 + pages[c]
    BY <1>1, <2>1, <2>4 DEF Emitted, Early
  <2>6. Emitted(c)' = Emitted(c) + 1
    BY <1>1, <2>3, <2>5
  <2> QED
    BY <1>1, <2>1, <2>3, <2>4, <2>6 DEF Stream!StreamTypeOK, Stream!Terminal, Early
<1>5. CASE Stream!Synthesize(c)
  BY <1>1, <1>5 DEF Stream!Synthesize, Stream!Emit, Stream!StreamTypeOK, Stream!Stages,
                    Stream!Terminal, Early, Emitted
<1> QED
  BY <1>2, <1>3, <1>4, <1>5

(* A stream emits its last event.                                          *)
LEMMA LastStep ==
  ASSUME TypeOK, NEW c \in Calls, NEW last \in Stream!Terminal,
         last = "answer" => Stream!Answer(c), last = "error" => Stream!Fail(c)
  PROVE  /\ Stream!StreamTypeOK' /\ pages' = pages
         /\ stage[c] \notin Early \ {"ranked", "expanded"} /\ stage'[c] = last
         /\ \A d \in Calls : d # c => stage'[d] = stage[d]
  BY DEF TypeOK, Stream!StreamTypeOK, Stream!Terminal, Stream!Stages, Early,
         Stream!Answer, Stream!Fail, Stream!Emit

-----------------------------------------------------------------------------
(* One lemma per kind of step                                              *)

(* The calls other than c, when the shared list is left alone.             *)
LEMMA OthersFollow ==
  ASSUME Inv, NEW d \in Calls, call'[d] = call[d], listed'[d] = listed[d],
         earlier'[d] = earlier[d], stage'[d] = stage[d], pages'[d] = pages[d]
  PROVE  Follows(d)'
  BY DEF Inv, Follows, Emitted

LEMMA SameBegun ==
  ASSUME Inv, NEW c \in Calls, NEW n, call' = [call EXCEPT ![c] = n],
         (n.pc # "idle" /\ n.result # "invalid_input") <=>
             (call[c].pc # "idle" /\ call[c].result # "invalid_input"),
         UNCHANGED requests
  PROVE  requests' = Cardinality(Begun')
<1>1. Begun' = Begun
  BY DEF Inv, TypeOK, Begun
<1> QED
  BY <1>1 DEF Inv

LEMMA SamePaid ==
  ASSUME Inv, NEW c \in Calls, NEW n, call' = [call EXCEPT ![c] = n],
         n.paid = call[c].paid, UNCHANGED cost
  PROVE  cost' = Total(Paid', Calls)
<1>1. Paid' = Paid
  BY DEF Inv, TypeOK, Paid
<1> QED
  BY <1>1 DEF Inv

LEMMA InvalidStep ==
  ASSUME Inv, NEW c \in Calls, Invalid(c)
  PROVE  Inv'
<1> DEFINE n == [call[c] EXCEPT !.pc = "done", !.result = "invalid_input"]
<1>1. TypeOK /\ Follows(c) /\ call[c] \in CallType /\ call[c].pc = "idle"
  BY CallFields DEF Inv, Invalid
<1>2. call' = [call EXCEPT ![c] = n]
  BY <1>1 DEF Invalid, Return, TypeOK, CallType
<1>3. /\ n \in CallType /\ n.pc = "done" /\ n.result = "invalid_input"
      /\ n.index = call[c].index /\ n.told = call[c].told /\ n.paid = call[c].paid
  BY <1>1 DEF CallType, Results
<1> HIDE DEF n
<1>4. UNCHANGED <<streams, listed, counters, earlier>>
  BY DEF Invalid
<1>5. /\ call' \in [Calls -> CallType] /\ call'[c] = n
      /\ \A d \in Calls : d # c => call'[d] = call[d]
  BY <1>1, <1>2, <1>3 DEF TypeOK
<1>6. TypeOK'
  BY <1>1, <1>4, <1>5 DEF TypeOK, streams, counters, Stream!StreamTypeOK
<1>7. \A d \in Calls : d # c => Follows(d)'
  BY <1>4, <1>5, OthersFollow DEF streams
<1>8. Follows(c)'
  BY <1>1, <1>3, <1>4, <1>5 DEF Follows, Emitted, streams, Stream!Terminal
<1>9. requests' = Cardinality(Begun')
  BY <1>1, <1>2, <1>3, <1>4, SameBegun DEF counters
<1>10. cost' = Total(Paid', Calls)
  BY <1>2, <1>3, <1>4, SamePaid DEF counters
<1> QED
  BY <1>6, <1>7, <1>8, <1>9, <1>10 DEF Inv

LEMMA StartStep ==
  ASSUME Inv, NEW c \in Calls, Start(c)
  PROVE  Inv'
<1> DEFINE n == [call[c] EXCEPT !.pc = "pull"]
<1>1. TypeOK /\ Follows(c) /\ call[c] \in CallType /\ call[c].pc = "idle"
  BY CallFields DEF Inv, Start
<1>2. call' = [call EXCEPT ![c] = n]
  BY <1>1 DEF Start, TypeOK, CallType
<1>3. /\ n \in CallType /\ n.pc = "pull" /\ n.result = call[c].result
      /\ n.index = call[c].index /\ n.told = call[c].told /\ n.paid = call[c].paid
  BY <1>1 DEF CallType
<1> HIDE DEF n
<1>4. /\ UNCHANGED <<streams, cost>> /\ requests' = requests + 1
      /\ listed' = [d \in Calls |-> 0] /\ earlier' = [d \in Calls |-> call[d].index]
  BY DEF Start, NewList
<1>5. /\ call' \in [Calls -> CallType] /\ call'[c] = n
      /\ \A d \in Calls : d # c => call'[d] = call[d]
  BY <1>1, <1>2, <1>3 DEF TypeOK
<1>6. TypeOK'
  <2>1. \A d \in Calls : call[d].index \in 0..EventsMax
    BY <1>1, CallFields
  <2>2. 0 \in 0..EventsMax
    BY Bounds
  <2>3. listed' \in [Calls -> 0..EventsMax] /\ earlier' \in [Calls -> 0..EventsMax]
    BY <1>4, <2>1, <2>2
  <2>4. requests' \in Nat
    BY <1>1, <1>4 DEF TypeOK
  <2> QED
    BY <1>1, <1>4, <1>5, <2>3, <2>4 DEF TypeOK, streams, Stream!StreamTypeOK
<1>7. ASSUME NEW d \in Calls PROVE listed'[d] = call'[d].index - earlier'[d]
  <2>1. call'[d].index = call[d].index /\ call[d].index \in Int
    BY <1>1, <1>3, <1>5, CallFields
  <2> QED
    BY <1>4, <2>1
<1>8. \A d \in Calls : d # c => Follows(d)'
  BY <1>4, <1>5, <1>7 DEF Inv, Follows, Emitted, streams
<1>9. Follows(c)'
  <2>1. stage[c] = "none" /\ call[c].index = 0 /\ call[c].told = 0 /\ Emitted(c) = 0
        /\ call[c].result = "none" /\ call[c].paid = 0 /\ pages[c] = 0
    BY <1>1 DEF Follows, Emitted, Early
  <2> QED
    BY <1>3, <1>4, <1>5, <1>7, <2>1 DEF Follows, Emitted, streams, Stream!Terminal
<1>10. requests' = Cardinality(Begun')
  <2>1. Begun' = Begun \cup {c}
    <3>1. call[c].result = "none"
      BY <1>1 DEF Follows
    <3> QED
      BY <1>3, <1>5, <3>1 DEF Begun
  <2>2. c \notin Begun
    BY <1>1 DEF Begun
  <2>3. IsFiniteSet(Begun)
    BY McpAssumption, FS_Subset DEF Begun
  <2>4. Cardinality(Begun') = Cardinality(Begun) + 1
    BY <2>1, <2>2, <2>3, FS_AddElement
  <2> QED
    BY <1>4, <2>4 DEF Inv
<1>11. cost' = Total(Paid', Calls)
  BY <1>2, <1>3, <1>4, SamePaid
<1> QED
  BY <1>6, <1>8, <1>9, <1>10, <1>11 DEF Inv

LEMMA ProgressStep ==
  ASSUME Inv, NEW c \in Calls, Progress(c)
  PROVE  Inv'
<1> DEFINE n == [call[c] EXCEPT !.pc = "report", !.index = call[c].index + 1]
<1>1. TypeOK /\ Follows(c) /\ call[c] \in CallType /\ call[c].pc = "pull"
      /\ call[c].index \in 0..EventsMax
  BY CallFields DEF Inv, Progress
<1>2. call' = [call EXCEPT ![c] = n]
  BY <1>1 DEF Progress, NextIndex, TypeOK, CallType
<1>3. /\ Stream!StreamTypeOK'
      /\ \A d \in Calls : d # c => stage'[d] = stage[d] /\ pages'[d] = pages[d]
      /\ stage[c] \notin Stream!Terminal /\ stage'[c] \notin Stream!Terminal
      /\ stage'[c] \in Early => pages'[c] = 0
      /\ Emitted(c)' = Emitted(c) + 1
  <2>1. stage[c] \in Early => pages[c] = 0
    BY <1>1 DEF Follows
  <2> QED
    BY <1>1, <2>1, EmitStep DEF Progress
<1>4. /\ listed' = [listed EXCEPT ![c] = listed[c] + 1]
      /\ UNCHANGED <<counters, earlier>>
  BY DEF Progress
<1>5. /\ call[c].index = Emitted(c) /\ call[c].told = Emitted(c)
      /\ call[c].index + 1 = Emitted(c)' /\ Emitted(c) \in Nat
  BY <1>1, <1>3, EmittedBound DEF Follows
<1>6. call[c].index + 1 \in 0..EventsMax
  <2>1. stage'[c] \in Stream!Stages /\ pages'[c] \in 0..PagesMax
    BY <1>3 DEF Stream!StreamTypeOK
  <2>2. Emitted(c)' \in 0..EventsMax
    BY <2>1, Bounds DEF Emitted, Stream!Stages, Stream!Terminal
  <2> QED
    BY <1>5, <2>2
<1>7. /\ n \in CallType /\ n.pc = "report" /\ n.result = call[c].result
      /\ n.index = call[c].index + 1 /\ n.told = call[c].told /\ n.paid = call[c].paid
  BY <1>1, <1>6 DEF CallType
<1> HIDE DEF n
<1>8. /\ call' \in [Calls -> CallType] /\ call'[c] = n
      /\ \A d \in Calls : d # c => call'[d] = call[d]
  BY <1>1, <1>2, <1>7 DEF TypeOK
<1>9. /\ listed'[c] = listed[c] + 1 /\ listed'[c] = n.index - earlier[c]
      /\ listed' \in [Calls -> 0..EventsMax]
      /\ \A d \in Calls : d # c => listed'[d] = listed[d]
  <2>1. /\ listed \in [Calls -> 0..EventsMax] /\ listed[c] = call[c].index - earlier[c]
        /\ earlier[c] \in 0..EventsMax /\ listed[c] \in 0..EventsMax
    BY <1>1, CallFields DEF TypeOK, Follows
  <2>2. listed[c] + 1 = n.index - earlier[c] /\ listed[c] + 1 \in 0..EventsMax
    BY <1>1, <1>6, <1>7, <2>1, Bounds
  <2> QED
    BY <1>4, <2>1, <2>2
<1>10. TypeOK'
  BY <1>1, <1>3, <1>4, <1>8, <1>9 DEF TypeOK, counters
<1>11. \A d \in Calls : d # c => Follows(d)'
  BY <1>3, <1>4, <1>8, <1>9, OthersFollow
<1>12. Follows(c)'
  <2>1. call[c].result = "none" /\ call[c].paid = 0
    BY <1>1 DEF Follows
  <2>2. n.index = Emitted(c)' /\ n.told = Emitted(c)' - 1
    BY <1>3, <1>5, <1>7
  <2>3. stage'[c] # "answer" /\ stage'[c] # "error"
    BY <1>3 DEF Stream!Terminal
  <2> QED
    BY <1>3, <1>4, <1>7, <1>8, <1>9, <2>1, <2>2, <2>3 DEF Follows
<1>13. requests' = Cardinality(Begun')
  BY <1>1, <1>2, <1>4, <1>7, SameBegun DEF counters
<1>14. cost' = Total(Paid', Calls)
  BY <1>2, <1>4, <1>7, SamePaid DEF counters
<1> QED
  BY <1>10, <1>11, <1>12, <1>13, <1>14 DEF Inv

LEMMA ReportedStep ==
  ASSUME Inv, NEW c \in Calls, Reported(c)
  PROVE  Inv'
<1> DEFINE n == [call[c] EXCEPT !.pc = "pull", !.told = call[c].index]
<1>1. TypeOK /\ Follows(c) /\ call[c] \in CallType /\ call[c].pc = "report"
      /\ call[c].index \in 0..EventsMax
  BY CallFields DEF Inv, Reported
<1>2. call' = [call EXCEPT ![c] = n]
  BY <1>1 DEF Reported, TypeOK, CallType
<1>3. /\ n \in CallType /\ n.pc = "pull" /\ n.result = call[c].result
      /\ n.index = call[c].index /\ n.told = call[c].index /\ n.paid = call[c].paid
  BY <1>1 DEF CallType
<1> HIDE DEF n
<1>4. UNCHANGED <<streams, listed, counters, earlier>>
  BY DEF Reported
<1>5. /\ call' \in [Calls -> CallType] /\ call'[c] = n
      /\ \A d \in Calls : d # c => call'[d] = call[d]
  BY <1>1, <1>2, <1>3 DEF TypeOK
<1>6. TypeOK'
  BY <1>1, <1>4, <1>5 DEF TypeOK, streams, counters, Stream!StreamTypeOK
<1>7. \A d \in Calls : d # c => Follows(d)'
  BY <1>4, <1>5, OthersFollow DEF streams
<1>8. Follows(c)'
  BY <1>1, <1>3, <1>4, <1>5 DEF Follows, Emitted, streams, Stream!Terminal
<1>9. requests' = Cardinality(Begun')
  BY <1>1, <1>2, <1>3, <1>4, SameBegun DEF counters
<1>10. cost' = Total(Paid', Calls)
  BY <1>2, <1>3, <1>4, SamePaid DEF counters
<1> QED
  BY <1>6, <1>7, <1>8, <1>9, <1>10 DEF Inv

(* A call ends, with the stream at its last event or left where it is.     *)
LEMMA EndStep ==
  ASSUME Inv, NEW c \in Calls, call[c].pc \in {"pull", "report"},
         NEW result \in Results \ {"none", "invalid_input"},
         NEW usd \in Costs \cup {0},
         call' = [call EXCEPT ![c] = [call[c] EXCEPT !.pc = "done", !.result = result,
                                                     !.paid = usd]],
         cost' = cost + usd, UNCHANGED <<listed, requests, earlier>>,
         Stream!StreamTypeOK', pages' = pages,
         \A d \in Calls : d # c => stage'[d] = stage[d],
         \/ stage'[c] = stage[c] /\ result \notin {"answer", "error"}
         \/ stage'[c] = "answer" /\ result \in {"answer", "internal"}
         \/ stage'[c] = "error" /\ result = "error"
  PROVE  Inv'
<1> DEFINE n == [call[c] EXCEPT !.pc = "done", !.result = result, !.paid = usd]
<1>1. TypeOK /\ Follows(c) /\ call[c] \in CallType
  BY CallFields DEF Inv
<1>2. call' = [call EXCEPT ![c] = n]
  OBVIOUS
<1>3. /\ n \in CallType /\ n.pc = "done" /\ n.result = result
      /\ n.index = call[c].index /\ n.told = call[c].told /\ n.paid = usd
  BY <1>1 DEF CallType
<1> HIDE DEF n
<1>4. /\ call' \in [Calls -> CallType] /\ call'[c] = n
      /\ \A d \in Calls : d # c => call'[d] = call[d]
  BY <1>1, <1>2, <1>3 DEF TypeOK
<1>5. usd \in Nat
  BY McpAssumption
<1>6. TypeOK'
  <2>1. cost' \in Nat
    BY <1>1, <1>5 DEF TypeOK
  <2> QED
    BY <1>1, <1>4, <2>1 DEF TypeOK
<1>7. \A d \in Calls : d # c => Follows(d)'
  BY <1>4, OthersFollow
<1>8. Follows(c)'
  <2>1. stage[c] \notin Stream!Terminal /\ call[c].result = "none"
    BY <1>1 DEF Follows
  <2>2. CASE stage'[c] = stage[c] /\ result \notin {"answer", "error"}
    BY <1>1, <1>3, <1>4, <2>1, <2>2 DEF Follows, Emitted, Stream!Terminal
  <2>3. CASE stage'[c] = "answer" /\ result \in {"answer", "internal"}
    BY <1>1, <1>3, <1>4, <2>1, <2>3 DEF Follows, Early, Stream!Terminal
  <2>4. CASE stage'[c] = "error" /\ result = "error"
    BY <1>1, <1>3, <1>4, <2>1, <2>4 DEF Follows, Early, Stream!Terminal
  <2> QED
    BY <2>2, <2>3, <2>4
<1>9. requests' = Cardinality(Begun')
  <2>1. call[c].result = "none"
    BY <1>1 DEF Follows
  <2> QED
    BY <1>2, <1>3, <2>1, SameBegun
<1>10. cost' = Total(Paid', Calls)
  <2>1. call[c].paid = 0
    BY <1>1 DEF Follows
  <2>2. \A d \in Calls : /\ Paid[d] \in Nat
                         /\ Paid'[d] = IF d = c THEN Paid[d] + usd ELSE Paid[d]
    BY <1>1, <1>3, <1>4, <1>5, <2>1, CallFields DEF Paid
  <2>3. Total(Paid', Calls) = Total(Paid, Calls) + usd
    BY <1>5, <2>2, McpAssumption, TotalAdd
  <2> QED
    BY <2>3 DEF Inv
<1> QED
  BY <1>6, <1>7, <1>8, <1>9, <1>10 DEF Inv

(* A call that returns without an answer, its stream at rest or ended.     *)
LEMMA ReturnStep ==
  ASSUME Inv, NEW c \in Calls, call[c].pc \in {"pull", "report"},
         NEW result \in Results \ {"none", "invalid_input", "answer"},
         Return(c, result), UNCHANGED <<listed, counters, earlier>>,
         Stream!StreamTypeOK', pages' = pages,
         \A d \in Calls : d # c => stage'[d] = stage[d],
         \/ stage'[c] = stage[c] /\ result # "error"
         \/ stage'[c] = "answer" /\ result = "internal"
         \/ stage'[c] = "error" /\ result = "error"
  PROVE  Inv'
<1>1. call[c] \in CallType /\ call \in [Calls -> CallType] /\ call[c].paid = 0
  BY CallFields DEF Inv, TypeOK, Follows
<1>2. call' = [call EXCEPT ![c] = [call[c] EXCEPT !.pc = "done", !.result = result,
                                                  !.paid = 0]]
  BY <1>1 DEF Return, CallType
<1>3. cost' = cost + 0 /\ requests' = requests /\ listed' = listed /\ earlier' = earlier
  BY DEF Inv, TypeOK, counters
<1> QED
  BY <1>2, <1>3, EndStep

LEMMA AnswerStep ==
  ASSUME Inv, NEW c \in Calls, Answer(c)
  PROVE  Inv'
<1>1. TypeOK /\ call[c] \in CallType /\ call[c].pc = "pull"
  BY CallFields DEF Inv, Answer
<1>2. /\ Stream!StreamTypeOK' /\ pages' = pages /\ stage'[c] = "answer"
      /\ \A d \in Calls : d # c => stage'[d] = stage[d]
  BY <1>1, LastStep DEF Answer, Stream!Terminal
<1>3. UNCHANGED <<listed, requests, earlier>>
  BY DEF Answer
<1>4. CASE Return(c, "internal") /\ UNCHANGED cost
  BY <1>1, <1>2, <1>3, <1>4, ReturnStep DEF Results, counters
<1>5. CASE \E usd \in Costs :
             /\ cost' = cost + usd
             /\ call' = [call EXCEPT ![c].pc = "done", ![c].result = "answer",
                                     ![c].paid = usd]
  <2>1. PICK usd \in Costs :
             /\ cost' = cost + usd
             /\ call' = [call EXCEPT ![c].pc = "done", ![c].result = "answer",
                                     ![c].paid = usd]
    BY <1>5
  <2>2. call' = [call EXCEPT ![c] = [call[c] EXCEPT !.pc = "done", !.result = "answer",
                                                    !.paid = usd]]
    BY <1>1, <2>1 DEF TypeOK, CallType
  <2>3. /\ usd \in Costs \cup {0} /\ cost' = cost + usd
        /\ call[c].pc \in {"pull", "report"}
        /\ "answer" \in Results \ {"none", "invalid_input"}
    BY <1>1, <2>1 DEF Results
  <2> QED
    BY <1>2, <1>3, <2>2, <2>3, EndStep
<1> QED
  BY <1>4, <1>5 DEF Answer

LEMMA ErrorStep ==
  ASSUME Inv, NEW c \in Calls, Error(c)
  PROVE  Inv'
<1>1. TypeOK /\ call[c].pc = "pull"
  BY DEF Inv, Error
<1>2. /\ Stream!StreamTypeOK' /\ pages' = pages /\ stage'[c] = "error"
      /\ \A d \in Calls : d # c => stage'[d] = stage[d]
  BY <1>1, LastStep DEF Error, Stream!Terminal
<1>3. Return(c, "error") /\ UNCHANGED <<listed, counters, earlier>>
  BY DEF Error
<1> QED
  BY <1>1, <1>2, <1>3, ReturnStep DEF Results

LEMMA BreakStep ==
  ASSUME Inv, NEW c \in Calls, Broken(c) \/ Cancel(c)
  PROVE  Inv'
<1>1. /\ call[c].pc \in {"pull", "report"} /\ UNCHANGED <<streams, listed, counters, earlier>>
      /\ \E result \in {"internal", "raised", "cancelled"} : Return(c, result)
  BY DEF Broken, Cancel
<1>2. PICK result \in {"internal", "raised", "cancelled"} : Return(c, result)
  BY <1>1
<1>3. Stream!StreamTypeOK' /\ pages' = pages /\ stage' = stage
  BY <1>1 DEF Inv, TypeOK, streams, Stream!StreamTypeOK
<1> QED
  BY <1>1, <1>2, <1>3, ReturnStep DEF Results

-----------------------------------------------------------------------------
(* The invariant holds always                                              *)

LEMMA InvInit == Init => Inv
<1> SUFFICES ASSUME Init PROVE Inv
  OBVIOUS
<1> DEFINE n == [pc |-> "idle", index |-> 0, told |-> 0, result |-> "none", paid |-> 0]
<1>1. call = [c \in Calls |-> n]
  BY DEF Init
<1>2. 0 \in 0..PagesMax /\ 0 \in 0..EventsMax
  BY Bounds
<1>3. /\ n \in CallType /\ n.pc = "idle" /\ n.index = 0 /\ n.told = 0
      /\ n.result = "none" /\ n.paid = 0
  BY <1>2 DEF CallType, Results
<1> HIDE DEF n
<1>4. TypeOK
  BY <1>1, <1>2, <1>3 DEF Init, TypeOK, Stream!Init, Stream!StreamTypeOK, Stream!Stages
<1>5. ASSUME NEW c \in Calls PROVE Follows(c)
  <2>1. call[c] = n /\ stage[c] = "none" /\ pages[c] = 0 /\ listed[c] = 0 /\ earlier[c] = 0
    BY <1>1 DEF Init, Stream!Init
  <2>2. Emitted(c) = 0
    BY <2>1 DEF Emitted
  <2> QED
    BY <1>3, <2>1, <2>2 DEF Follows, Stream!Terminal
<1>6. requests = Cardinality(Begun)
  <2>1. Begun = {}
    BY <1>1, <1>3 DEF Begun
  <2> QED
    BY <2>1, FS_EmptySet DEF Init
<1>7. cost = Total(Paid, Calls)
  <2>1. \A c \in Calls : Paid[c] = 0
    BY <1>1, <1>3 DEF Paid
  <2> QED
    BY <2>1, McpAssumption, TotalZero DEF Init
<1> QED
  BY <1>4, <1>5, <1>6, <1>7 DEF Inv

LEMMA InvStep == Inv /\ [Next]_vars => Inv'
<1> SUFFICES ASSUME Inv, [Next]_vars PROVE Inv'
  OBVIOUS
<1>1. CASE UNCHANGED vars
  <2>1. TypeOK' /\ \A c \in Calls : Follows(c)'
    BY <1>1 DEF Inv, TypeOK, Follows, Emitted, vars, streams, counters,
                Stream!StreamTypeOK
  <2>2. Begun' = Begun /\ Paid' = Paid
    BY <1>1 DEF Begun, Paid, vars
  <2> QED
    BY <1>1, <2>1, <2>2 DEF Inv, vars, counters
<1>2. CASE Next
  BY <1>2, InvalidStep, StartStep, ProgressStep, ReportedStep, AnswerStep, ErrorStep,
     BreakStep DEF Next
<1> QED
  BY <1>1, <1>2

LEMMA InvAlways == Spec => []Inv
  BY InvInit, InvStep, PTL DEF Spec

-----------------------------------------------------------------------------
(* Coroutines, streams and counters are of their types: in particular a    *)
(* call never reports more events than the pages of its stream allow.      *)
THEOREM TypeCorrect == Spec => []TypeOK
<1>1. Inv => TypeOK
  BY DEF Inv
<1> QED
  BY <1>1, InvAlways, PTL

(* However the calls interleave, the progress numbers one client receives  *)
(* are those of its own stream's events, without gap.                      *)
THEOREM ProgressOrdered == Spec => []ProgressInOrder
<1>1. Inv => ProgressInOrder
  BY DEF Inv, Follows, ProgressInOrder
<1> QED
  BY <1>1, InvAlways, PTL

(* The list progress_events, replaced whenever a call begins, holds exactly *)
(* what each call reported since the last of them began.                   *)
THEOREM ListExact == Spec => []ListSinceStart
<1>1. Inv => ListSinceStart
  BY DEF Inv, Follows, ListSinceStart
<1> QED
  BY <1>1, InvAlways, PTL

(* requests_today and daily_cost_usd are the calls that passed validation  *)
(* and the costs of the answers returned, whichever calls fail or are      *)
(* cancelled; and a call returns what its stream ended with.               *)
THEOREM AccountsKept == Spec => []Accounted
<1>1. Inv => Accounted
  BY PaidTotal DEF Inv, Follows, Accounted, Begun
<1> QED
  BY <1>1, InvAlways, PTL
=============================================================================
