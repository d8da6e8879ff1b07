--------------------------- MODULE GroundingProofs ---------------------------
(***************************************************************************)
(* Proofs about Grounding.  The extractor has an inductive invariant; what *)
(* rerank, the search routing and the validation of citations return is    *)
(* proved of every input, by what each of their folds keeps and leaves     *)
(* out.                                                                    *)
(***************************************************************************)
EXTENDS Grounding, FiniteSetTheorems, FunctionTheorems, TLAPS

-----------------------------------------------------------------------------
(* The inductive invariant of the extractor                                *)

(* The open elements whose text must not be kept.                          *)
Secret == {i \in DOMAIN dom : dom[i].hidden /\ ~dom[i].leaky}

(* Every one of them has its own entry on the stack, in the same order.    *)
Guards(f) == \A i \in Secret :
    /\ f[i] \in DOMAIN suppress /\ suppress[f[i]] = dom[i].tag
    /\ \A j \in Secret : j < i => f[j] < f[i]

(* Every entry of the stack is of an open hidden element, in the same      *)
(* order.                                                                  *)
Blames(g) == \A k \in DOMAIN suppress :
    /\ g[k] \in DOMAIN dom /\ dom[g[k]].hidden /\ dom[g[k]].tag = suppress[k]
    /\ \A l \in DOMAIN suppress : l < k => g[l] < g[k]

ExtractInv ==
    /\ dom \in Seq(Elements) /\ suppress \in Seq(Tags) /\ unclosed \in BOOLEAN
    /\ \A i, j \in DOMAIN dom :
          i < j /\ dom[i].tag = dom[j].tag /\ dom[j].leaky => dom[i].leaky
    /\ \E f : Guards(f)
    /\ ~unclosed => \E g : Blames(g)

LEMMA ExtractInvSuffices == ExtractInv => SuppressionExact
<1> SUFFICES ASSUME ExtractInv PROVE SuppressionExact
  OBVIOUS
<1>1. PICK f : Guards(f)
  BY DEF ExtractInv
<1>2. ASSUME NEW i \in DOMAIN dom, dom[i].hidden, ~dom[i].leaky PROVE ~Kept
  BY <1>1, <1>2 DEF Guards, Secret, Kept
<1>3. ASSUME \A i \in DOMAIN dom : ~dom[i].hidden, ~unclosed PROVE Kept
  <2>1. PICK g : Blames(g)
    BY <1>3 DEF ExtractInv
  <2>2. DOMAIN suppress = {}
    BY <1>3, <2>1 DEF Blames
  <2> QED
    BY <2>2 DEF ExtractInv, Kept
<1> QED
  BY <1>2, <1>3 DEF SuppressionExact

LEMMA ExtractInvInit == ExtractInit => ExtractInv
<1> SUFFICES ASSUME ExtractInit PROVE ExtractInv
  OBVIOUS
<1>1. dom = <<>> /\ suppress = <<>> /\ unclosed = FALSE
  BY DEF ExtractInit
<1>2. dom \in Seq(Elements) /\ suppress \in Seq(Tags) /\ DOMAIN dom = {} /\ DOMAIN suppress = {}
  BY <1>1
<1>3. Guards(<<>>) /\ Blames(<<>>)
  BY <1>2 DEF Guards, Blames, Secret
<1> QED
  BY <1>1, <1>2, <1>3 DEF ExtractInv

(* Elements open and close at the end of a sequence.                       *)
LEMMA Pushed ==
  ASSUME NEW S, NEW s \in Seq(S), NEW x \in S, NEW t, t = Append(s, x)
  PROVE  /\ t \in Seq(S) /\ Len(s) \in Nat /\ Len(t) = Len(s) + 1
         /\ DOMAIN s = 1..Len(s) /\ DOMAIN t = 1..(Len(s) + 1)
         /\ t[Len(s) + 1] = x /\ \A i \in DOMAIN s : t[i] = s[i]
  OBVIOUS

LEMMA Popped ==
  ASSUME NEW S, NEW s \in Seq(S), s # <<>>
  PROVE  /\ Len(s) \in Nat \ {0} /\ DOMAIN s = 1..Len(s) /\ Last(s) = s[Len(s)]
         /\ Front(s) \in Seq(S) /\ DOMAIN Front(s) = 1..(Len(s) - 1)
         /\ \A i \in 1..(Len(s) - 1) : Front(s)[i] = s[i]
  BY DEF Last, Front

LEMMA OpenStep ==
  ASSUME ExtractInv, NEW tag \in Tags, NEW hidden \in BOOLEAN, Open(tag, hidden)
  PROVE  ExtractInv'
<1> DEFINE e == [tag |-> tag, hidden |-> Dropped(tag, hidden), leaky |-> FALSE]
           m == Len(dom) + 1
           n == Len(suppress) + 1
<1>1. e \in Elements /\ e.tag = tag /\ e.hidden = Dropped(tag, hidden) /\ e.leaky = FALSE
  BY DEF Elements, Dropped
<1>2. dom' = Append(dom, e) /\ StartTag(tag, hidden) /\ unclosed' = unclosed
  BY DEF Open
<1> HIDE DEF e
<1>3. /\ dom' \in Seq(Elements) /\ Len(dom) \in Nat /\ DOMAIN dom = 1..Len(dom)
      /\ DOMAIN dom' = 1..m /\ dom'[m] = e /\ \A i \in DOMAIN dom : dom'[i] = dom[i]
  BY <1>1, <1>2, Pushed DEF ExtractInv
<1>4. /\ suppress' \in Seq(Tags) /\ Len(suppress) \in Nat /\ DOMAIN suppress = 1..Len(suppress)
      /\ \A k \in DOMAIN suppress : suppress'[k] = suppress[k]
      /\ IF e.hidden THEN DOMAIN suppress' = 1..n /\ suppress'[n] = tag
                     ELSE suppress' = suppress
  <2>1. CASE e.hidden
    <3>1. suppress' = Append(suppress, tag)
      BY <1>1, <1>2, <2>1 DEF StartTag
    <3> QED
      BY <2>1, <3>1, Pushed DEF ExtractInv
  <2>2. CASE ~e.hidden
    BY <1>1, <1>2, <2>2 DEF StartTag, ExtractInv
  <2> QED
    BY <2>1, <2>2
<1>5. ASSUME NEW i \in DOMAIN dom', NEW j \in DOMAIN dom',
             i < j, dom'[i].tag = dom'[j].tag, dom'[j].leaky
      PROVE  dom'[i].leaky
  <2>1. j # m
    BY <1>1, <1>3, <1>5
  <2>2. i \in DOMAIN dom /\ j \in DOMAIN dom
    BY <1>3, <1>5, <2>1
  <2> QED
    BY <1>3, <1>5, <2>2 DEF ExtractInv
<1>6. \E f : Guards(f)'
  <2>1. PICK f : Guards(f)
    BY DEF ExtractInv
  <2> DEFINE h == [i \in 1..m |-> IF i = m THEN n ELSE f[i]]
  <2>2. h[m] = n /\ \A i \in DOMAIN dom : h[i] = f[i]
    BY <1>3
  <2> HIDE DEF h
  <2>3. ASSUME NEW i \in Secret', i # m
        PROVE  i \in Secret /\ i < m /\ h[i] = f[i] /\ f[i] \in DOMAIN suppress
    BY <1>3, <2>1, <2>2, <2>3 DEF Secret, Guards
  <2>4. ASSUME NEW i \in Secret'
        PROVE  /\ h[i] \in DOMAIN suppress' /\ suppress'[h[i]] = dom'[i].tag
               /\ \A j \in Secret' : j < i => h[j] < h[i]
    <3>1. CASE i = m
      <4>1. e.hidden
        BY <1>3, <3>1 DEF Secret
      <4>2. h[i] \in DOMAIN suppress' /\ suppress'[h[i]] = dom'[i].tag
        BY <1>1, <1>3, <1>4, <2>2, <3>1, <4>1
      <4>3. \A j \in Secret' : j < i => h[j] < h[i]
        BY <1>3, <1>4, <2>2, <2>3, <3>1
      <4> QED
        BY <4>2, <4>3
    <3>2. CASE i # m
      <4>1. i \in Secret /\ h[i] = f[i] /\ i < m
        BY <2>3, <3>2
      <4>2. h[i] \in DOMAIN suppress /\ suppress[h[i]] = dom[i].tag
        BY <2>1, <4>1 DEF Guards
      <4>3. h[i] \in DOMAIN suppress' /\ suppress'[h[i]] = dom'[i].tag
        BY <1>3, <1>4, <4>1, <4>2 DEF Secret
      <4>4. ASSUME NEW j \in Secret', j < i PROVE h[j] < h[i]
        <5>1. j # m
          BY <1>3, <4>1, <4>4 DEF Secret
        <5>2. j \in Secret /\ h[j] = f[j]
          BY <2>3, <5>1
        <5> QED
          BY <2>1, <4>1, <4>4, <5>2 DEF Guards
      <4> QED
        BY <4>3, <4>4
    <3> QED
      BY <3>1, <3>2
  <2> QED
    BY <2>4 DEF Guards
<1>7. ASSUME ~unclosed' PROVE \E g : Blames(g)'
  <2>1. PICK g : Blames(g)
    BY <1>2, <1>7 DEF ExtractInv
  <2>2. CASE ~e.hidden
    BY <1>3, <1>4, <2>1, <2>2 DEF Blames
  <2>3. CASE e.hidden
    <3> DEFINE h == [k \in 1..n |-> IF k = n THEN m ELSE g[k]]
    <3>1. h[n] = m /\ \A k \in DOMAIN suppress : h[k] = g[k]
      BY <1>4
    <3> HIDE DEF h
    <3>2. ASSUME NEW k \in DOMAIN suppress', k # n
          PROVE  /\ k \in DOMAIN suppress /\ k < n /\ h[k] = g[k] /\ g[k] \in DOMAIN dom
                 /\ dom[g[k]].hidden /\ dom[g[k]].tag = suppress[k]
      BY <1>4, <2>1, <2>3, <3>1, <3>2 DEF Blames
    <3>3. ASSUME NEW k \in DOMAIN suppress'
          PROVE  /\ h[k] \in DOMAIN dom' /\ dom'[h[k]].hidden /\ dom'[h[k]].tag = suppress'[k]
                 /\ \A l \in DOMAIN suppress' : l < k => h[l] < h[k]
      <4>1. CASE k = n
        <5>1. h[k] \in DOMAIN dom' /\ dom'[h[k]].hidden /\ dom'[h[k]].tag = suppress'[k]
          BY <1>1, <1>3, <1>4, <2>3, <3>1, <4>1
        <5>2. \A l \in DOMAIN suppress' : l < k => h[l] < h[k]
          BY <1>3, <1>4, <2>3, <3>1, <3>2, <4>1
        <5> QED
          BY <5>1, <5>2
      <4>2. CASE k # n
        <5>1. /\ k \in DOMAIN suppress /\ k < n /\ h[k] = g[k] /\ g[k] \in DOMAIN dom
              /\ dom[g[k]].hidden /\ dom[g[k]].tag = suppress[k]
          BY <3>2, <4>2
        <5>2. h[k] \in DOMAIN dom' /\ dom'[h[k]].hidden /\ dom'[h[k]].tag = suppress'[k]
          BY <1>3, <1>4, <5>1
        <5>3. ASSUME NEW l \in DOMAIN suppress', l < k PROVE h[l] < h[k]
          <6>1. l # n
            BY <1>4, <2>3, <5>1, <5>3
          <6>2. l \in DOMAIN suppress /\ h[l] = g[l]
            BY <3>2, <6>1
          <6> QED
            BY <2>1, <5>1, <5>3, <6>2 DEF Blames
        <5> QED
          BY <5>2, <5>3
      <4> QED
        BY <4>1, <4>2
    <3> QED
      BY <3>3 DEF Blames
  <2> QED
    BY <2>2, <2>3
<1>8. unclosed' \in BOOLEAN
  BY <1>2 DEF ExtractInv
<1> QED
  BY <1>3, <1>4, <1>5, <1>6, <1>7, <1>8 DEF ExtractInv

LEMMA VoidStep ==
  ASSUME ExtractInv, NEW tag \in Tags, NEW hidden \in BOOLEAN, Void(tag, hidden)
  PROVE  ExtractInv'
<1>1. /\ dom' = dom /\ unclosed' = (unclosed \/ Dropped(tag, hidden))
      /\ StartTag(tag, hidden)
  BY DEF Void
<1>2. CASE ~Dropped(tag, hidden)
  <2>1. suppress' = suppress /\ unclosed' = unclosed
    BY <1>1, <1>2 DEF StartTag, ExtractInv
  <2> QED
    BY <1>1, <2>1 DEF ExtractInv, Guards, Blames, Secret
<1>3. CASE Dropped(tag, hidden)
  <2>1. suppress' = Append(suppress, tag) /\ unclosed' = TRUE
    BY <1>1, <1>3 DEF StartTag
  <2>2. /\ suppress' \in Seq(Tags) /\ DOMAIN suppress \subseteq DOMAIN suppress'
        /\ \A k \in DOMAIN suppress : suppress'[k] = suppress[k]
    BY <2>1, Pushed DEF ExtractInv
  <2>3. PICK f : Guards(f)
    BY DEF ExtractInv
  <2>4. Guards(f)'
    BY <1>1, <2>2, <2>3 DEF Guards, Secret
  <2> QED
    BY <1>1, <2>1, <2>2, <2>4 DEF ExtractInv
<1> QED
  BY <1>2, <1>3

LEMMA ShutStep ==
  ASSUME ExtractInv, Shut
  PROVE  ExtractInv'
<1> DEFINE e == Last(dom)
           m == Len(dom)
           n == Len(suppress)
           pop == suppress # <<>> /\ suppress[n] = e.tag
<1>1. /\ dom \in Seq(Elements) /\ suppress \in Seq(Tags) /\ dom # <<>>
      /\ dom' = [i \in 1..(m - 1) |->
           [dom[i] EXCEPT !.leaky = dom[i].leaky \/ (dom[i].tag = e.tag /\ ~e.hidden)]]
      /\ EndTag(e.tag) /\ unclosed' = unclosed
  BY DEF ExtractInv, Shut
<1>2. /\ m \in Nat \ {0} /\ DOMAIN dom = 1..m /\ e = dom[m] /\ e \in Elements
      /\ n \in Nat /\ DOMAIN suppress = 1..n
  <2>1. m \in Nat \ {0} /\ DOMAIN dom = 1..m /\ e = dom[m]
    BY <1>1, Popped
  <2>2. n \in Nat /\ DOMAIN suppress = 1..n
    BY <1>1
  <2>3. m \in 1..m
    BY <2>1
  <2> QED
    BY <1>1, <2>1, <2>2, <2>3
<1> HIDE DEF e
<1>3. ASSUME NEW i \in 1..(m - 1)
      PROVE  /\ i \in DOMAIN dom /\ i < m /\ dom'[i] \in Elements
             /\ dom'[i].tag = dom[i].tag /\ dom'[i].hidden = dom[i].hidden
             /\ dom'[i].leaky = (dom[i].leaky \/ (dom[i].tag = e.tag /\ ~e.hidden))
  <2>1. i \in DOMAIN dom /\ i < m /\ dom[i] \in Elements /\ e \in Elements
    BY <1>1, <1>2
  <2> QED
    BY <1>1, <2>1 DEF Elements
<1>4. dom' \in Seq(Elements) /\ DOMAIN dom' = 1..(m - 1)
  BY <1>1, <1>2, <1>3
<1>5. /\ pop => /\ suppress' \in Seq(Tags) /\ DOMAIN suppress' = 1..(n - 1)
                /\ \A k \in 1..(n - 1) : suppress'[k] = suppress[k]
      /\ ~pop => suppress' = suppress
  BY <1>1, Popped DEF EndTag
<1>6. ASSUME NEW i \in DOMAIN dom', NEW j \in DOMAIN dom',
             i < j, dom'[i].tag = dom'[j].tag, dom'[j].leaky
      PROVE  dom'[i].leaky
  <2>1. dom[i].tag = dom[j].tag /\ i \in DOMAIN dom /\ j \in DOMAIN dom
    BY <1>3, <1>4, <1>6
  <2>2. dom[j].leaky \/ (dom[j].tag = e.tag /\ ~e.hidden)
    BY <1>3, <1>4, <1>6
  <2>3. dom[j].leaky => dom[i].leaky
    BY <1>6, <2>1 DEF ExtractInv
  <2> QED
    BY <1>3, <1>4, <2>1, <2>2, <2>3
<1>7. \E f : Guards(f)'
  <2>1. PICK f : Guards(f)
    BY DEF ExtractInv
  <2>2. ASSUME NEW i \in Secret'
        PROVE  /\ i \in Secret /\ i \in 1..(m - 1) /\ dom'[i].tag = dom[i].tag
               /\ dom[i].tag = e.tag => e.hidden
    BY <1>3, <1>4 DEF Secret
  <2>3. ASSUME NEW i \in Secret', pop PROVE f[i] # n
    <3> SUFFICES ASSUME f[i] = n PROVE FALSE
      OBVIOUS
    <3>1. i \in Secret /\ i < m /\ i \in DOMAIN dom /\ m \in DOMAIN dom
      BY <1>2, <1>3, <2>2
    <3>2. dom[i].tag = e.tag
      BY <2>1, <2>3, <3>1 DEF Guards
    <3>3. e.hidden
      BY <2>2, <3>2
    <3>4. CASE e.leaky
      BY <1>2, <3>1, <3>2, <3>4 DEF ExtractInv, Secret
    <3>5. CASE ~e.leaky
      <4>1. m \in Secret
        BY <1>2, <3>1, <3>3, <3>5 DEF Secret
      <4>2. f[i] < f[m] /\ f[m] \in 1..n
        BY <1>2, <2>1, <3>1, <4>1 DEF Guards
      <4> QED
        BY <1>2, <4>2
    <3> QED
      BY <3>4, <3>5
  <2>4. ASSUME NEW i \in Secret'
        PROVE  f[i] \in DOMAIN suppress' /\ suppress'[f[i]] = dom'[i].tag
    <3>1. f[i] \in 1..n /\ suppress[f[i]] = dom'[i].tag
      BY <1>2, <2>1, <2>2 DEF Guards
    <3>2. CASE pop
      BY <1>2, <1>5, <2>3, <3>1, <3>2
    <3>3. CASE ~pop
      BY <1>2, <1>5, <3>1, <3>3
    <3> QED
      BY <3>2, <3>3
  <2>5. ASSUME NEW i \in Secret', NEW j \in Secret', j < i PROVE f[j] < f[i]
    BY <2>1, <2>2, <2>5 DEF Guards
  <2> QED
    BY <2>4, <2>5 DEF Guards
<1>8. ASSUME ~unclosed' PROVE \E g : Blames(g)'
  <2>1. PICK g : Blames(g)
    BY <1>1, <1>8 DEF ExtractInv
  <2>2. ASSUME NEW k \in DOMAIN suppress'
        PROVE  k \in DOMAIN suppress /\ suppress'[k] = suppress[k] /\ (pop => k < n)
    BY <1>2, <1>5
  <2>3. ASSUME NEW k \in DOMAIN suppress' PROVE g[k] # m
    <3> SUFFICES ASSUME g[k] = m PROVE FALSE
      OBVIOUS
    <3>1. k \in DOMAIN suppress /\ dom[m].tag = suppress[k]
      BY <2>1, <2>2 DEF Blames
    <3>2. CASE k = n
      <4>1. pop
        BY <1>1, <1>2, <3>1, <3>2
      <4> QED
        BY <1>2, <2>2, <3>2, <4>1
    <3>3. CASE k # n
      <4>1. n \in DOMAIN suppress /\ k < n
        BY <1>2, <3>1, <3>3
      <4>2. g[k] < g[n] /\ g[n] \in 1..m
        BY <1>2, <2>1, <3>1, <4>1 DEF Blames
      <4> QED
        BY <1>2, <4>2
    <3> QED
      BY <3>2, <3>3
  <2>4. ASSUME NEW k \in DOMAIN suppress'
        PROVE  g[k] \in DOMAIN dom' /\ dom'[g[k]].hidden /\ dom'[g[k]].tag = suppress'[k]
    <3>1. g[k] \in 1..m /\ dom[g[k]].hidden /\ dom[g[k]].tag = suppress'[k]
      BY <1>2, <2>1, <2>2 DEF Blames
    <3>2. g[k] \in 1..(m - 1)
      BY <1>2, <2>3, <3>1
    <3> QED
      BY <1>3, <1>4, <3>1, <3>2
  <2>5. ASSUME NEW k \in DOMAIN suppress', NEW l \in DOMAIN suppress', l < k
        PROVE  g[l] < g[k]
    BY <2>1, <2>2, <2>5 DEF Blames
  <2> QED
    BY <2>4, <2>5 DEF Blames
<1>9. suppress' \in Seq(Tags) /\ unclosed' \in BOOLEAN
  <2>1. suppress' \in Seq(Tags)
    BY <1>1, <1>5
  <2> QED
    BY <1>1, <2>1 DEF ExtractInv
<1> QED
  BY <1>4, <1>6, <1>7, <1>8, <1>9 DEF ExtractInv

LEMMA ExtractInvAlways == Spec => []ExtractInv
<1>1. Init => ExtractInv
  BY ExtractInvInit DEF Init
<1>2. ExtractInv /\ [Next]_vars => ExtractInv'
  <2> SUFFICES ASSUME ExtractInv, [Next]_vars PROVE ExtractInv'
    OBVIOUS
  <2>1. CASE UNCHANGED extractVars
    BY <2>1 DEF ExtractInv, Guards, Blames, Secret, extractVars
  <2>2. CASE ExtractNext
    BY <2>2, OpenStep, VoidStep, ShutStep DEF ExtractNext
  <2> QED
    BY <2>1, <2>2 DEF Next, Route, Rerank, Validate, ExtractStep, vars
<1> QED
  BY <1>1, <1>2, PTL DEF Spec

(* Whatever elements open, close or never close, and however they nest:    *)
(* the extractor keeps no text inside a hidden element, unless a plain one *)
(* of that name was closed in it, and drops none outside all of them,      *)
(* unless a hidden start tag had no end tag.                               *)
THEOREM SuppressionCorrect == Spec => []SuppressionExact
  BY ExtractInvAlways, ExtractInvSuffices, PTL

-----------------------------------------------------------------------------
(* Folds over a list                                                       *)

LEMMA LeastElement ==
  ASSUME NEW T \in SUBSET Nat, T # {}
  PROVE  \E x \in T : \A y \in T : x <= y
<1>1. PICK x \in T : \A y \in T : ~ (<<y, x>> \in OpToRel(<, Nat))
  BY NatLessThanWellFounded, WFMin
<1>2. \A y \in T : <<y, x>> \in OpToRel(<, Nat) <=> y < x
  BY <1>1 DEF OpToRel
<1>3. \A y \in T : y \in Nat /\ x \in Nat /\ ~(y < x)
  BY <1>1, <1>2
<1>4. \A y \in T : x <= y
  BY <1>3
<1> QED
  BY <1>1, <1>4

(* What holds of the first value and carries over to the next one holds of *)
(* all of them.                                                            *)
LEMMA Ranged ==
  ASSUME NEW n \in Nat, NEW T, NEW K, K[0] \in T,
         \A k \in 1..n : K[k - 1] \in T => K[k] \in T
  PROVE  \A k \in 0..n : K[k] \in T
<1> DEFINE Bad == {k \in 0..n : K[k] \notin T}
<1> SUFFICES ASSUME Bad # {} PROVE FALSE
  OBVIOUS
<1>1. Bad \in SUBSET Nat
  OBVIOUS
<1>2. PICK k \in Bad : \A j \in Bad : k <= j
  BY <1>1, LeastElement
<1>3. k \in 0..n /\ K[k] \notin T /\ k \in 1..n
  BY <1>2
<1>4. k - 1 \notin Bad
  BY <1>2, <1>3
<1> QED
  BY <1>3, <1>4

LEMMA MaxTop ==
  ASSUME NEW n \in Nat, NEW S \in SUBSET (1..n), n \in S
  PROVE  Max(S) = n
<1>1. \A y \in S : n >= y
  OBVIOUS
<1>2. \A x \in S : (\A y \in S : x >= y) => x = n
  OBVIOUS
<1> QED
  BY <1>1, <1>2 DEF Max

(* g[S] is what a fold with the function f makes of the members of S.      *)
IsIter(g, f, base, s, n) == \A S \in SUBSET (1..n) :
    g[S] = IF S = {} THEN base ELSE f[<<g[S \ {Max(S)}], s[Max(S)]>>]

LEMMA IterExists ==
  ASSUME NEW T, NEW R, NEW base \in T, NEW f \in [T \X R -> T],
         NEW s \in Seq(R)
  PROVE  \E g \in [SUBSET (1..Len(s)) -> T] : IsIter(g, f, base, s, Len(s))
<1> DEFINE Has(n) == \E g \in [SUBSET (1..n) -> T] : IsIter(g, f, base, s, n)
<1> SUFFICES Has(Len(s))
  OBVIOUS
<1> HIDE DEF Has
<1> DEFINE Bad == {n \in 0..Len(s) : ~Has(n)}
<1> SUFFICES ASSUME Bad # {} PROVE FALSE
  OBVIOUS
<1>1. Bad \in SUBSET Nat
  OBVIOUS
<1>2. PICK n \in Bad : \A m \in Bad : n <= m
  BY <1>1, LeastElement
<1>3. n \in 0..Len(s) /\ ~Has(n)
  BY <1>2
<1>4. CASE n = 0
  <2> USE DEF Has
  <2>1. 1..0 = {}
    OBVIOUS
  <2> DEFINE g == [S \in SUBSET (1..0) |-> base]
  <2>2. g \in [SUBSET (1..0) -> T] /\ \A S \in SUBSET (1..0) : S = {} /\ g[S] = base
    BY <2>1
  <2> HIDE DEF g
  <2>3. IsIter(g, f, base, s, 0)
    BY <2>2 DEF IsIter
  <2> QED
    BY <1>3, <1>4, <2>2, <2>3
<1>5. CASE n # 0
  <2> DEFINE m == n - 1
  <2>1. m \in 0..Len(s) /\ m \notin Bad /\ n \in Nat \ {0} /\ n \in 1..Len(s)
    BY <1>2, <1>3, <1>5
  <2>2. PICK h \in [SUBSET (1..m) -> T] : IsIter(h, f, base, s, m)
    BY <2>1 DEF Has
  <2>3. \A S \in SUBSET (1..n) : S \ {n} \in SUBSET (1..m)
    BY <2>1
  <2>4. 1..m \subseteq 1..n /\ n \notin 1..m
    BY <2>1
  <2> HIDE DEF m
  <2> DEFINE g == [S \in SUBSET (1..n) |->
                     IF n \in S THEN f[<<h[S \ {n}], s[n]>>] ELSE h[S]]
  <2>5. ASSUME NEW S \in SUBSET (1..n) PROVE g[S] \in T
    <3>1. s[n] \in R
      BY <2>1
    <3>2. CASE n \in S
      BY <2>3, <3>1, <3>2
    <3>3. CASE n \notin S
      BY <2>3, <3>3
    <3> QED
      BY <3>2, <3>3
  <2>6. \A S \in SUBSET (1..n) : n \notin S => S \in SUBSET (1..m) /\ g[S] = h[S]
    BY <2>3
  <2>7. \A S \in SUBSET (1..n) : n \in S => g[S] = f[<<h[S \ {n}], s[n]>>]
    OBVIOUS
  <2>8. g \in [SUBSET (1..n) -> T]
    BY <2>5
  <2> HIDE DEF g
  <2>9. ASSUME NEW S \in SUBSET (1..n)
        PROVE  g[S] = IF S = {} THEN base ELSE f[<<g[S \ {Max(S)}], s[Max(S)]>>]
    <3>1. CASE n \in S
      <4>1. Max(S) = n
        BY <2>1, <3>1, MaxTop
      <4>2. S \ {n} \in SUBSET (1..n) /\ n \notin S \ {n}
        OBVIOUS
      <4>3. g[S \ {n}] = h[S \ {n}]
        BY <2>6, <4>2
      <4> QED
        BY <2>7, <3>1, <4>1, <4>3
    <3>2. CASE n \notin S
      <4>1. S \in SUBSET (1..m) /\ g[S] = h[S]
        BY <2>6, <3>2
      <4>2. S \ {Max(S)} \in SUBSET (1..n) /\ n \notin S \ {Max(S)}
        BY <3>2
      <4>3. g[S \ {Max(S)}] = h[S \ {Max(S)}]
        BY <2>6, <4>2
      <4>4. h[S] = IF S = {} THEN base ELSE f[<<h[S \ {Max(S)}], s[Max(S)]>>]
        BY <2>2, <4>1 DEF IsIter
      <4> QED
        BY <4>1, <4>3, <4>4
    <3> QED
      BY <3>1, <3>2
  <2>10. IsIter(g, f, base, s, n)
    BY <2>9 DEF IsIter
  <2> QED
    BY <1>3, <2>8, <2>10 DEF Has
<1> QED
  BY <1>4, <1>5

LEMMA MaxIn ==
  ASSUME NEW n \in Nat, NEW S \in SUBSET (1..n), S # {}
  PROVE  Max(S) \in S /\ \A y \in S : Max(S) >= y
<1> DEFINE T == {n - y : y \in S}
<1>1. T \in SUBSET Nat /\ T # {}
  <2>1. \A y \in S : y \in 1..n /\ n - y \in Nat
    OBVIOUS
  <2> QED
    BY <2>1
<1>2. PICK t \in T : \A u \in T : t <= u
  BY <1>1, LeastElement
<1>3. PICK x \in S : t = n - x
  BY <1>2
<1>4. \A y \in S : x >= y
  <2> TAKE y \in S
  <2>1. t <= n - y
    BY <1>2
  <2> QED
    BY <1>3, <2>1
<1> QED
  BY <1>3, <1>4 DEF Max
LEMMA MaxUpTo ==
  ASSUME NEW k \in Nat \ {0}
  PROVE  Max(1..k) = k /\ (1..k) \ {k} = 1..(k - 1) /\ 1..k # {}
<1>1. Max(1..k) = k
  BY MaxTop
<1>2. (1..k) \ {k} = 1..(k - 1)
  OBVIOUS
<1>3. k \in 1..k
  OBVIOUS
<1> QED
  BY <1>1, <1>2, <1>3

-----------------------------------------------------------------------------
(* Lists thinned from the front                                            *)

Prefix(s, m) == [i \in 1..m |-> s[i]]

(* b is what is left of a when the pairs in D of what was kept so far and  *)
(* an element are left out; e says where the elements of b come from.      *)
Thins(e, a, b, D) ==
    /\ e \in [DOMAIN b -> DOMAIN a]
    /\ \A i \in DOMAIN b :
          /\ b[i] = a[e[i]]
          /\ <<Prefix(b, i - 1), b[i]>> \notin D
          /\ \A j \in DOMAIN b : j < i => e[j] < e[i]
    /\ \A k \in DOMAIN a :
          \/ \E i \in DOMAIN b : e[i] = k
          \/ \E m \in 0..Len(b) : /\ \A i \in 1..m : e[i] < k
                                  /\ <<Prefix(b, m), a[k]>> \in D

ThinsUpTo(e, a, b, D, n) ==
    /\ e \in [1..Len(b) -> 1..n]
    /\ \A i \in 1..Len(b) :
          /\ b[i] = a[e[i]]
          /\ <<Prefix(b, i - 1), b[i]>> \notin D
          /\ \A j \in 1..Len(b) : j < i => e[j] < e[i]
    /\ \A k \in 1..n :
          \/ \E i \in 1..Len(b) : e[i] = k
          \/ \E m \in 0..Len(b) : /\ \A i \in 1..m : e[i] < k
                                  /\ <<Prefix(b, m), a[k]>> \in D

LEMMA PrefixAppend ==
  ASSUME NEW R, NEW s \in Seq(R), NEW x \in R
  PROVE  /\ Append(s, x) \in Seq(R) /\ Len(Append(s, x)) = Len(s) + 1
         /\ Append(s, x)[Len(s) + 1] = x
         /\ \A i \in 1..Len(s) : Append(s, x)[i] = s[i]
         /\ \A m \in 0..Len(s) : Prefix(Append(s, x), m) = Prefix(s, m)
         /\ Prefix(s, Len(s)) = s
<1>1. /\ Append(s, x) \in Seq(R) /\ Len(Append(s, x)) = Len(s) + 1
      /\ Append(s, x)[Len(s) + 1] = x
      /\ \A i \in 1..Len(s) : Append(s, x)[i] = s[i]
  OBVIOUS
<1>2. \A m \in 0..Len(s) : \A i \in 1..m : i \in 1..Len(s)
  OBVIOUS
<1>3. \A m \in 0..Len(s) : Prefix(Append(s, x), m) = Prefix(s, m)
  BY <1>1, <1>2 DEF Prefix
<1>4. s = [i \in 1..Len(s) |-> s[i]]
  OBVIOUS
<1> QED
  BY <1>1, <1>3, <1>4 DEF Prefix

LEMMA ThinStep ==
  ASSUME NEW R, NEW a \in Seq(R), NEW D, NEW b \in Seq(R), NEW n \in 1..Len(a),
         NEW e, ThinsUpTo(e, a, b, D, n - 1)
  PROVE  LET c == IF <<b, a[n]>> \in D THEN b ELSE Append(b, a[n])
         IN  \E h : ThinsUpTo(h, a, c, D, n)
<1>1. /\ e \in [1..Len(b) -> 1..(n - 1)] /\ Len(b) \in Nat /\ n \in Nat \ {0}
      /\ \A i \in 1..Len(b) :
          /\ b[i] = a[e[i]]
          /\ <<Prefix(b, i - 1), b[i]>> \notin D
          /\ \A j \in 1..Len(b) : j < i => e[j] < e[i]
      /\ \A k \in 1..(n - 1) :
          \/ \E i \in 1..Len(b) : e[i] = k
          \/ \E m \in 0..Len(b) : /\ \A i \in 1..m : e[i] < k
                                  /\ <<Prefix(b, m), a[k]>> \in D
  <2>1. Len(b) \in Nat /\ n \in Nat \ {0}
    OBVIOUS
  <2> QED
    BY <2>1 DEF ThinsUpTo
<1>2. \A i \in 1..Len(b) : e[i] \in 1..(n - 1) /\ e[i] \in 1..n /\ e[i] < n
  BY <1>1
<1>3. a[n] \in R
  OBVIOUS
<1>4. CASE <<b, a[n]>> \in D
  <2>1. e \in [1..Len(b) -> 1..n]
    BY <1>1, <1>2
  <2>2. Prefix(b, Len(b)) = b /\ Len(b) \in 0..Len(b)
    BY <1>1, <1>3, PrefixAppend
  <2>3. ASSUME NEW k \in 1..n
        PROVE \/ \E i \in 1..Len(b) : e[i] = k
              \/ \E m \in 0..Len(b) : /\ \A i \in 1..m : e[i] < k
                                      /\ <<Prefix(b, m), a[k]>> \in D
    <3>1. CASE k = n
      BY <1>2, <1>4, <2>2, <3>1
    <3>2. CASE k # n
      <4>1. k \in 1..(n - 1)
        BY <3>2
      <4> QED
        BY <1>1, <4>1
    <3> QED
      BY <3>1, <3>2
  <2>4. ThinsUpTo(e, a, b, D, n)
    BY <1>1, <2>1, <2>3 DEF ThinsUpTo
  <2> QED
    BY <1>4, <2>4
<1>5. CASE <<b, a[n]>> \notin D
  <2> DEFINE c == Append(b, a[n])
             l == Len(b) + 1
             h == [i \in 1..l |-> IF i = l THEN n ELSE e[i]]
  <2>1. /\ Len(c) = l /\ c[l] = a[n] /\ \A i \in 1..Len(b) : c[i] = b[i]
        /\ \A m \in 0..Len(b) : Prefix(c, m) = Prefix(b, m)
        /\ Prefix(b, Len(b)) = b
    BY <1>3, PrefixAppend
  <2>2. h[l] = n /\ \A i \in 1..Len(b) : h[i] = e[i]
    BY <1>1
  <2>3. \A i \in 1..l : i = l \/ i \in 1..Len(b)
    BY <1>1
  <2>4. h \in [1..l -> 1..n]
    BY <1>1, <1>2, <2>3
  <2>5. l \in 1..l /\ l - 1 = Len(b) /\ Len(b) \in 0..Len(b)
    BY <1>1
  <2> HIDE DEF c, h
  <2>6. ASSUME NEW i \in 1..l
        PROVE  /\ c[i] = a[h[i]]
               /\ <<Prefix(c, i - 1), c[i]>> \notin D
               /\ \A j \in 1..l : j < i => h[j] < h[i]
    <3>1. CASE i = l
      <4>1. Prefix(c, i - 1) = b
        BY <2>1, <2>5, <3>1
      <4>2. \A j \in 1..l : j < i => j \in 1..Len(b)
        BY <1>1, <3>1
      <4> QED
        BY <1>2, <1>5, <2>1, <2>2, <3>1, <4>1, <4>2
    <3>2. CASE i \in 1..Len(b)
      <4>1. Prefix(c, i - 1) = Prefix(b, i - 1)
        BY <1>1, <2>1, <3>2
      <4>2. \A j \in 1..l : j < i => j \in 1..Len(b)
        BY <1>1, <3>2
      <4>3. h[i] = e[i] /\ c[i] = b[i]
        BY <2>1, <2>2, <3>2
      <4>4. c[i] = a[h[i]] /\ <<Prefix(c, i - 1), c[i]>> \notin D
        BY <1>1, <3>2, <4>1, <4>3
      <4>5. ASSUME NEW j \in 1..l, j < i PROVE h[j] < h[i]
        BY <1>1, <2>2, <3>2, <4>2, <4>3, <4>5
      <4> QED
        BY <4>4, <4>5
    <3> QED
      BY <2>3, <3>1, <3>2
  <2>7. ASSUME NEW k \in 1..n
        PROVE \/ \E i \in 1..l : h[i] = k
              \/ \E m \in 0..l : /\ \A i \in 1..m : h[i] < k
                                 /\ <<Prefix(c, m), a[k]>> \in D
    <3>1. CASE k = n
      BY <2>2, <2>5, <3>1
    <3>2. CASE k # n
      <4>1. k \in 1..(n - 1)
        BY <3>2
      <4>2. CASE \E i \in 1..Len(b) : e[i] = k
        <5>1. PICK i \in 1..Len(b) : e[i] = k
          BY <4>2
        <5>2. i \in 1..l
          BY <1>1
        <5> QED
          BY <2>2, <5>1, <5>2
      <4>3. CASE \E m \in 0..Len(b) : /\ \A i \in 1..m : e[i] < k
                                      /\ <<Prefix(b, m), a[k]>> \in D
        <5>1. PICK m \in 0..Len(b) : /\ \A i \in 1..m : e[i] < k
                                     /\ <<Prefix(b, m), a[k]>> \in D
          BY <4>3
        <5>2. m \in 0..l /\ \A i \in 1..m : i \in 1..Len(b)
          BY <1>1
        <5>3. \A i \in 1..m : h[i] < k
          BY <2>2, <5>1, <5>2
        <5>4. Prefix(c, m) = Prefix(b, m)
          BY <2>1
        <5> QED
          BY <5>1, <5>2, <5>3, <5>4
      <4> QED
        BY <1>1, <4>1, <4>2, <4>3
    <3> QED
      BY <3>1, <3>2
  <2>8. ThinsUpTo(h, a, c, D, n)
    BY <2>1, <2>4, <2>6, <2>7 DEF ThinsUpTo
  <2> QED
    BY <1>5, <2>8 DEF c
<1> QED
  BY <1>4, <1>5

LEMMA Thinned ==
  ASSUME NEW R, NEW a \in Seq(R), NEW D, NEW K,
         K[0] = <<>>, \A k \in 0..Len(a) : K[k] \in Seq(R),
         \A k \in 1..Len(a) :
            K[k] = IF <<K[k - 1], a[k]>> \in D THEN K[k - 1] ELSE Append(K[k - 1], a[k])
  PROVE  \E e : Thins(e, a, K[Len(a)], D)
<1> DEFINE Good(k) == \E e : ThinsUpTo(e, a, K[k], D, k)
<1>0. Len(a) \in Nat
  OBVIOUS
<1>1. Good(0)
  <2>1. Len(K[0]) = 0 /\ 1..0 = {}
    OBVIOUS
  <2>2. <<>> \in [1..0 -> 1..0]
    BY <2>1
  <2>3. ThinsUpTo(<<>>, a, K[0], D, 0)
    BY <2>1, <2>2 DEF ThinsUpTo
  <2> QED
    BY <2>3
<1>2. ASSUME NEW k \in 1..Len(a), Good(k - 1) PROVE Good(k)
  <2>1. PICK e : ThinsUpTo(e, a, K[k - 1], D, k - 1)
    BY <1>2
  <2>2. K[k - 1] \in Seq(R)
    BY <1>0
  <2>3. \E h : ThinsUpTo(h, a, IF <<K[k - 1], a[k]>> \in D THEN K[k - 1]
                                ELSE Append(K[k - 1], a[k]), D, k)
    BY <2>1, <2>2, ThinStep
  <2> QED
    BY <2>3
<1> HIDE DEF Good
<1>3. Good(Len(a))
  <2> DEFINE Bad == {k \in 0..Len(a) : ~Good(k)}
  <2> SUFFICES ASSUME Bad # {} PROVE FALSE
    BY <1>0
  <2>1. Bad \in SUBSET Nat
    BY <1>0
  <2>2. PICK k \in Bad : \A j \in Bad : k <= j
    BY <2>1, LeastElement
  <2>3. k \in 0..Len(a) /\ ~Good(k) /\ k # 0
    BY <1>1, <2>2
  <2>4. k \in 1..Len(a) /\ k - 1 \in 0..Len(a) /\ k - 1 \notin Bad
    BY <1>0, <2>2, <2>3
  <2>5. Good(k - 1)
    BY <2>4
  <2> QED
    BY <1>2, <2>3, <2>4, <2>5
<1>4. PICK e : ThinsUpTo(e, a, K[Len(a)], D, Len(a))
  BY <1>3 DEF Good
<1>5. K[Len(a)] \in Seq(R)
  BY <1>0
<1>6. DOMAIN a = 1..Len(a) /\ DOMAIN K[Len(a)] = 1..Len(K[Len(a)])
  BY <1>5
<1> QED
  BY <1>4, <1>6 DEF ThinsUpTo, Thins

LEMMA MaxAt ==
  ASSUME NEW R, NEW a \in Seq(R), NEW S \in SUBSET (1..Len(a)), S # {}
  PROVE  /\ Max(S) \in 1..Len(a) /\ a[Max(S)] \in R
         /\ S \ {Max(S)} \in SUBSET (1..Len(a))
<1>1. Len(a) \in Nat
  OBVIOUS
<1>2. Max(S) \in S
  BY <1>1, MaxIn
<1>3. Max(S) \in 1..Len(a)
  BY <1>2
<1>4. a[Max(S)] \in R
  BY <1>3
<1> QED
  BY <1>3, <1>4

(* The folds of rerank, as their recursion on sets of positions.           *)
IsFilter(g, a, D) == \A S \in SUBSET (1..Len(a)) :
    g[S] = IF S = {} THEN <<>>
           ELSE IF <<g[S \ {Max(S)}], a[Max(S)]>> \in D
                THEN g[S \ {Max(S)}] ELSE Append(g[S \ {Max(S)}], a[Max(S)])

LEMMA FilterIter ==
  ASSUME NEW R, NEW a \in Seq(R), NEW D
  PROVE  \E g \in [SUBSET (1..Len(a)) -> Seq(R)] : IsFilter(g, a, D)
<1> DEFINE f == [p \in Seq(R) \X R |-> IF p \in D THEN p[1] ELSE Append(p[1], p[2])]
<1>1. ASSUME NEW s \in Seq(R), NEW x \in R
      PROVE  /\ <<s, x>> \in Seq(R) \X R
             /\ f[<<s, x>>] = IF <<s, x>> \in D THEN s ELSE Append(s, x)
  OBVIOUS
<1>2. f \in [Seq(R) \X R -> Seq(R)]
  OBVIOUS
<1>3. <<>> \in Seq(R)
  OBVIOUS
<1> HIDE DEF f
<1>4. PICK g \in [SUBSET (1..Len(a)) -> Seq(R)] : IsIter(g, f, <<>>, a, Len(a))
  BY <1>2, <1>3, IterExists
<1>5. ASSUME NEW S \in SUBSET (1..Len(a))
      PROVE  g[S] = IF S = {} THEN <<>>
                    ELSE IF <<g[S \ {Max(S)}], a[Max(S)]>> \in D
                         THEN g[S \ {Max(S)}] ELSE Append(g[S \ {Max(S)}], a[Max(S)])
  <2>1. CASE S = {}
    BY <1>4, <2>1 DEF IsIter
  <2>2. CASE S # {}
    <3>1. a[Max(S)] \in R /\ S \ {Max(S)} \in SUBSET (1..Len(a))
      BY <2>2, MaxAt
    <3>2. g[S \ {Max(S)}] \in Seq(R)
      BY <3>1
    <3>3. g[S] = f[<<g[S \ {Max(S)}], a[Max(S)]>>]
      BY <1>4, <2>2 DEF IsIter
    <3> QED
      BY <1>1, <2>2, <3>1, <3>2, <3>3
  <2> QED
    BY <2>1, <2>2
<1> QED
  BY <1>4, <1>5 DEF IsFilter

LEMMA FoldThins ==
  ASSUME NEW R, NEW a \in Seq(R), NEW D, NEW G, G[{}] = <<>>,
         \A S \in SUBSET (1..Len(a)) :
            S # {} /\ G[S \ {Max(S)}] \in Seq(R) =>
               G[S] = IF <<G[S \ {Max(S)}], a[Max(S)]>> \in D
                      THEN G[S \ {Max(S)}] ELSE Append(G[S \ {Max(S)}], a[Max(S)])
  PROVE  /\ G[1..Len(a)] \in Seq(R)
         /\ \E e : Thins(e, a, G[1..Len(a)], D)
<1> DEFINE n == Len(a)
           K == [k \in 0..n |-> G[1..k]]
<1>1. n \in Nat /\ \A k \in 0..n : K[k] = G[1..k]
  OBVIOUS
<1>2. K[0] = <<>>
  <2>1. 1..0 = {}
    OBVIOUS
  <2> QED
    BY <1>1, <2>1
<1> HIDE DEF n, K
<1>3. ASSUME NEW k \in 1..n, K[k - 1] \in Seq(R)
      PROVE  /\ K[k] = IF <<K[k - 1], a[k]>> \in D
                       THEN K[k - 1] ELSE Append(K[k - 1], a[k])
             /\ K[k] \in Seq(R)
  <2>1. Max(1..k) = k /\ (1..k) \ {k} = 1..(k - 1) /\ 1..k # {} /\ 1..k \in SUBSET (1..n)
    BY <1>1, MaxUpTo
  <2>2. K[k] = G[1..k] /\ K[k - 1] = G[1..(k - 1)]
    BY <1>1
  <2>3. K[k] = IF <<K[k - 1], a[k]>> \in D THEN K[k - 1] ELSE Append(K[k - 1], a[k])
    BY <1>3, <2>1, <2>2 DEF n
  <2>4. a[k] \in R
    BY DEF n
  <2> QED
    BY <1>3, <2>3, <2>4
<1>4. \A k \in 0..n : K[k] \in Seq(R)
  <2>1. K[0] \in Seq(R)
    BY <1>2
  <2> QED
    BY <1>1, <1>3, <2>1, Ranged
<1>5. \A k \in 1..n : K[k] = IF <<K[k - 1], a[k]>> \in D
                             THEN K[k - 1] ELSE Append(K[k - 1], a[k])
  <2> TAKE k \in 1..n
  <2>1. k - 1 \in 0..n
    BY <1>1
  <2> QED
    BY <1>3, <1>4, <2>1
<1>6. \E e : Thins(e, a, K[n], D)
  BY <1>2, <1>4, <1>5, Thinned DEF n
<1>7. K[n] = G[1..n] /\ K[n] \in Seq(R)
  BY <1>1, <1>4
<1> QED
  BY <1>6, <1>7 DEF n

(* What each step of rerank leaves out, of the rows in R.                  *)
Repeated(R) == {p \in Seq(R) \X R :
    \E i \in DOMAIN p[1] : p[1][i].result.key = p[2].result.key}
Crowded(R) == {p \in Seq(R) \X R :
    Cardinality(InDomain(p[1], p[2].result.domain)) >= Cap}
Similar(R) == {p \in Seq(R) \X R :
    \E i \in DOMAIN p[1] : NearDuplicate(p[2].result.words, p[1][i].result.words)}

LEMMA UniqueThins ==
  ASSUME NEW R, NEW a \in Seq(R)
  PROVE  /\ UniqueUrls(a) \in Seq(R)
         /\ \E e : Thins(e, a, UniqueUrls(a), Repeated(R))
<1> DEFINE Drop(kept, row) == \E i \in DOMAIN kept : kept[i].result.key = row.result.key
           next(g) == [S \in SUBSET DOMAIN a |->
                         IF S = {} THEN <<>>
                         ELSE IF Drop(g[S \ {Max(S)}], a[Max(S)])
                              THEN g[S \ {Max(S)}] ELSE Append(g[S \ {Max(S)}], a[Max(S)])]
<1>1. UniqueUrls(a) = (CHOOSE g : g = next(g))[DOMAIN a]
  BY DEF UniqueUrls, FoldLeft, MapThenFoldSet
<1>2. \A s \in Seq(R), x \in R : <<s, x>> \in Repeated(R) <=> Drop(s, x)
  BY DEF Repeated
<1> HIDE DEF Drop
<1>3. \E g : g = next(g)
  <2>1. PICK g \in [SUBSET (1..Len(a)) -> Seq(R)] : IsFilter(g, a, Repeated(R))
    BY FilterIter
  <2>2. ASSUME NEW S \in SUBSET (1..Len(a))
        PROVE  g[S] = IF S = {} THEN <<>>
                      ELSE IF Drop(g[S \ {Max(S)}], a[Max(S)])
                           THEN g[S \ {Max(S)}] ELSE Append(g[S \ {Max(S)}], a[Max(S)])
    <3>1. CASE S = {}
      BY <2>1, <3>1 DEF IsFilter
    <3>2. CASE S # {}
      <4>1. a[Max(S)] \in R /\ S \ {Max(S)} \in SUBSET (1..Len(a))
        BY <3>2, MaxAt
      <4>2. g[S \ {Max(S)}] \in Seq(R)
        BY <4>1
      <4> QED
        BY <1>2, <2>1, <3>2, <4>1, <4>2 DEF IsFilter
    <3> QED
      BY <3>1, <3>2
  <2>3. DOMAIN a = 1..Len(a) /\ g = [S \in SUBSET (1..Len(a)) |-> g[S]]
    OBVIOUS
  <2>4. g = next(g)
    BY <2>2, <2>3
  <2> QED
    BY <2>4
<1> DEFINE G == CHOOSE g : g = next(g)
<1>4. G = next(G)
  BY <1>3
<1>5. UniqueUrls(a) = G[1..Len(a)]
  BY <1>1
<1> HIDE DEF G
<1>6. ASSUME NEW S \in SUBSET (1..Len(a))
      PROVE  G[S] = IF S = {} THEN <<>>
                    ELSE IF Drop(G[S \ {Max(S)}], a[Max(S)])
                         THEN G[S \ {Max(S)}] ELSE Append(G[S \ {Max(S)}], a[Max(S)])
  <2>1. next(G)[S] = IF S = {} THEN <<>>
                     ELSE IF Drop(G[S \ {Max(S)}], a[Max(S)])
                          THEN G[S \ {Max(S)}] ELSE Append(G[S \ {Max(S)}], a[Max(S)])
    <3>1. S \in SUBSET DOMAIN a
      OBVIOUS
    <3> QED
      BY <3>1
  <2> HIDE DEF next
  <2> QED
    BY <1>4, <2>1
<1> HIDE DEF next
<1>7. G[{}] = <<>>
  BY <1>6
<1>8. ASSUME NEW S \in SUBSET (1..Len(a)), S # {}, G[S \ {Max(S)}] \in Seq(R)
      PROVE  G[S] = IF <<G[S \ {Max(S)}], a[Max(S)]>> \in Repeated(R)
                    THEN G[S \ {Max(S)}] ELSE Append(G[S \ {Max(S)}], a[Max(S)])
  <2>1. a[Max(S)] \in R
    BY <1>8, MaxAt
  <2> QED
    BY <1>2, <1>6, <1>8, <2>1
<1>9. /\ G[1..Len(a)] \in Seq(R)
      /\ \E e : Thins(e, a, G[1..Len(a)], Repeated(R))
  BY <1>7, <1>8, FoldThins
<1> QED
  BY <1>5, <1>9

LEMMA DomainThins ==
  ASSUME NEW R, NEW a \in Seq(R)
  PROVE  /\ DomainCap(a) \in Seq(R)
         /\ \E e : Thins(e, a, DomainCap(a), Crowded(R))
<1> DEFINE Drop(kept, row) == Cardinality(InDomain(kept, row.result.domain)) >= Cap
           next(g) == [S \in SUBSET DOMAIN a |->
                         IF S = {} THEN <<>>
                         ELSE IF Drop(g[S \ {Max(S)}], a[Max(S)])
                              THEN g[S \ {Max(S)}] ELSE Append(g[S \ {Max(S)}], a[Max(S)])]
<1>1. DomainCap(a) = (CHOOSE g : g = next(g))[DOMAIN a]
  BY DEF DomainCap, FoldLeft, MapThenFoldSet
<1>2. \A s \in Seq(R), x \in R : <<s, x>> \in Crowded(R) <=> Drop(s, x)
  BY DEF Crowded
<1> HIDE DEF Drop
<1>3. \E g : g = next(g)
  <2>1. PICK g \in [SUBSET (1..Len(a)) -> Seq(R)] : IsFilter(g, a, Crowded(R))
    BY FilterIter
  <2>2. ASSUME NEW S \in SUBSET (1..Len(a))
        PROVE  g[S] = IF S = {} THEN <<>>
                      ELSE IF Drop(g[S \ {Max(S)}], a[Max(S)])
                           THEN g[S \ {Max(S)}] ELSE Append(g[S \ {Max(S)}], a[Max(S)])
    <3>1. CASE S = {}
      BY <2>1, <3>1 DEF IsFilter
    <3>2. CASE S # {}
      <4>1. a[Max(S)] \in R /\ S \ {Max(S)} \in SUBSET (1..Len(a))
        BY <3>2, MaxAt
      <4>2. g[S \ {Max(S)}] \in Seq(R)
        BY <4>1
      <4> QED
        BY <1>2, <2>1, <3>2, <4>1, <4>2 DEF IsFilter
    <3> QED
      BY <3>1, <3>2
  <2>3. DOMAIN a = 1..Len(a) /\ g = [S \in SUBSET (1..Len(a)) |-> g[S]]
    OBVIOUS
  <2>4. g = next(g)
    BY <2>2, <2>3
  <2> QED
    BY <2>4
<1> DEFINE G == CHOOSE g : g = next(g)
<1>4. G = next(G)
  BY <1>3
<1>5. DomainCap(a) = G[1..Len(a)]
  BY <1>1
<1> HIDE DEF G
<1>6. ASSUME NEW S \in SUBSET (1..Len(a))
      PROVE  G[S] = IF S = {} THEN <<>>
                    ELSE IF Drop(G[S \ {Max(S)}], a[Max(S)])
                         THEN G[S \ {Max(S)}] ELSE Append(G[S \ {Max(S)}], a[Max(S)])
  <2>1. next(G)[S] = IF S = {} THEN <<>>
                     ELSE IF Drop(G[S \ {Max(S)}], a[Max(S)])
                          THEN G[S \ {Max(S)}] ELSE Append(G[S \ {Max(S)}], a[Max(S)])
    <3>1. S \in SUBSET DOMAIN a
      OBVIOUS
    <3> QED
      BY <3>1
  <2> HIDE DEF next
  <2> QED
    BY <1>4, <2>1
<1> HIDE DEF next
<1>7. G[{}] = <<>>
  BY <1>6
<1>8. ASSUME NEW S \in SUBSET (1..Len(a)), S # {}, G[S \ {Max(S)}] \in Seq(R)
      PROVE  G[S] = IF <<G[S \ {Max(S)}], a[Max(S)]>> \in Crowded(R)
                    THEN G[S \ {Max(S)}] ELSE Append(G[S \ {Max(S)}], a[Max(S)])
  <2>1. a[Max(S)] \in R
    BY <1>8, MaxAt
  <2> QED
    BY <1>2, <1>6, <1>8, <2>1
<1>9. /\ G[1..Len(a)] \in Seq(R)
      /\ \E e : Thins(e, a, G[1..Len(a)], Crowded(R))
  BY <1>7, <1>8, FoldThins
<1> QED
  BY <1>5, <1>9

LEMMA SimilarThins ==
  ASSUME NEW R, NEW a \in Seq(R)
  PROVE  /\ DropNearDuplicates(a) \in Seq(R)
         /\ \E e : Thins(e, a, DropNearDuplicates(a), Similar(R))
<1> DEFINE Drop(kept, row) == \E i \in DOMAIN kept :
                               NearDuplicate(row.result.words, kept[i].result.words)
           next(g) == [S \in SUBSET DOMAIN a |->
                         IF S = {} THEN <<>>
                         ELSE IF Drop(g[S \ {Max(S)}], a[Max(S)])
                              THEN g[S \ {Max(S)}] ELSE Append(g[S \ {Max(S)}], a[Max(S)])]
<1>1. DropNearDuplicates(a) = (CHOOSE g : g = next(g))[DOMAIN a]
  BY DEF DropNearDuplicates, FoldLeft, MapThenFoldSet
<1>2. \A s \in Seq(R), x \in R : <<s, x>> \in Similar(R) <=> Drop(s, x)
  BY DEF Similar
<1> HIDE DEF Drop
<1>3. \E g : g = next(g)
  <2>1. PICK g \in [SUBSET (1..Len(a)) -> Seq(R)] : IsFilter(g, a, Similar(R))
    BY FilterIter
  <2>2. ASSUME NEW S \in SUBSET (1..Len(a))
        PROVE  g[S] = IF S = {} THEN <<>>
                      ELSE IF Drop(g[S \ {Max(S)}], a[Max(S)])
                           THEN g[S \ {Max(S)}] ELSE Append(g[S \ {Max(S)}], a[Max(S)])
    <3>1. CASE S = {}
      BY <2>1, <3>1 DEF IsFilter
    <3>2. CASE S # {}
      <4>1. a[Max(S)] \in R /\ S \ {Max(S)} \in SUBSET (1..Len(a))
        BY <3>2, MaxAt
      <4>2. g[S \ {Max(S)}] \in Seq(R)
        BY <4>1
      <4> QED
        BY <1>2, <2>1, <3>2, <4>1, <4>2 DEF IsFilter
    <3> QED
      BY <3>1, <3>2
  <2>3. DOMAIN a = 1..Len(a) /\ g = [S \in SUBSET (1..Len(a)) |-> g[S]]
    OBVIOUS
  <2>4. g = next(g)
    BY <2>2, <2>3
  <2> QED
    BY <2>4
<1> DEFINE G == CHOOSE g : g = next(g)
<1>4. G = next(G)
  BY <1>3
<1>5. DropNearDuplicates(a) = G[1..Len(a)]
  BY <1>1
<1> HIDE DEF G
<1>6. ASSUME NEW S \in SUBSET (1..Len(a))
      PROVE  G[S] = IF S = {} THEN <<>>
                    ELSE IF Drop(G[S \ {Max(S)}], a[Max(S)])
                         THEN G[S \ {Max(S)}] ELSE Append(G[S \ {Max(S)}], a[Max(S)])
  <2>1. next(G)[S] = IF S = {} THEN <<>>
                     ELSE IF Drop(G[S \ {Max(S)}], a[Max(S)])
                          THEN G[S \ {Max(S)}] ELSE Append(G[S \ {Max(S)}], a[Max(S)])
    <3>1. S \in SUBSET DOMAIN a
      OBVIOUS
    <3> QED
      BY <3>1
  <2> HIDE DEF next
  <2> QED
    BY <1>4, <2>1
<1> HIDE DEF next
<1>7. G[{}] = <<>>
  BY <1>6
<1>8. ASSUME NEW S \in SUBSET (1..Len(a)), S # {}, G[S \ {Max(S)}] \in Seq(R)
      PROVE  G[S] = IF <<G[S \ {Max(S)}], a[Max(S)]>> \in Similar(R)
                    THEN G[S \ {Max(S)}] ELSE Append(G[S \ {Max(S)}], a[Max(S)])
  <2>1. a[Max(S)] \in R
    BY <1>8, MaxAt
  <2> QED
    BY <1>2, <1>6, <1>8, <2>1
<1>9. /\ G[1..Len(a)] \in Seq(R)
      /\ \E e : Thins(e, a, G[1..Len(a)], Similar(R))
  BY <1>7, <1>8, FoldThins
<1> QED
  BY <1>5, <1>9

-----------------------------------------------------------------------------
(* Sorting                                                                 *)

(* A strict total order B of 1..n has a sorting: each number goes to the   *)
(* place after all those before it.                                        *)
LEMMA SortExists ==
  ASSUME NEW n \in Nat, NEW B,
         \A i \in 1..n : <<i, i>> \notin B,
         \A i, j \in 1..n : i # j => <<i, j>> \in B \/ <<j, i>> \in B,
         \A i, j, k \in 1..n : <<i, j>> \in B /\ <<j, k>> \in B => <<i, k>> \in B
  PROVE  \E p \in Bijection(1..n, 1..n) :
            \A i, j \in 1..n : i < j => <<p[i], p[j]>> \in B
<1> DEFINE S == 1..n
           Below(i) == {j \in S : <<j, i>> \in B}
           pos == [i \in S |-> Cardinality(Below(i)) + 1]
<1>1. IsFiniteSet(S) /\ Cardinality(S) = n
  BY FS_Interval
<1>2. ASSUME NEW i \in S
      PROVE  /\ IsFiniteSet(Below(i)) /\ Cardinality(Below(i)) \in Nat
             /\ Cardinality(Below(i)) < n
  <2>1. IsFiniteSet(Below(i)) /\ Cardinality(Below(i)) \in Nat
    <3>1. Below(i) \in SUBSET S
      OBVIOUS
    <3> QED
      BY <1>1, <3>1, FS_Subset, FS_CardinalityType
  <2>2. IsFiniteSet(S \ {i}) /\ Cardinality(S \ {i}) = n - 1
    BY <1>1, <1>2, FS_RemoveElement
  <2>3. Below(i) \in SUBSET (S \ {i})
    BY <1>2
  <2>4. Cardinality(Below(i)) <= n - 1
    <3> DEFINE T == S \ {i}
    <3> HIDE DEF T, Below, pos
    <3>1. IsFiniteSet(T) /\ Cardinality(T) = n - 1 /\ Below(i) \in SUBSET T
      BY <2>2, <2>3 DEF T
    <3>2. Cardinality(Below(i)) <= Cardinality(T)
      BY <3>1, FS_Subset
    <3> QED
      BY <3>1, <3>2
  <2> QED
    BY <2>1, <2>4
<1>3. ASSUME NEW i \in S, NEW j \in S, <<i, j>> \in B
      PROVE  Cardinality(Below(i)) < Cardinality(Below(j))
  <2>1. Below(i) \in SUBSET Below(j)
    BY <1>3
  <2>2. i \in Below(j) /\ i \notin Below(i)
    BY <1>3
  <2>3. Cardinality(Below(i)) <= Cardinality(Below(j))
        /\ Cardinality(Below(i)) # Cardinality(Below(j))
    BY <1>2, <2>1, <2>2, FS_Subset
  <2>4. Cardinality(Below(i)) \in Nat /\ Cardinality(Below(j)) \in Nat
    BY <1>2
  <2> HIDE DEF S, Below, pos
  <2> QED
    BY <2>3, <2>4
<1>4. \A i \in S : pos[i] = Cardinality(Below(i)) + 1 /\ pos[i] \in S
  BY <1>2
<1>5. pos \in [S -> S]
  BY <1>4
<1> HIDE DEF Below, pos
<1>6. ASSUME NEW i \in S, NEW j \in S, <<i, j>> \in B PROVE pos[i] < pos[j]
  BY <1>2, <1>3, <1>4, <1>6
<1>7. \A i, j \in S : pos[i] = pos[j] => i = j
  <2> SUFFICES ASSUME NEW i \in S, NEW j \in S, pos[i] = pos[j], i # j PROVE FALSE
    OBVIOUS
  <2>1. <<i, j>> \in B \/ <<j, i>> \in B
    OBVIOUS
  <2> QED
    BY <1>4, <1>6, <2>1
<1>8. pos \in Injection(S, S)
  BY <1>5, <1>7, Fun_IsInj
<1>9. pos \in Surjection(S, S)
  BY <1>1, <1>8, FS_Injection
<1>10. pos \in Bijection(S, S)
  BY <1>8, <1>9 DEF Bijection
<1> DEFINE p == Inverse(pos, S, S)
<1>11. p \in Bijection(S, S) /\ \A s \in S : p[pos[s]] = s
  BY <1>10, Fun_BijInverse
<1>12. p \in [S -> S]
  BY <1>11 DEF Bijection, Injection
<1> HIDE DEF p
<1>13. \A i \in S : pos[p[i]] = i
  <2> TAKE i \in S
  <2>1. PICK s \in S : pos[s] = i
    BY <1>9 DEF Surjection
  <2> QED
    BY <1>11, <2>1
<1>14. ASSUME NEW i \in S, NEW j \in S, i < j PROVE <<p[i], p[j]>> \in B
  <2>1. p[i] \in S /\ p[j] \in S /\ pos[p[i]] = i /\ pos[p[j]] = j
    BY <1>12, <1>13
  <2>2. p[i] # p[j] /\ ~(pos[p[j]] < pos[p[i]])
    BY <1>14, <2>1
  <2>3. <<p[j], p[i]>> \notin B
    BY <1>6, <2>1, <2>2
  <2> QED
    BY <2>1, <2>2, <2>3
<1> QED
  BY <1>11, <1>14 DEF S

-----------------------------------------------------------------------------
(* rerank                                                                  *)

(* The candidates of a rerank, as far as it looks at them.                 *)
Candidates(R) == \A x \in R : x.words \in SUBSET Words

LEMMA ScoreType ==
  ASSUME NEW query \in SUBSET Words, NEW words \in SUBSET Words
  PROVE  Score(query, words) \in Int
<1>1. query \cap words \in SUBSET Words
  OBVIOUS
<1>2. Cardinality(query \cap words) \in Nat
  BY <1>1, RerankAssumption, FS_Subset, FS_CardinalityType
<1> QED
  BY <1>2 DEF Score

(* The rows of a rerank of the list: its elements, with their places.      *)
RowsOf(list) == {[result |-> list[n], from |-> n] : n \in DOMAIN list}

BetterFirst(query, rows) ==
    \A i, j \in DOMAIN rows : i < j => Better(query, rows[i], rows[j])

LEMMA RankedSorts ==
  ASSUME NEW R, Candidates(R), NEW query \in SUBSET Words, NEW list \in Seq(R)
  PROVE  /\ Ranked(query, list) \in Seq(RowsOf(list))
         /\ BetterFirst(query, Ranked(query, list))
         /\ \A c \in DOMAIN list : \E n \in DOMAIN Ranked(query, list) :
               Ranked(query, list)[n] = [result |-> list[c], from |-> c]
<1> DEFINE S == 1..Len(list)
           score(i) == Score(query, list[i].words)
           before(i, j) == score(i) > score(j) \/ (score(i) = score(j) /\ i < j)
           B == {b \in S \X S : before(b[1], b[2])}
<1>1. Len(list) \in Nat /\ DOMAIN list = S
  OBVIOUS
<1>2. \A i \in S : score(i) \in Int /\ i \in Int
  <2> TAKE i \in S
  <2>1. list[i] \in R
    OBVIOUS
  <2>2. list[i].words \in SUBSET Words
    BY <2>1 DEF Candidates
  <2> QED
    BY <2>2, ScoreType
<1>3. \A i, j \in S : <<i, j>> \in B <=> before(i, j)
  OBVIOUS
<1> DEFINE sorted(p) == \A i, j \in DOMAIN list : i < j => before(p[i], p[j])
           order == CHOOSE p \in Bijection(DOMAIN list, DOMAIN list) : sorted(p)
<1>4. Ranked(query, list) = [n \in DOMAIN list |-> [result |-> list[order[n]], from |-> order[n]]]
  BY DEF Ranked
<1> HIDE DEF score
<1>5. /\ \A i \in S : <<i, i>> \notin B
      /\ \A i, j \in S : i # j => <<i, j>> \in B \/ <<j, i>> \in B
      /\ \A i, j, k \in S : <<i, j>> \in B /\ <<j, k>> \in B => <<i, k>> \in B
  BY <1>2, <1>3
<1> HIDE DEF B
<1>6. PICK p \in Bijection(S, S) : \A i, j \in S : i < j => <<p[i], p[j]>> \in B
  BY <1>1, <1>5, SortExists
<1>7. sorted(p)
  <2>1. p \in [S -> S]
    BY DEF Bijection, Injection
  <2> QED
    BY <1>1, <1>3, <1>6, <2>1
<1> HIDE DEF sorted
<1>8. order \in Bijection(S, S) /\ sorted(order)
  BY <1>1, <1>7
<1> HIDE DEF order
<1>9. /\ order \in [S -> S] /\ \A c \in S : \E n \in S : order[n] = c
  BY <1>8 DEF Bijection, Injection, Surjection
<1> DEFINE rows == Ranked(query, list)
<1>10. /\ DOMAIN rows = S /\ rows = [n \in S |-> rows[n]]
       /\ \A n \in S : /\ rows[n] = [result |-> list[order[n]], from |-> order[n]]
                       /\ rows[n] \in RowsOf(list)
  BY <1>1, <1>4, <1>9 DEF RowsOf
<1> HIDE DEF rows
<1>11. rows \in Seq(RowsOf(list))
  BY <1>1, <1>10
<1>12. ASSUME NEW i \in S, NEW j \in S, i < j PROVE Better(query, rows[i], rows[j])
  <2>1. before(order[i], order[j])
    BY <1>1, <1>8, <1>12 DEF sorted
  <2>2. /\ rows[i].result = list[order[i]] /\ rows[i].from = order[i]
        /\ rows[j].result = list[order[j]] /\ rows[j].from = order[j]
    BY <1>10
  <2> QED
    BY <2>1, <2>2 DEF Better, score
<1>13. BetterFirst(query, rows)
  BY <1>10, <1>12 DEF BetterFirst
<1>14. \A c \in DOMAIN list : \E n \in DOMAIN rows :
          rows[n] = [result |-> list[c], from |-> c]
  BY <1>1, <1>9, <1>10
<1> QED
  BY <1>11, <1>13, <1>14 DEF rows

LEMMA BoundedPrefix ==
  ASSUME NEW R, NEW list \in Seq(R), NEW max \in Nat
  PROVE  /\ Bounded(list, max) \in Seq(R)
         /\ Len(Bounded(list, max)) = IF Len(list) < max THEN Len(list) ELSE max
         /\ DOMAIN Bounded(list, max) = 1..Len(Bounded(list, max))
         /\ DOMAIN Bounded(list, max) \subseteq DOMAIN list
         /\ \A i \in DOMAIN Bounded(list, max) : Bounded(list, max)[i] = list[i]
<1> DEFINE m == IF Len(list) < max THEN Len(list) ELSE max
<1>1. m \in Nat /\ m <= Len(list)
  OBVIOUS
<1> HIDE DEF m
<1>2. /\ SubSeq(list, 1, m) \in Seq(R) /\ Len(SubSeq(list, 1, m)) = m
      /\ DOMAIN SubSeq(list, 1, m) = 1..m
      /\ \A i \in 1..m : SubSeq(list, 1, m)[i] = list[i]
  BY <1>1
<1>3. 1..m \subseteq DOMAIN list
  BY <1>1
<1>4. Bounded(list, max) = SubSeq(list, 1, m)
  BY DEF Bounded, m
<1> QED
  BY <1>2, <1>3, <1>4 DEF m

LEMMA ThinsOrdered ==
  ASSUME NEW a, NEW b, NEW D, NEW e, Thins(e, a, b, D),
         DOMAIN a \subseteq Nat, DOMAIN b \subseteq Nat,
         NEW query, BetterFirst(query, a)
  PROVE  BetterFirst(query, b)
<1>1. ASSUME NEW i \in DOMAIN b, NEW j \in DOMAIN b, i < j
      PROVE  Better(query, b[i], b[j])
  <2>1. /\ e[i] \in DOMAIN a /\ e[j] \in DOMAIN a /\ e[i] < e[j]
        /\ b[i] = a[e[i]] /\ b[j] = a[e[j]]
    BY <1>1 DEF Thins
  <2> QED
    BY <2>1 DEF BetterFirst
<1> QED
  BY <1>1 DEF BetterFirst

LEMMA InjectCard ==
  ASSUME NEW S, NEW T, IsFiniteSet(T), NEW f, \A x \in S : f[x] \in T,
         \A x, y \in S : f[x] = f[y] => x = y
  PROVE  /\ IsFiniteSet(S) /\ Cardinality(S) \in Nat /\ Cardinality(T) \in Nat
         /\ Cardinality(S) <= Cardinality(T)
<1> DEFINE g == [x \in S |-> f[x]]
<1>1. g \in [S -> T] /\ \A x, y \in S : g[x] = g[y] => x = y
  OBVIOUS
<1> HIDE DEF g
<1>2. g \in Injection(S, T)
  BY <1>1 DEF Injection, IsInjective
<1> QED
  BY <1>2, FS_Injection, FS_CardinalityType

(* An element of a is kept, or what was kept before it left it out.        *)
LEMMA KeptOrLeft ==
  ASSUME NEW Q, NEW a \in Seq(Q), NEW b \in Seq(Q), NEW D, NEW e, Thins(e, a, b, D),
         NEW query, BetterFirst(query, a), NEW k \in DOMAIN a
  PROVE  \/ \E i \in DOMAIN b : b[i] = a[k]
         \/ \E m \in 0..Len(b) : /\ \A i \in 1..m : i \in DOMAIN b /\ Better(query, b[i], a[k])
                                 /\ <<Prefix(b, m), a[k]>> \in D
<1>1. DOMAIN b = 1..Len(b) /\ Len(b) \in Nat
  OBVIOUS
<1>2. CASE \E i \in DOMAIN b : e[i] = k
  BY <1>2 DEF Thins
<1>3. CASE \E m \in 0..Len(b) : /\ \A i \in 1..m : e[i] < k
                                /\ <<Prefix(b, m), a[k]>> \in D
  <2>1. PICK m \in 0..Len(b) : /\ \A i \in 1..m : e[i] < k
                               /\ <<Prefix(b, m), a[k]>> \in D
    BY <1>3
  <2>2. ASSUME NEW i \in 1..m PROVE i \in DOMAIN b /\ Better(query, b[i], a[k])
    <3>1. i \in DOMAIN b /\ e[i] < k
      BY <1>1, <2>1
    <3>2. b[i] = a[e[i]] /\ e[i] \in DOMAIN a
      BY <3>1 DEF Thins
    <3> QED
      BY <3>1, <3>2 DEF BetterFirst
  <2> QED
    BY <2>1, <2>2
<1> QED
  BY <1>2, <1>3 DEF Thins

(* No two rows of one page are kept, nor two near-duplicates.              *)
LEMMA KeysDistinct ==
  ASSUME NEW Q, NEW a, NEW b \in Seq(Q), NEW e, Thins(e, a, b, Repeated(Q)),
         NEW i \in DOMAIN b, NEW j \in DOMAIN b, j < i
  PROVE  b[j].result.key # b[i].result.key
<1>1. DOMAIN b = 1..Len(b) /\ Len(b) \in Nat
  OBVIOUS
<1>2. i - 1 \in Nat /\ j \in 1..(i - 1) /\ \A l \in 1..(i - 1) : b[l] \in Q
  BY <1>1
<1>3. Prefix(b, i - 1) \in Seq(Q) /\ b[i] \in Q
      /\ DOMAIN Prefix(b, i - 1) = 1..(i - 1) /\ Prefix(b, i - 1)[j] = b[j]
  BY <1>2 DEF Prefix
<1>4. <<Prefix(b, i - 1), b[i]>> \notin Repeated(Q)
  BY DEF Thins
<1> QED
  BY <1>2, <1>3, <1>4 DEF Repeated

LEMMA NoNearDuplicates ==
  ASSUME NEW Q, NEW a, NEW b \in Seq(Q), NEW e, Thins(e, a, b, Similar(Q)),
         NEW i \in DOMAIN b, NEW j \in DOMAIN b, j < i
  PROVE  ~NearDuplicate(b[i].result.words, b[j].result.words)
<1>1. DOMAIN b = 1..Len(b) /\ Len(b) \in Nat
  OBVIOUS
<1>2. i - 1 \in Nat /\ j \in 1..(i - 1) /\ \A l \in 1..(i - 1) : b[l] \in Q
  BY <1>1
<1>3. Prefix(b, i - 1) \in Seq(Q) /\ b[i] \in Q
      /\ DOMAIN Prefix(b, i - 1) = 1..(i - 1) /\ Prefix(b, i - 1)[j] = b[j]
  BY <1>2 DEF Prefix
<1>4. <<Prefix(b, i - 1), b[i]>> \notin Similar(Q)
  BY DEF Thins
<1> QED
  BY <1>2, <1>3, <1>4 DEF Similar

(* No domain is kept more than Cap times: not at its last row.             *)
LEMMA CapKept ==
  ASSUME NEW Q, NEW a, NEW b \in Seq(Q), NEW e, Thins(e, a, b, Crowded(Q)), NEW d
  PROVE  IsFiniteSet(InDomain(b, d)) /\ Cardinality(InDomain(b, d)) <= Cap
<1>1. DOMAIN b = 1..Len(b) /\ Len(b) \in Nat /\ IsFiniteSet(1..Len(b))
  <2>1. DOMAIN b = 1..Len(b) /\ Len(b) \in Nat
    OBVIOUS
  <2> QED
    BY <2>1, FS_Interval
<1> DEFINE S == InDomain(b, d)
<1>2. S \in SUBSET (1..Len(b))
  BY <1>1 DEF InDomain
<1>3. IsFiniteSet(S)
  BY <1>1, <1>2, FS_Subset
<1>4. CASE S = {}
  BY <1>3, <1>4, FS_EmptySet, RerankAssumption
<1>5. CASE S # {}
  <2> DEFINE i == Max(S)
             T == InDomain(Prefix(b, i - 1), d)
  <2>1. i \in S /\ i \in 1..Len(b) /\ \A y \in S : i >= y
    BY <1>1, <1>2, <1>5, MaxIn
  <2> HIDE DEF i
  <2>2. b[i] \in Q /\ b[i].result.domain = d /\ i - 1 \in Nat /\ \A l \in 1..(i - 1) : b[l] \in Q
    BY <1>1, <2>1 DEF InDomain
  <2>3. /\ Prefix(b, i - 1) \in Seq(Q) /\ DOMAIN Prefix(b, i - 1) = 1..(i - 1)
        /\ \A l \in 1..(i - 1) : Prefix(b, i - 1)[l] = b[l]
    BY <2>2 DEF Prefix
  <2>4. <<Prefix(b, i - 1), b[i]>> \notin Crowded(Q)
    BY <1>1, <2>1 DEF Thins
  <2>5. ~(Cardinality(T) >= Cap)
    BY <2>2, <2>3, <2>4 DEF Crowded
  <2>6. T = S \ {i}
    <3>1. \A l \in T : l \in S \ {i}
      BY <1>1, <2>1, <2>3 DEF InDomain
    <3>2. \A l \in S \ {i} : l \in T
      BY <1>1, <2>1, <2>3 DEF InDomain
    <3> QED
      BY <3>1, <3>2
  <2> HIDE DEF S, T
  <2>7. IsFiniteSet(T) /\ Cardinality(T) \in Nat /\ Cardinality(T) = Cardinality(S) - 1
        /\ Cardinality(S) \in Nat
    BY <1>3, <2>1, <2>6, FS_RemoveElement, FS_CardinalityType
  <2>8. Cardinality(S) <= Cap
    BY <2>5, <2>7, RerankAssumption
  <2> QED
    BY <1>3, <2>8 DEF S
<1> QED
  BY <1>4, <1>5

LEMMA NearDuplicateSymmetric ==
  ASSUME NEW v, NEW w, NearDuplicate(v, w)
  PROVE  NearDuplicate(w, v)
<1>1. v \cap w = w \cap v /\ v \cup w = w \cup v
  OBVIOUS
<1> QED
  BY <1>1 DEF NearDuplicate

(* The rows of rerank after each of its steps, when list is what its bound *)
(* leaves of the candidates.                                               *)
LEMMA Passes ==
  ASSUME NEW R, Candidates(R), NEW query \in SUBSET Words, NEW list \in Seq(R),
         NEW a, a = Ranked(query, list), NEW b, b = UniqueUrls(a),
         NEW c, c = DomainCap(b), NEW d, d = DropNearDuplicates(c)
  PROVE  LET Q == RowsOf(list)
         IN  /\ a \in Seq(Q) /\ b \in Seq(Q) /\ c \in Seq(Q) /\ d \in Seq(Q)
             /\ BetterFirst(query, a) /\ BetterFirst(query, b)
             /\ BetterFirst(query, c) /\ BetterFirst(query, d)
             /\ \E e : Thins(e, a, b, Repeated(Q))
             /\ \E e : Thins(e, b, c, Crowded(Q))
             /\ \E e : Thins(e, c, d, Similar(Q))
<1> DEFINE Q == RowsOf(list)
<1>1. a \in Seq(Q) /\ BetterFirst(query, a)
  BY RankedSorts
<1> HIDE DEF Q
<1>2. b \in Seq(Q) /\ \E e : Thins(e, a, b, Repeated(Q))
  BY <1>1, UniqueThins
<1>3. c \in Seq(Q) /\ \E e : Thins(e, b, c, Crowded(Q))
  BY <1>2, DomainThins
<1>4. d \in Seq(Q) /\ \E e : Thins(e, c, d, Similar(Q))
  BY <1>3, SimilarThins
<1>5. DOMAIN a \subseteq Nat /\ DOMAIN b \subseteq Nat /\ DOMAIN c \subseteq Nat
      /\ DOMAIN d \subseteq Nat
  BY <1>1, <1>2, <1>3, <1>4
<1>6. BetterFirst(query, b)
  BY <1>1, <1>2, <1>5, ThinsOrdered
<1>7. BetterFirst(query, c)
  BY <1>3, <1>5, <1>6, ThinsOrdered
<1>8. BetterFirst(query, d)
  BY <1>4, <1>5, <1>7, ThinsOrdered
<1> QED
  BY <1>1, <1>2, <1>3, <1>4, <1>6, <1>7, <1>8 DEF Q

(* The later steps keep the keys distinct and the domains capped.          *)
LEMMA ThinsKeeps ==
  ASSUME NEW Q, NEW a \in Seq(Q), NEW b \in Seq(Q), NEW D, NEW e, Thins(e, a, b, D)
  PROVE  /\ (\A i, j \in DOMAIN a : j < i => a[j].result.key # a[i].result.key) =>
               \A i, j \in DOMAIN b : j < i => b[j].result.key # b[i].result.key
         /\ \A x : IsFiniteSet(InDomain(a, x)) => Cardinality(InDomain(b, x)) \in Nat
               /\ Cardinality(InDomain(a, x)) \in Nat
               /\ Cardinality(InDomain(b, x)) <= Cardinality(InDomain(a, x))
<1>1. \A i \in DOMAIN b : e[i] \in DOMAIN a /\ b[i] = a[e[i]] /\ i \in Nat
  <2>1. \A i \in DOMAIN b : i \in Nat
    OBVIOUS
  <2> QED
    BY <2>1 DEF Thins
<1>2. \A i, j \in DOMAIN b : j < i => e[j] < e[i]
  BY DEF Thins
<1>3. ASSUME \A i, j \in DOMAIN a : j < i => a[j].result.key # a[i].result.key,
             NEW i \in DOMAIN b, NEW j \in DOMAIN b, j < i
      PROVE  b[j].result.key # b[i].result.key
  BY <1>1, <1>2, <1>3
<1>4. DOMAIN a \subseteq Nat
  OBVIOUS
<1>5. ASSUME NEW x, IsFiniteSet(InDomain(a, x))
      PROVE  /\ Cardinality(InDomain(b, x)) \in Nat /\ Cardinality(InDomain(a, x)) \in Nat
             /\ Cardinality(InDomain(b, x)) <= Cardinality(InDomain(a, x))
  <2>1. \A i \in InDomain(b, x) : e[i] \in InDomain(a, x)
    BY <1>1 DEF InDomain
  <2>2. \A i, j \in InDomain(b, x) : e[i] = e[j] => i = j
    <3> SUFFICES ASSUME NEW i \in InDomain(b, x), NEW j \in InDomain(b, x), e[i] = e[j], i # j
                 PROVE FALSE
      OBVIOUS
    <3>1. i \in DOMAIN b /\ j \in DOMAIN b /\ i \in Nat /\ j \in Nat /\ e[i] \in Nat
      BY <1>1, <1>4 DEF InDomain
    <3>2. i < j \/ j < i
      BY <3>1
    <3> QED
      BY <1>2, <3>1, <3>2
  <2> QED
    BY <1>5, <2>1, <2>2, InjectCard
<1> QED
  BY <1>3, <1>5

LEMMA RerankSound ==
  ASSUME NEW R, Candidates(R), NEW query \in SUBSET Words, NEW candidates \in Seq(R)
  PROVE  RankingSound(query, candidates, Reranked(query, candidates))
<1> DEFINE list == Bounded(candidates, MaxCandidates)
           a == Ranked(query, list)
           b == UniqueUrls(a)
           c == DomainCap(b)
           d == DropNearDuplicates(c)
           rows == Bounded(d, TopK)
           Q == RowsOf(list)
<1>1. /\ list \in Seq(R) /\ DOMAIN list = 1..Len(list)
      /\ Len(list) = IF Len(candidates) < MaxCandidates THEN Len(candidates) ELSE MaxCandidates
      /\ DOMAIN list \subseteq DOMAIN candidates
      /\ \A n \in DOMAIN list : list[n] = candidates[n]
  BY RerankAssumption, BoundedPrefix
<1>2. rows = Reranked(query, candidates)
  BY DEF Reranked
<1> HIDE DEF list
<1>3. /\ a \in Seq(Q) /\ b \in Seq(Q) /\ c \in Seq(Q) /\ d \in Seq(Q)
      /\ BetterFirst(query, d)
      /\ \E e : Thins(e, a, b, Repeated(Q))
      /\ \E e : Thins(e, b, c, Crowded(Q))
      /\ \E e : Thins(e, c, d, Similar(Q))
  BY <1>1, Passes
<1>4. \A n \in DOMAIN list : n <= MaxCandidates
  <2>1. Len(candidates) \in Nat
    OBVIOUS
  <2> QED
    BY <1>1, <2>1, RerankAssumption
<1>5. \A q \in Q : /\ q.from \in DOMAIN candidates /\ q.from <= MaxCandidates
                   /\ q.result = candidates[q.from]
  BY <1>1, <1>4 DEF RowsOf
<1> HIDE DEF a, b, c, d, rows, Q
<1>6. /\ rows \in Seq(Q) /\ Len(rows) = IF Len(d) < TopK THEN Len(d) ELSE TopK
      /\ DOMAIN rows = 1..Len(rows) /\ DOMAIN rows \subseteq DOMAIN d
      /\ \A i \in DOMAIN rows : rows[i] = d[i]
  BY <1>3, RerankAssumption, BoundedPrefix DEF rows
<1>7. Len(rows) <= TopK
  <2>1. Len(d) \in Nat
    BY <1>3
  <2> QED
    BY <1>6, <2>1, RerankAssumption
<1>8. /\ \A i, j \in DOMAIN b : j < i => b[j].result.key # b[i].result.key
      /\ \A i, j \in DOMAIN c : j < i => c[j].result.key # c[i].result.key
      /\ \A i, j \in DOMAIN d : j < i => d[j].result.key # d[i].result.key
  <2>1. \A i, j \in DOMAIN b : j < i => b[j].result.key # b[i].result.key
    BY <1>3, KeysDistinct
  <2>2. \A i, j \in DOMAIN c : j < i => c[j].result.key # c[i].result.key
    BY <1>3, <2>1, ThinsKeeps
  <2>3. \A i, j \in DOMAIN d : j < i => d[j].result.key # d[i].result.key
    BY <1>3, <2>2, ThinsKeeps
  <2> QED
    BY <2>1, <2>2, <2>3
<1>9. \A i, j \in DOMAIN d : j < i => ~NearDuplicate(d[j].result.words, d[i].result.words)
  BY <1>3, NoNearDuplicates, NearDuplicateSymmetric
<1>10. ASSUME NEW x PROVE Cardinality(InDomain(rows, x)) <= Cap
  <2>1. IsFiniteSet(InDomain(c, x)) /\ Cardinality(InDomain(c, x)) <= Cap
    BY <1>3, CapKept
  <2>2. /\ Cardinality(InDomain(d, x)) \in Nat /\ Cardinality(InDomain(c, x)) \in Nat
        /\ Cardinality(InDomain(d, x)) <= Cardinality(InDomain(c, x))
    BY <1>3, <2>1, ThinsKeeps
  <2>3. IsFiniteSet(InDomain(d, x))
    <3>1. DOMAIN d = 1..Len(d) /\ Len(d) \in Nat
      BY <1>3
    <3>2. InDomain(d, x) \in SUBSET (1..Len(d)) /\ IsFiniteSet(1..Len(d))
      BY <3>1, FS_Interval DEF InDomain
    <3> QED
      BY <3>2, FS_Subset
  <2>4. InDomain(rows, x) \in SUBSET InDomain(d, x)
    BY <1>6 DEF InDomain
  <2>5. /\ Cardinality(InDomain(rows, x)) \in Nat
        /\ Cardinality(InDomain(rows, x)) <= Cardinality(InDomain(d, x))
    BY <2>3, <2>4, FS_Subset, FS_CardinalityType
  <2> QED
    BY <2>1, <2>2, <2>5, RerankAssumption
<1>11. ASSUME NEW i \in DOMAIN rows
       PROVE  /\ rows[i].from \in DOMAIN candidates
              /\ rows[i].from <= MaxCandidates
              /\ rows[i].result = candidates[rows[i].from]
              /\ Cardinality(InDomain(rows, rows[i].result.domain)) <= Cap
              /\ \A j \in 1..(i - 1) :
                    /\ Better(query, rows[j], rows[i])
                    /\ rows[j].result.key # rows[i].result.key
                    /\ ~NearDuplicate(rows[j].result.words, rows[i].result.words)
  <2>1. rows[i] \in Q /\ i \in DOMAIN d /\ rows[i] = d[i]
    BY <1>6
  <2>2. ASSUME NEW j \in 1..(i - 1)
        PROVE  j \in DOMAIN d /\ j < i /\ rows[j] = d[j]
    <3>1. j \in DOMAIN rows /\ j < i
      BY <1>6
    <3> QED
      BY <1>6, <3>1
  <2>3. \A j \in 1..(i - 1) : Better(query, d[j], d[i])
    BY <1>3, <2>1, <2>2 DEF BetterFirst
  <2> QED
    BY <1>5, <1>8, <1>9, <1>10, <2>1, <2>2, <2>3
<1> QED
  BY <1>2, <1>7, <1>11 DEF RankingSound

(* Better orders the rows.                                                 *)
LEMMA BetterTransitive ==
  ASSUME NEW R, Candidates(R), NEW query \in SUBSET Words, NEW list \in Seq(R),
         NEW x \in RowsOf(list), NEW y \in RowsOf(list), NEW z \in RowsOf(list),
         Better(query, x, y), Better(query, y, z)
  PROVE  Better(query, x, z)
<1>1. \A r \in RowsOf(list) : r.from \in Int /\ r.result \in R
  BY DEF RowsOf
<1>2. \A r \in RowsOf(list) : r.from \in Int /\ Score(query, r.result.words) \in Int
  BY <1>1, ScoreType DEF Candidates
<1> QED
  BY <1>2 DEF Better

AheadOf(query, rows, r) == {i \in DOMAIN rows : Better(query, rows[i], r)}

(* A row that some row of the whole ranking keeps behind the cut has TopK  *)
(* better ones.                                                            *)
LEMMA CutOff ==
  ASSUME NEW R, Candidates(R), NEW query \in SUBSET Words, NEW list \in Seq(R),
         NEW d \in Seq(RowsOf(list)), BetterFirst(query, d),
         NEW rows, rows = Bounded(d, TopK), NEW r \in RowsOf(list),
         NEW k \in DOMAIN d, d[k] = r \/ Better(query, d[k], r)
  PROVE  \/ k \in DOMAIN rows /\ rows[k] = d[k]
         \/ TopK <= Cardinality(AheadOf(query, rows, r))
<1> DEFINE Q == RowsOf(list)
<1>1. /\ rows \in Seq(Q) /\ Len(rows) = IF Len(d) < TopK THEN Len(d) ELSE TopK
      /\ DOMAIN rows = 1..Len(rows) /\ DOMAIN rows \subseteq DOMAIN d
      /\ \A i \in DOMAIN rows : rows[i] = d[i]
  BY RerankAssumption, BoundedPrefix
<1>2. CASE k \in DOMAIN rows
  BY <1>1, <1>2
<1>3. CASE k \notin DOMAIN rows
  <2>1. Len(d) \in Nat /\ DOMAIN d = 1..Len(d)
    OBVIOUS
  <2>2. Len(rows) = TopK /\ DOMAIN rows = 1..TopK /\ k > TopK
    <3>1. TopK \in Nat
      BY RerankAssumption
    <3>2. ~(Len(d) < TopK)
      BY <1>1, <1>3, <2>1
    <3>3. Len(rows) = TopK /\ DOMAIN rows = 1..TopK
      BY <1>1, <3>2
    <3>4. k \in Nat /\ k >= 1
      BY <2>1
    <3> QED
      BY <1>3, <3>1, <3>3, <3>4
  <2>3. ASSUME NEW i \in DOMAIN rows PROVE Better(query, rows[i], r)
    <3>1. i \in DOMAIN d /\ i < k /\ rows[i] = d[i]
      BY <1>1, <2>1, <2>2, RerankAssumption
    <3>2. Better(query, d[i], d[k])
      BY <3>1 DEF BetterFirst
    <3>3. d[i] \in Q /\ d[k] \in Q
      BY <2>1, <3>1
    <3>4. Better(query, d[i], r)
      BY <3>2, <3>3, BetterTransitive
    <3> QED
      BY <3>1, <3>4
  <2>4. AheadOf(query, rows, r) = 1..TopK
    BY <2>2, <2>3 DEF AheadOf
  <2>5. Cardinality(1..TopK) = TopK /\ TopK \in Nat
    BY FS_Interval, RerankAssumption
  <2>6. TopK <= Cardinality(1..TopK)
    BY <2>5
  <2> QED
    BY <2>4, <2>6
<1> QED
  BY <1>2, <1>3

LEMMA RerankJustified ==
  ASSUME NEW R, Candidates(R), NEW query \in SUBSET Words, NEW candidates \in Seq(R)
  PROVE  RankingJustified(query, candidates, Reranked(query, candidates))
<1>0. PICK list, a, b, c, d, rows :
         /\ list = Bounded(candidates, MaxCandidates) /\ a = Ranked(query, list)
         /\ b = UniqueUrls(a) /\ c = DomainCap(b) /\ d = DropNearDuplicates(c)
         /\ rows = Bounded(d, TopK)
  OBVIOUS
<1> DEFINE Q == RowsOf(list)
           all == [n \in DOMAIN list |-> [result |-> candidates[n], from |-> n]]
<1>1. /\ list \in Seq(R) /\ DOMAIN list = 1..Len(list) /\ Len(list) \in Nat
      /\ \A n \in DOMAIN list : list[n] = candidates[n]
  <2>1. MaxCandidates \in Nat
    BY RerankAssumption
  <2>2. /\ list \in Seq(R) /\ DOMAIN list = 1..Len(list)
        /\ \A n \in DOMAIN list : list[n] = candidates[n]
    BY <1>0, <2>1, BoundedPrefix
  <2> QED
    BY <2>2
<1>2. rows = Reranked(query, candidates)
  BY <1>0 DEF Reranked
<1> SUFFICES ASSUME NEW x \in DOMAIN all
    PROVE  \/ \E i \in DOMAIN rows : rows[i].from = x
           \/ \E n \in {n \in DOMAIN all : Better(query, all[n], all[x])} :
                 candidates[n].key = candidates[x].key
           \/ Cap <= Cardinality({candidates[n].key :
                 n \in {m \in {n \in DOMAIN all : Better(query, all[n], all[x])} :
                           candidates[m].domain = candidates[x].domain}})
           \/ \E i \in {i \in DOMAIN rows : Better(query, rows[i], all[x])} :
                 NearDuplicate(rows[i].result.words, candidates[x].words)
           \/ TopK <= Cardinality({i \in DOMAIN rows : Better(query, rows[i], all[x])})
  BY <1>0, <1>2 DEF RankingJustified
<1>3. /\ DOMAIN all = 1..Len(list)
      /\ \A n \in DOMAIN all : /\ all[n] = [result |-> list[n], from |-> n]
                               /\ all[n] \in Q
                               /\ all[n].result = candidates[n]
  BY <1>1 DEF RowsOf
<1>4. \A q \in Q : q.from \in DOMAIN all /\ all[q.from] = q /\ candidates[q.from] = q.result
  BY <1>1, <1>3 DEF RowsOf
<1> HIDE DEF all
<1>5. /\ a \in Seq(Q) /\ b \in Seq(Q) /\ c \in Seq(Q) /\ d \in Seq(Q)
      /\ BetterFirst(query, a) /\ BetterFirst(query, b)
      /\ BetterFirst(query, c) /\ BetterFirst(query, d)
      /\ \E e : Thins(e, a, b, Repeated(Q))
      /\ \E e : Thins(e, b, c, Crowded(Q))
      /\ \E e : Thins(e, c, d, Similar(Q))
  BY <1>0, <1>1, Passes
<1>6. PICK k \in DOMAIN a : a[k] = all[x]
  <2>1. x \in DOMAIN list /\ all[x] = [result |-> list[x], from |-> x]
    BY <1>1, <1>3
  <2>2. \A n \in DOMAIN list : \E k \in DOMAIN a : a[k] = [result |-> list[n], from |-> n]
    BY <1>0, <1>1, RankedSorts
  <2> QED
    BY <2>1, <2>2
<1> DEFINE r == all[x]
<1>7. r \in Q /\ r.result = candidates[x] /\ r.from = x
  BY <1>3, <1>4
<1> HIDE DEF r
<1>8. ASSUME NEW i \in DOMAIN d, d[i] = r \/ Better(query, d[i], r)
       PROVE  \/ i \in DOMAIN rows /\ rows[i] = d[i]
              \/ TopK <= Cardinality({l \in DOMAIN rows : Better(query, rows[l], r)})
  <2>1. d \in Seq(RowsOf(list)) /\ r \in RowsOf(list)
    BY <1>5, <1>7
  <2> HIDE DEF Q
  <2>2. \/ i \in DOMAIN rows /\ rows[i] = d[i]
        \/ TopK <= Cardinality(AheadOf(query, rows, r))
    BY <1>0, <1>1, <1>5, <1>8, <2>1, CutOff
  <2> QED
    BY <2>2 DEF AheadOf
<1>9. CASE \E m \in 0..Len(b) : /\ \A i \in 1..m : i \in DOMAIN b /\ Better(query, b[i], r)
                                /\ <<Prefix(b, m), r>> \in Repeated(Q)
  <2>1. PICK m \in 0..Len(b) : /\ \A i \in 1..m : i \in DOMAIN b /\ Better(query, b[i], r)
                               /\ <<Prefix(b, m), r>> \in Repeated(Q)
    BY <1>9
  <2>2. PICK i \in 1..m : b[i].result.key = r.result.key
    BY <2>1 DEF Repeated, Prefix
  <2>3. b[i] \in Q /\ Better(query, b[i], r)
    BY <1>5, <2>1
  <2> DEFINE n == b[i].from
  <2>4. n \in DOMAIN all /\ all[n] = b[i] /\ candidates[n] = b[i].result
    BY <1>4, <2>3
  <2> HIDE DEF n
  <2> QED
    BY <1>7, <2>2, <2>3, <2>4 DEF r
<1>10. ASSUME NEW j \in DOMAIN b, b[j] = r,
             NEW m \in 0..Len(c), <<Prefix(c, m), r>> \in Crowded(Q),
             \A i \in 1..m : i \in DOMAIN c /\ Better(query, c[i], r)
      PROVE  Cap <= Cardinality({candidates[n].key :
                 n \in {l \in {n \in DOMAIN all : Better(query, all[n], r)} :
                           candidates[l].domain = candidates[x].domain}})
  <2> DEFINE Rivals == {l \in {n \in DOMAIN all : Better(query, all[n], r)} :
                           candidates[l].domain = candidates[x].domain}
             Keys == {candidates[n].key : n \in Rivals}
             S == InDomain(Prefix(c, m), r.result.domain)
             f == [i \in 1..m |-> c[i].result.key]
             g == [n \in Rivals |-> candidates[n].key]
  <2>1. Cardinality(S) >= Cap
    BY <1>10 DEF Crowded
  <2>2. IsFiniteSet(Keys)
    <3>1. IsFiniteSet(Rivals)
      <4>1. Rivals \in SUBSET (1..Len(list)) /\ IsFiniteSet(1..Len(list))
        BY <1>1, <1>3, FS_Interval
      <4> QED
        BY <4>1, FS_Subset
    <3>2. g \in Surjection(Rivals, Keys)
      BY DEF Surjection
    <3> QED
      BY <3>1, <3>2, FS_Surjection
  <2>3. S = {i \in 1..m : c[i].result.domain = r.result.domain}
    BY DEF InDomain, Prefix
  <2>4. ASSUME NEW i \in S PROVE f[i] \in Keys
    <3>1. i \in 1..m /\ c[i].result.domain = r.result.domain /\ f[i] = c[i].result.key
      BY <2>3
    <3>2. c[i] \in Q /\ Better(query, c[i], r)
      BY <1>5, <1>10, <3>1
    <3>3. /\ c[i].from \in DOMAIN all /\ all[c[i].from] = c[i]
          /\ candidates[c[i].from] = c[i].result
      BY <1>4, <3>2
    <3>4. c[i].from \in Rivals
      BY <1>7, <3>1, <3>2, <3>3
    <3> QED
      BY <3>1, <3>3, <3>4
  <2>5. \A i, l \in DOMAIN b : l < i => b[l].result.key # b[i].result.key
    BY <1>5, KeysDistinct
  <2>6. \A i, l \in DOMAIN c : l < i => c[l].result.key # c[i].result.key
    BY <1>5, <2>5, ThinsKeeps
  <2>7. \A i, l \in S : f[i] = f[l] => i = l
    <3> SUFFICES ASSUME NEW i \in S, NEW l \in S, f[i] = f[l], i # l PROVE FALSE
      OBVIOUS
    <3>1. i \in 1..m /\ l \in 1..m /\ i \in DOMAIN c /\ l \in DOMAIN c /\ m \in Nat
      BY <1>10, <2>3
    <3>2. c[i].result.key = c[l].result.key /\ (i < l \/ l < i)
      BY <3>1
    <3> QED
      BY <2>6, <3>1, <3>2
  <2> HIDE DEF S, Rivals, Keys, f, g
  <2>8. /\ Cardinality(S) \in Nat /\ Cardinality(Keys) \in Nat
        /\ Cardinality(S) <= Cardinality(Keys)
    <3>1. PICK S1, K1, f1 : S1 = S /\ K1 = Keys /\ f1 = f
      OBVIOUS
    <3>2. /\ IsFiniteSet(K1) /\ \A i \in S1 : f1[i] \in K1
          /\ \A i, l \in S1 : f1[i] = f1[l] => i = l
      BY <2>2, <2>4, <2>7, <3>1
    <3>3. /\ Cardinality(S1) \in Nat /\ Cardinality(K1) \in Nat
          /\ Cardinality(S1) <= Cardinality(K1)
      BY <3>2, InjectCard
    <3> QED
      BY <3>1, <3>3
  <2>9. Cap <= Cardinality(Keys)
    BY <2>1, <2>8, RerankAssumption
  <2> QED
    BY <2>9 DEF Keys, Rivals
<1>11. ASSUME NEW m \in 0..Len(d), <<Prefix(d, m), r>> \in Similar(Q),
              \A i \in 1..m : i \in DOMAIN d /\ Better(query, d[i], r)
       PROVE  \/ \E i \in {i \in DOMAIN rows : Better(query, rows[i], r)} :
                    NearDuplicate(rows[i].result.words, candidates[x].words)
              \/ TopK <= Cardinality({i \in DOMAIN rows : Better(query, rows[i], r)})
  <2>1. PICK i \in 1..m : NearDuplicate(r.result.words, d[i].result.words)
    BY <1>11 DEF Similar, Prefix
  <2>2. i \in DOMAIN d /\ Better(query, d[i], r)
    BY <1>11
  <2>3. NearDuplicate(d[i].result.words, candidates[x].words)
    BY <1>7, <2>1, NearDuplicateSymmetric
  <2>4. \/ i \in DOMAIN rows /\ rows[i] = d[i]
        \/ TopK <= Cardinality({l \in DOMAIN rows : Better(query, rows[l], r)})
    BY <1>8, <2>2
  <2> QED
    BY <2>2, <2>3, <2>4
<1>12. \/ \E j \in DOMAIN b : b[j] = r
       \/ \E m \in 0..Len(b) : /\ \A i \in 1..m : i \in DOMAIN b /\ Better(query, b[i], r)
                               /\ <<Prefix(b, m), r>> \in Repeated(Q)
  BY <1>5, <1>6, KeptOrLeft DEF r
<1>13. ASSUME NEW j \in DOMAIN b, b[j] = r
       PROVE  \/ \E l \in DOMAIN c : c[l] = r
              \/ \E m \in 0..Len(c) : /\ \A i \in 1..m : i \in DOMAIN c /\ Better(query, c[i], r)
                                      /\ <<Prefix(c, m), r>> \in Crowded(Q)
  BY <1>5, <1>13, KeptOrLeft
<1>14. ASSUME NEW j \in DOMAIN c, c[j] = r
       PROVE  \/ \E l \in DOMAIN d : d[l] = r
              \/ \E m \in 0..Len(d) : /\ \A i \in 1..m : i \in DOMAIN d /\ Better(query, d[i], r)
                                      /\ <<Prefix(d, m), r>> \in Similar(Q)
  BY <1>5, <1>14, KeptOrLeft
<1>15. ASSUME NEW j \in DOMAIN d, d[j] = r
       PROVE  \/ \E i \in DOMAIN rows : rows[i].from = x
              \/ TopK <= Cardinality({i \in DOMAIN rows : Better(query, rows[i], r)})
  <2>1. \/ j \in DOMAIN rows /\ rows[j] = d[j]
        \/ TopK <= Cardinality({l \in DOMAIN rows : Better(query, rows[l], r)})
    BY <1>15, <1>8
  <2> QED
    BY <1>7, <1>15, <2>1
<1>16. CASE \E j \in DOMAIN b : b[j] = r
  <2>1. CASE \E m \in 0..Len(c) : /\ \A i \in 1..m : i \in DOMAIN c /\ Better(query, c[i], r)
                                  /\ <<Prefix(c, m), r>> \in Crowded(Q)
    BY <1>10, <1>16, <2>1 DEF r
  <2>2. CASE \E l \in DOMAIN c : c[l] = r
    <3>1. CASE \E l \in DOMAIN d : d[l] = r
      BY <1>15, <3>1 DEF r
    <3>2. CASE \E m \in 0..Len(d) : /\ \A i \in 1..m : i \in DOMAIN d /\ Better(query, d[i], r)
                                    /\ <<Prefix(d, m), r>> \in Similar(Q)
      BY <1>11, <3>2 DEF r
    <3> QED
      BY <1>14, <2>2, <3>1, <3>2
  <2> QED
    BY <1>13, <1>16, <2>1, <2>2
<1> QED
  BY <1>9, <1>12, <1>16


-----------------------------------------------------------------------------
(* What rerank returns                                                     *)

RerankInv == job = "rerank" =>
    /\ in \in Rerankings
    /\ out.done => out.value = Reranked(in.query, in.candidates)

LEMMA RerankInvAlways == Spec => []RerankInv
<1>1. Init => RerankInv
  BY DEF Init, RerankInv, Pending
<1>2. RerankInv /\ [Next]_vars => RerankInv'
  <2> SUFFICES ASSUME RerankInv, [Next]_vars PROVE RerankInv'
    OBVIOUS
  <2>1. CASE UNCHANGED <<job, in, out>>
    BY <2>1 DEF RerankInv
  <2>2. CASE Rerank
    BY <2>2 DEF RerankInv, Rerank, Return
  <2>3. CASE Route \/ Validate
    BY <2>3 DEF RerankInv, Route, Validate
  <2> QED
    BY <2>1, <2>2, <2>3 DEF Next, ExtractStep, vars
<1> QED
  BY <1>1, <1>2, PTL DEF Spec

(* Whatever the candidates: the rows of a rerank are in order, without     *)
(* repeated pages or near-duplicates and few of any domain, and every      *)
(* candidate they leave out was displaced by better ones.                  *)
THEOREM RerankCorrect == Spec => []RerankExact
<1>1. Candidates(Results)
  BY DEF Candidates, Results
<1>2. RerankInv => RerankExact
  <2> SUFFICES ASSUME RerankInv, job = "rerank", out.done PROVE RerankExact
    BY DEF RerankExact, Returned
  <2>1. /\ in.query \in SUBSET Words
        /\ in.candidates \in BoundedSeq(Results, MaxResults)
        /\ out.value = Reranked(in.query, in.candidates)
    BY DEF RerankInv, Rerankings
  <2>2. in.candidates \in Seq(Results)
    BY <2>1 DEF BoundedSeq, SeqOf
  <2> QED
    BY <1>1, <2>1, <2>2, RerankSound, RerankJustified DEF RerankExact
<1> QED
  BY <1>2, RerankInvAlways, PTL

-----------------------------------------------------------------------------
(* Citations                                                               *)

LEMMA Counted ==
  ASSUME NEW n \in Nat
  PROVE  IsFiniteSet(1..n) /\ Cardinality(1..n) = n
  BY FS_Interval

(* What is filed elsewhere: the judgements of the other kind.              *)
Misfiled(J, good) == {p \in Seq(J) \X J : ~(p[2].reason = "none" <=> good)}

LEMMA FiledThins ==
  ASSUME NEW J, NEW a \in Seq(J), NEW good \in BOOLEAN
  PROVE  /\ Filed(a, good) \in Seq(J)
         /\ \E e : Thins(e, a, Filed(a, good), Misfiled(J, good))
<1> DEFINE Keep(x) == x.reason = "none" <=> good
           next(g) == [S \in SUBSET DOMAIN a |->
                         IF S = {} THEN <<>>
                         ELSE IF Keep(a[Max(S)])
                              THEN Append(g[S \ {Max(S)}], a[Max(S)]) ELSE g[S \ {Max(S)}]]
<1>1. Filed(a, good) = (CHOOSE g : g = next(g))[DOMAIN a]
  BY DEF Filed, FoldLeft, MapThenFoldSet
<1>2. \A s \in Seq(J), x \in J : <<s, x>> \in Misfiled(J, good) <=> ~Keep(x)
  BY DEF Misfiled
<1> HIDE DEF Keep
<1>3. \E g : g = next(g)
  <2>1. PICK g \in [SUBSET (1..Len(a)) -> Seq(J)] : IsFilter(g, a, Misfiled(J, good))
    BY FilterIter
  <2>2. ASSUME NEW S \in SUBSET (1..Len(a))
        PROVE  g[S] = IF S = {} THEN <<>>
                      ELSE IF Keep(a[Max(S)])
                           THEN Append(g[S \ {Max(S)}], a[Max(S)]) ELSE g[S \ {Max(S)}]
    <3>1. CASE S = {}
      BY <2>1, <3>1 DEF IsFilter
    <3>2. CASE S # {}
      <4>1. a[Max(S)] \in J /\ S \ {Max(S)} \in SUBSET (1..Len(a))
        BY <3>2, MaxAt
      <4>2. g[S \ {Max(S)}] \in Seq(J)
        BY <4>1
      <4> QED
        BY <1>2, <2>1, <3>2, <4>1, <4>2 DEF IsFilter
    <3> QED
      BY <3>1, <3>2
  <2>3. DOMAIN a = 1..Len(a) /\ g = [S \in SUBSET (1..Len(a)) |-> g[S]]
    OBVIOUS
  <2>4. g = next(g)
    BY <2>2, <2>3
  <2> QED
    BY <2>4
<1> DEFINE G == CHOOSE g : g = next(g)
<1>4. G = next(G)
  BY <1>3
<1>5. Filed(a, good) = G[1..Len(a)]
  BY <1>1
<1> HIDE DEF G
<1>6. ASSUME NEW S \in SUBSET (1..Len(a))
      PROVE  G[S] = IF S = {} THEN <<>>
                    ELSE IF Keep(a[Max(S)])
                         THEN Append(G[S \ {Max(S)}], a[Max(S)]) ELSE G[S \ {Max(S)}]
  <2>1. next(G)[S] = IF S = {} THEN <<>>
                     ELSE IF Keep(a[Max(S)])
                          THEN Append(G[S \ {Max(S)}], a[Max(S)]) ELSE G[S \ {Max(S)}]
    <3>1. S \in SUBSET DOMAIN a
      OBVIOUS
    <3> QED
      BY <3>1
  <2> HIDE DEF next
  <2> QED
    BY <1>4, <2>1
<1> HIDE DEF next
<1>7. G[{}] = <<>>
  BY <1>6
<1>8. ASSUME NEW S \in SUBSET (1..Len(a)), S # {}, G[S \ {Max(S)}] \in Seq(J)
      PROVE  G[S] = IF <<G[S \ {Max(S)}], a[Max(S)]>> \in Misfiled(J, good)
                    THEN G[S \ {Max(S)}] ELSE Append(G[S \ {Max(S)}], a[Max(S)])
  <2>1. a[Max(S)] \in J
    BY <1>8, MaxAt
  <2> QED
    BY <1>2, <1>6, <1>8, <2>1
<1>9. /\ G[1..Len(a)] \in Seq(J)
      /\ \E e : Thins(e, a, G[1..Len(a)], Misfiled(J, good))
  BY <1>7, <1>8, FoldThins
<1> QED
  BY <1>5, <1>9

(* b lists the elements of a in A, in order.                               *)
Lists(e, a, b, A) ==
    /\ e \in [DOMAIN b -> A] /\ \A k \in A : \E i \in DOMAIN b : e[i] = k
    /\ \A i \in DOMAIN b : b[i] = a[e[i]] /\ \A j \in DOMAIN b : j < i => e[j] < e[i]

LEMMA FiledExact ==
  ASSUME NEW J, NEW a \in Seq(J), NEW good \in BOOLEAN
  PROVE  LET A == {k \in DOMAIN a : a[k].reason = "none" <=> good}
         IN  /\ Filed(a, good) \in Seq(J)
             /\ \E e : Lists(e, a, Filed(a, good), A)
             /\ IsFiniteSet(A) /\ Cardinality(A) = Len(Filed(a, good))
<1> DEFINE A == {k \in DOMAIN a : a[k].reason = "none" <=> good}
<1>1. PICK b : b = Filed(a, good)
  OBVIOUS
<1>2. PICK e : b \in Seq(J) /\ Thins(e, a, b, Misfiled(J, good))
  BY <1>1, FiledThins
<1>3. DOMAIN b = 1..Len(b) /\ Len(b) \in Nat /\ \A i \in DOMAIN b : b[i] \in J
  BY <1>2
<1>4. DOMAIN a = 1..Len(a) /\ Len(a) \in Nat /\ \A k \in DOMAIN a : a[k] \in J
  OBVIOUS
<1>5. ASSUME NEW i \in DOMAIN b PROVE e[i] \in A /\ b[i] = a[e[i]]
  <2>1. e[i] \in DOMAIN a /\ b[i] = a[e[i]] /\ <<Prefix(b, i - 1), b[i]>> \notin Misfiled(J, good)
    BY <1>2 DEF Thins
  <2>2. i - 1 \in Nat /\ \A l \in 1..(i - 1) : l \in DOMAIN b
    BY <1>3
  <2>3. Prefix(b, i - 1) \in Seq(J)
    BY <1>3, <2>2 DEF Prefix
  <2> QED
    BY <1>3, <2>1, <2>3 DEF Misfiled
<1>6. ASSUME NEW k \in A PROVE \E i \in DOMAIN b : e[i] = k
  <2>1. \A s : <<s, a[k]>> \notin Misfiled(J, good)
    BY DEF Misfiled
  <2> QED
    BY <1>2, <2>1 DEF Thins
<1>7. e \in [DOMAIN b -> A]
  <2>1. e = [i \in DOMAIN b |-> e[i]]
    BY <1>2 DEF Thins
  <2> QED
    BY <1>5, <2>1
<1> HIDE DEF A
<1>8. \A i, j \in DOMAIN b : j < i => e[j] < e[i]
  BY <1>2 DEF Thins
<1>9. Lists(e, a, b, A)
  BY <1>5, <1>6, <1>7, <1>8 DEF Lists
<1>10. IsFiniteSet(A) /\ A \subseteq DOMAIN a
  <2>1. A \in SUBSET (1..Len(a))
    BY <1>4 DEF A
  <2> QED
    <3>1. IsFiniteSet(1..Len(a))
      BY <1>4, Counted
    <3>2. IsFiniteSet(A)
      BY <2>1, <3>1, FS_Subset
    <3> QED
      BY <3>2 DEF A
<1>11. \A i, j \in DOMAIN b : e[i] = e[j] => i = j
  <2> SUFFICES ASSUME NEW i \in DOMAIN b, NEW j \in DOMAIN b, e[i] = e[j], i # j PROVE FALSE
    OBVIOUS
  <2>1. i \in Nat /\ j \in Nat /\ e[i] \in Nat
    BY <1>3, <1>4, <1>7, <1>10
  <2>2. i < j \/ j < i
    BY <2>1
  <2> QED
    BY <1>8, <2>1, <2>2
<1>12. e \in Injection(DOMAIN b, A) /\ e \in Surjection(DOMAIN b, A)
  <2>1. e \in Injection(DOMAIN b, A)
    BY <1>7, <1>11 DEF Injection, IsInjective
  <2>2. e \in Surjection(DOMAIN b, A)
    BY <1>6, <1>7 DEF Surjection
  <2> QED
    BY <2>1, <2>2
<1>13. Cardinality(DOMAIN b) = Cardinality(A)
  BY <1>10, <1>12, FS_Injection
<1>14. Cardinality(DOMAIN b) = Len(b)
  <2>1. Cardinality(1..Len(b)) = Len(b)
    BY <1>3, Counted
  <2> QED
    BY <1>3, <2>1
<1> QED
  BY <1>1, <1>2, <1>9, <1>10, <1>13, <1>14 DEF A

(* What is found is an occurrence, and -1 is none.                         *)
LEMMA FindSound ==
  ASSUME NEW part, NEW whole
  PROVE  /\ Find(part, whole) \in Int
         /\ Find(part, whole) < 0 <=> Occurrences(part, whole) = {}
<1> DEFINE at == Occurrences(part, whole)
<1>1. at \in SUBSET Nat
  BY DEF Occurrences
<1>2. Find(part, whole) = IF at = {} THEN -1 ELSE CHOOSE n \in at : \A m \in at : n <= m
  BY DEF Find
<1> HIDE DEF at
<1>3. CASE at = {}
  BY <1>2, <1>3 DEF at
<1>4. CASE at # {}
  <2>1. \E n \in at : \A m \in at : n <= m
    BY <1>1, <1>4, LeastElement
  <2>2. Find(part, whole) \in at
    BY <1>2, <1>4, <2>1
  <2> QED
    BY <1>1, <1>4, <2>2 DEF at
<1> QED
  BY <1>3, <1>4

(* The raw items, as far as validate_citations looks at them.              *)
Citable(R, answer, docs) == \A x \in R :
    /\ x.hash \in Int /\ answer[x.claim] \in Int /\ Len(x.quote) \in Int
    /\ x.hash \in DOMAIN docs => docs[x.hash].text \in Seq(Chars)

SoundItem(answer, x, docs) ==
    /\ x.hash \in DOMAIN docs
    /\ Len(x.quote) \in MinQuote..MaxQuote
    /\ answer[x.claim] >= 0
    /\ Occurrences(Plain[x.quote], Plain[docs[x.hash].text]) # {}
    /\ Occurrences(Plain[x.quote], Plain[docs[x.hash].tags]) = {}

LEMMA ReasonSound ==
  ASSUME NEW R, NEW answer, NEW docs, Citable(R, answer, docs), NEW x \in R
  PROVE  Reason(answer, x, docs) = "none" <=> SoundItem(answer, x, docs)
<1>1. CASE x.hash \notin DOMAIN docs
  BY <1>1 DEF Reason, SoundItem
<1>2. CASE x.hash \in DOMAIN docs
  <2> DEFINE doc == docs[x.hash]
             at == Find(Plain[x.quote], Plain[doc.text])
             inTags == Find(Plain[x.quote], Plain[doc.tags])
  <2>1. /\ at \in Int /\ (at < 0 <=> Occurrences(Plain[x.quote], Plain[doc.text]) = {})
        /\ inTags \in Int
        /\ (inTags < 0 <=> Occurrences(Plain[x.quote], Plain[doc.tags]) = {})
    BY FindSound
  <2>2. Match(x, docs) = at
    BY <1>2 DEF Match
  <2>3. Len(x.quote) \in Int /\ answer[x.claim] \in Int /\ MinQuote \in Int /\ MaxQuote \in Int
    BY CitationAssumption DEF Citable
  <2>4. Reason(answer, x, docs) =
          CASE Len(x.quote) < MinQuote -> "quote_too_short"
            [] Len(x.quote) > MaxQuote -> "quote_too_long"
            [] Match(x, docs) < 0 -> "quote_not_found"
            [] answer[x.claim] < 0 -> "claim_unmatched"
            [] inTags >= 0 -> "envelope_violation"
            [] OTHER -> "none"
    BY <1>2 DEF Reason
  <2> HIDE DEF at, inTags
  <2>5. SoundItem(answer, x, docs) <=>
          /\ Len(x.quote) \in MinQuote..MaxQuote /\ answer[x.claim] >= 0
          /\ ~(at < 0) /\ inTags < 0
    BY <1>2, <2>1 DEF SoundItem
  <2>6. CASE Len(x.quote) < MinQuote \/ Len(x.quote) > MaxQuote \/ at < 0
             \/ answer[x.claim] < 0 \/ inTags >= 0
    <3>1. Reason(answer, x, docs) # "none"
      BY <2>2, <2>4, <2>6
    <3> QED
      BY <2>1, <2>3, <2>5, <2>6, <3>1
  <2>7. CASE ~(Len(x.quote) < MinQuote \/ Len(x.quote) > MaxQuote \/ at < 0
             \/ answer[x.claim] < 0 \/ inTags >= 0)
    <3>1. Reason(answer, x, docs) = "none"
      BY <2>2, <2>4, <2>7
    <3> QED
      BY <2>1, <2>3, <2>5, <2>7, <3>1
  <2> QED
    BY <2>6, <2>7
<1> QED
  BY <1>1, <1>2

LEMMA KeyOrder ==
  ASSUME NEW a \in Int, NEW b \in Int, NEW c \in Int,
         NEW x \in Int, NEW y \in Int, NEW z \in Int
  PROVE  KeyLess(<<a, b, c>>, <<x, y, z>>) <=>
            a < x \/ (a = x /\ (b < y \/ (b = y /\ c < z)))
<1>1. DOMAIN <<a, b, c>> = {1, 2, 3} /\ 1..0 = {} /\ 1..(2 - 1) = {1} /\ 1..(3 - 1) = {1, 2}
      /\ 1..(1 - 1) = {}
  OBVIOUS
<1>2. KeyLess(<<a, b, c>>, <<x, y, z>>) <=>
         \E n \in {1, 2, 3} : /\ <<a, b, c>>[n] < <<x, y, z>>[n]
                              /\ \A m \in 1..(n - 1) : <<a, b, c>>[m] = <<x, y, z>>[m]
  BY <1>1 DEF KeyLess
<1> QED
  BY <1>1, <1>2

(* Citations with the keys of a sort.                                      *)
Keyed(answer, c) == c.hash \in Int /\ answer[c.claim] \in Int /\ Len(c.quote) \in Int

(* The citations come in the order of claim, then of document.             *)
NotAfter(answer, c, d) ==
    \/ answer[c.claim] < answer[d.claim]
    \/ answer[c.claim] = answer[d.claim] /\ c.hash <= d.hash

Orders(p, answer, cited, n) ==
    /\ p \in Bijection(1..n, 1..n)
    /\ DOMAIN Sorted(answer, cited) = 1..n
    /\ \A i \in 1..n : Sorted(answer, cited)[i] = cited[p[i]]
    /\ \A i, j \in 1..n : i < j => NotAfter(answer, cited[p[i]], cited[p[j]])

LEMMA SortedSorts ==
  ASSUME NEW answer, NEW n \in Nat, NEW cited, DOMAIN cited = 1..n,
         \A i \in 1..n : Keyed(answer, cited[i])
  PROVE  \E p : Orders(p, answer, cited, n)
<1> DEFINE S == 1..n
           key(i) == SortKey(answer, cited[i])
           before(i, j) == KeyLess(key(i), key(j)) \/ (key(i) = key(j) /\ i < j)
           B == {b \in S \X S : before(b[1], b[2])}
           k1(i) == answer[cited[i].claim]
           k2(i) == cited[i].hash
           k3(i) == Len(cited[i].quote)
           sorted(p) == \A i, j \in DOMAIN cited : i < j => before(p[i], p[j])
           order == CHOOSE p \in Bijection(DOMAIN cited, DOMAIN cited) : sorted(p)
<1>1. /\ DOMAIN Sorted(answer, cited) = S
      /\ \A i \in S : Sorted(answer, cited)[i] = cited[order[i]]
  BY DEF Sorted
<1>2. \A i, j \in S : <<i, j>> \in B <=> before(i, j)
  OBVIOUS
<1>3. \A i \in S : k1(i) \in Int /\ k2(i) \in Int /\ k3(i) \in Int /\ i \in Int
  BY DEF Keyed
<1>4. ASSUME NEW i \in S, NEW j \in S
      PROVE  before(i, j) <=>
               \/ k1(i) < k1(j)
               \/ k1(i) = k1(j) /\ k2(i) < k2(j)
               \/ k1(i) = k1(j) /\ k2(i) = k2(j) /\ k3(i) < k3(j)
               \/ k1(i) = k1(j) /\ k2(i) = k2(j) /\ k3(i) = k3(j) /\ i < j
  <2>1. key(i) = <<k1(i), k2(i), k3(i)>> /\ key(j) = <<k1(j), k2(j), k3(j)>>
    BY DEF SortKey
  <2> HIDE DEF k1, k2, k3, key
  <2>2. KeyLess(key(i), key(j)) <=>
          k1(i) < k1(j) \/ (k1(i) = k1(j) /\ (k2(i) < k2(j) \/ (k2(i) = k2(j) /\ k3(i) < k3(j))))
    BY <1>3, <2>1, KeyOrder
  <2>3. key(i) = key(j) <=> k1(i) = k1(j) /\ k2(i) = k2(j) /\ k3(i) = k3(j)
    BY <2>1
  <2> QED
    BY <2>2, <2>3
<1> HIDE DEF before, k1, k2, k3
<1>5. /\ \A i \in S : <<i, i>> \notin B
      /\ \A i, j \in S : i # j => <<i, j>> \in B \/ <<j, i>> \in B
      /\ \A i, j, k \in S : <<i, j>> \in B /\ <<j, k>> \in B => <<i, k>> \in B
  <2> HIDE DEF B, S
  <2>1. \A i \in S : <<i, i>> \notin B
    BY <1>2, <1>3, <1>4
  <2>2. \A i, j \in S : i # j => <<i, j>> \in B \/ <<j, i>> \in B
    BY <1>2, <1>3, <1>4
  <2>3. ASSUME NEW i \in S, NEW j \in S, NEW k \in S, <<i, j>> \in B, <<j, k>> \in B
        PROVE  <<i, k>> \in B
    <3>1. before(i, j) /\ before(j, k)
      BY <1>2, <2>3
    <3>2. before(i, k)
      BY <1>3, <1>4, <3>1
    <3> QED
      BY <1>2, <3>2
  <2> QED
    BY <2>1, <2>2, <2>3
<1> HIDE DEF B
<1>6. PICK p \in Bijection(S, S) : \A i, j \in S : i < j => <<p[i], p[j]>> \in B
  BY <1>5, SortExists
<1>7. sorted(p)
  <2>1. p \in [S -> S]
    BY DEF Bijection, Injection
  <2> QED
    BY <1>2, <1>6, <2>1
<1> HIDE DEF sorted
<1>8. order \in Bijection(S, S) /\ sorted(order)
  BY <1>7
<1> HIDE DEF order
<1>9. ASSUME NEW i \in S, NEW j \in S, i < j
      PROVE  NotAfter(answer, cited[order[i]], cited[order[j]])
  <2>1. order[i] \in S /\ order[j] \in S
    BY <1>8 DEF Bijection, Injection
  <2>2. before(order[i], order[j])
    BY <1>8, <1>9 DEF sorted
  <2>3. PICK x \in S, y \in S : x = order[i] /\ y = order[j] /\ before(x, y)
    BY <2>1, <2>2
  <2>4. k1(x) < k1(y) \/ (k1(x) = k1(y) /\ k2(x) <= k2(y))
    <3>1. k2(x) \in Int /\ k2(y) \in Int
      BY <1>3
    <3> HIDE DEF S
    <3> QED
      BY <1>4, <2>3, <3>1
  <2> QED
    BY <2>3, <2>4 DEF NotAfter, k1, k2
<1> QED
  BY <1>1, <1>8, <1>9 DEF Orders

(* The characters of a slice are a sequence.                               *)
LEMMA DecodeType ==
  ASSUME NEW text \in Seq(Chars), NEW slice
  PROVE  Len(Decode(text, slice)) \in Nat
<1> DEFINE count(b) == CharsUntil(text, b)
<1>1. ASSUME NEW b PROVE count(b) \in Nat /\ count(b) <= Len(text)
  <2>1. Len(text) \in Nat /\ DOMAIN text = 1..Len(text)
    OBVIOUS
  <2>2. IsFiniteSet(1..Len(text)) /\ Cardinality(1..Len(text)) = Len(text)
    BY <2>1, Counted
  <2> DEFINE T == {i \in DOMAIN text : ByteOffset(text, i) <= b}
  <2>3. T \in SUBSET (1..Len(text)) /\ count(b) = Cardinality(T)
    BY <2>1 DEF CharsUntil
  <2> HIDE DEF T, count
  <2>4. Cardinality(T) \in Nat /\ Cardinality(T) <= Cardinality(1..Len(text))
    BY <2>2, <2>3, FS_Subset, FS_CardinalityType
  <2> QED
    BY <2>2, <2>3, <2>4
<1>2. Decode(text, slice) = SubSeq(text, count(slice[1]) + 1, count(slice[2]))
  BY DEF Decode
<1> HIDE DEF count
<1>3. PICK m \in Nat, n \in Nat : m = count(slice[1]) /\ n = count(slice[2]) /\ n <= Len(text)
  BY <1>1
<1>4. SubSeq(text, m + 1, n) \in Seq(Chars)
  BY <1>3
<1> QED
  BY <1>2, <1>3, <1>4

LEMMA Classified ==
  ASSUME NEW R, NEW answer, NEW docs, Citable(R, answer, docs), NEW raw \in Seq(R),
         NEW judged, judged = Judged(answer, raw, docs),
         NEW cited, cited = Cited(raw, docs, judged),
         NEW result, result = [valid |-> Sorted(answer, cited), rejected |-> Rejected(judged)]
  PROVE  AllClassified(answer, raw, docs, result)
<1> DEFINE N == DOMAIN raw
           J == {judged[n] : n \in N}
           Good == {n \in N : judged[n].reason = "none" <=> TRUE}
           Bad == {n \in N : judged[n].reason = "none" <=> FALSE}
<1>1. /\ N = 1..Len(raw) /\ Len(raw) \in Nat /\ \A n \in N : raw[n] \in R
      /\ DOMAIN judged = N /\ judged = [n \in N |-> judged[n]]
      /\ \A n \in N : judged[n].raw = n /\ judged[n].reason = Reason(answer, raw[n], docs)
  BY DEF Judged
<1>2. judged \in Seq(J) /\ Len(judged) = Len(raw)
  BY <1>1
<1>3. \A n \in N : judged[n].reason = "none" <=> SoundItem(answer, raw[n], docs)
  BY <1>1, ReasonSound
<1> HIDE DEF J
<1>4. PICK good, e : /\ good = Filed(judged, TRUE) /\ good \in Seq(J)
                     /\ Lists(e, judged, good, Good)
                     /\ IsFiniteSet(Good) /\ Cardinality(Good) = Len(good)
  <2>1. Good = {k \in DOMAIN judged : judged[k].reason = "none" <=> TRUE}
    BY <1>1
  <2> HIDE DEF Good
  <2> QED
    BY <1>2, <2>1, FiledExact
<1>5. PICK bad, h : /\ bad = Filed(judged, FALSE) /\ bad \in Seq(J)
                    /\ Lists(h, judged, bad, Bad)
                    /\ IsFiniteSet(Bad) /\ Cardinality(Bad) = Len(bad)
  <2>1. Bad = {k \in DOMAIN judged : judged[k].reason = "none" <=> FALSE}
    BY <1>1
  <2> HIDE DEF Bad
  <2> QED
    BY <1>2, <2>1, FiledExact
<1>6. /\ DOMAIN good = 1..Len(good) /\ Len(good) \in Nat
      /\ DOMAIN bad = 1..Len(bad) /\ Len(bad) \in Nat
  <2>1. good \in Seq(J) /\ bad \in Seq(J)
    BY <1>4, <1>5
  <2> QED
    BY <2>1
<1>7. /\ DOMAIN cited = DOMAIN good
      /\ \A i \in DOMAIN good : cited[i] = Cite(good[i].raw, good[i].start, raw, docs)
  BY <1>4 DEF Cited
<1>8. \A i \in DOMAIN good : e[i] \in Good /\ e[i] \in N /\ good[i].raw = e[i]
  <2> TAKE i \in DOMAIN good
  <2>1. e[i] \in Good /\ good[i] = judged[e[i]]
    BY <1>4 DEF Lists
  <2>2. e[i] \in N
    BY <2>1
  <2> QED
    BY <1>1, <2>1, <2>2
<1>9. ASSUME NEW i \in DOMAIN good
      PROVE  /\ cited[i].raw = e[i] /\ cited[i].hash = raw[e[i]].hash
             /\ cited[i].claim = raw[e[i]].claim /\ Keyed(answer, cited[i])
  <2> DEFINE text == docs[raw[e[i]].hash].text
             slice == Slice(text, good[i].start, good[i].start + Len(Plain[raw[e[i]].quote]))
  <2>1. e[i] \in N /\ raw[e[i]] \in R /\ SoundItem(answer, raw[e[i]], docs)
    BY <1>1, <1>3, <1>8
  <2>2. text \in Seq(Chars)
    BY <2>1 DEF SoundItem, Citable
  <2> HIDE DEF slice
  <2>3. Len(Decode(text, slice)) \in Nat
    BY <2>2, DecodeType
  <2>4. cited[i] = [hash |-> raw[e[i]].hash, byte_start |-> slice[1], byte_end |-> slice[2],
                    quote |-> Decode(text, slice), claim |-> raw[e[i]].claim, raw |-> e[i]]
    BY <1>7, <1>8 DEF Cite, slice
  <2> HIDE DEF text
  <2>5. cited[i].quote = Decode(text, slice) /\ cited[i].raw = e[i]
        /\ cited[i].hash = raw[e[i]].hash /\ cited[i].claim = raw[e[i]].claim
    BY <2>4
  <2> QED
    BY <2>1, <2>3, <2>5 DEF Keyed, Citable
<1>10. PICK order : Orders(order, answer, cited, Len(good))
  <2>1. /\ Len(good) \in Nat /\ DOMAIN cited = 1..Len(good)
        /\ \A i \in 1..Len(good) : Keyed(answer, cited[i])
    BY <1>6, <1>7, <1>9
  <2> QED
    BY <2>1, SortedSorts
<1>11. /\ order \in [1..Len(good) -> 1..Len(good)]
       /\ \A i \in 1..Len(good) : \E j \in 1..Len(good) : order[j] = i
  BY <1>10 DEF Orders, Bijection, Injection, Surjection
<1> DEFINE Raws(list) == [n \in DOMAIN list |-> list[n].raw]
           valid == Raws(result.valid)
           rejected == Raws(result.rejected)
<1>12. /\ DOMAIN result.valid = 1..Len(good) /\ DOMAIN valid = 1..Len(good)
       /\ \A i \in 1..Len(good) : valid[i] = e[order[i]]
  <2>1. result.valid = Sorted(answer, cited) /\ DOMAIN result.valid = 1..Len(good)
    BY <1>10 DEF Orders
  <2>2. ASSUME NEW i \in 1..Len(good) PROVE result.valid[i].raw = e[order[i]]
    BY <1>6, <1>9, <1>10, <1>11, <2>1 DEF Orders
  <2>3. valid = [n \in 1..Len(good) |-> result.valid[n].raw]
    BY <2>1
  <2> HIDE DEF valid
  <2> QED
    BY <2>1, <2>2, <2>3
<1>13. /\ DOMAIN rejected = 1..Len(bad) /\ \A i \in 1..Len(bad) : rejected[i] = h[i]
  <2>1. result.rejected = bad
    BY <1>5 DEF Rejected
  <2>2. \A i \in DOMAIN bad : bad[i] = judged[h[i]] /\ h[i] \in N
    BY <1>5 DEF Lists
  <2>3. \A i \in DOMAIN bad : bad[i].raw = h[i]
    BY <1>1, <2>2
  <2>4. rejected = [n \in DOMAIN bad |-> bad[n].raw]
    BY <2>1
  <2> HIDE DEF rejected
  <2> QED
    BY <1>6, <2>3, <2>4
<1>14. Len(valid) = Len(good) /\ Len(rejected) = Len(bad)
  BY <1>6, <1>12, <1>13
<1> HIDE DEF valid, rejected
<1>15. Len(valid) + Len(rejected) = Len(raw)
  <2>1. Good \cup Bad = N /\ Good \cap Bad = {}
    OBVIOUS
  <2> HIDE DEF Good, Bad
  <2>2. Cardinality(N) = Len(raw) /\ Cardinality({}) = 0
    BY <1>1, Counted, FS_EmptySet
  <2>3. Cardinality(Good \cup Bad) =
           Cardinality(Good) + Cardinality(Bad) - Cardinality(Good \cap Bad)
    BY <1>4, <1>5, FS_Union
  <2>4. Len(raw) = Cardinality(Good) + Cardinality(Bad) - 0
    BY <2>1, <2>2, <2>3
  <2> QED
    BY <1>4, <1>5, <1>6, <1>14, <2>4
<1>16. {valid[n] : n \in DOMAIN valid} = {n \in N : SoundItem(answer, raw[n], docs)}
  <2>1. Good = {n \in N : SoundItem(answer, raw[n], docs)}
    BY <1>3
  <2>2. \A n \in DOMAIN valid : valid[n] \in Good
    BY <1>6, <1>8, <1>11, <1>12
  <2>3. \A k \in Good : \E n \in DOMAIN valid : valid[n] = k
    <3> TAKE k \in Good
    <3>1. PICK i \in DOMAIN good : e[i] = k
      BY <1>4 DEF Lists
    <3>2. PICK n \in 1..Len(good) : order[n] = i
      BY <1>6, <1>11
    <3> QED
      BY <1>12, <3>1, <3>2
  <2> HIDE DEF Good
  <2> QED
    BY <2>1, <2>2, <2>3
<1>17. {rejected[n] : n \in DOMAIN rejected} = {n \in N : ~SoundItem(answer, raw[n], docs)}
  <2>1. Bad = {n \in N : ~SoundItem(answer, raw[n], docs)}
    BY <1>3
  <2>2. \A n \in DOMAIN rejected : rejected[n] \in Bad
    BY <1>5, <1>6, <1>13 DEF Lists
  <2>3. \A k \in Bad : \E n \in DOMAIN rejected : rejected[n] = k
    <3> TAKE k \in Bad
    <3>1. PICK n \in DOMAIN bad : h[n] = k
      BY <1>5 DEF Lists
    <3> QED
      BY <1>6, <1>13, <3>1
  <2> HIDE DEF Bad
  <2> QED
    BY <2>1, <2>2, <2>3
<1>18. \A n \in DOMAIN rejected : \A m \in 1..(n - 1) : rejected[m] < rejected[n]
  <2> TAKE n \in DOMAIN rejected
  <2> TAKE m \in 1..(n - 1)
  <2>1. n \in DOMAIN bad /\ m \in DOMAIN bad /\ m < n
    BY <1>6, <1>13
  <2>2. h[m] < h[n]
    BY <1>5, <2>1 DEF Lists
  <2> QED
    BY <1>6, <1>13, <2>1, <2>2
<1>19. ASSUME NEW n \in DOMAIN valid, NEW m \in 1..(n - 1)
       PROVE  \/ answer[raw[valid[m]].claim] < answer[raw[valid[n]].claim]
              \/ /\ answer[raw[valid[m]].claim] = answer[raw[valid[n]].claim]
                 /\ raw[valid[m]].hash <= raw[valid[n]].hash
  <2>1. n \in 1..Len(good) /\ m \in 1..Len(good) /\ m < n
    BY <1>6, <1>12
  <2>2. NotAfter(answer, cited[order[m]], cited[order[n]])
    BY <1>10, <2>1 DEF Orders
  <2>3. order[m] \in DOMAIN good /\ order[n] \in DOMAIN good
    BY <1>6, <1>11, <2>1
  <2> QED
    BY <1>9, <1>12, <2>1, <2>2, <2>3 DEF NotAfter
<1> QED
  BY <1>15, <1>16, <1>17, <1>18, <1>19 DEF AllClassified, SoundItem, valid, rejected


CitationsInv == job = "cite" =>
    /\ in \in Validations
    /\ out.done =>
          LET judged == Judged(in.answer, in.raw, in.docs)
          IN  out.value = [valid |-> Sorted(in.answer, Cited(in.raw, in.docs, judged)),
                           rejected |-> Rejected(judged)]

LEMMA CitationsInvAlways == Spec => []CitationsInv
<1>1. Init => CitationsInv
  BY DEF Init, CitationsInv, Pending
<1>2. CitationsInv /\ [Next]_vars => CitationsInv'
  <2> SUFFICES ASSUME CitationsInv, [Next]_vars PROVE CitationsInv'
    OBVIOUS
  <2>1. CASE UNCHANGED <<job, in, out>>
    BY <2>1 DEF CitationsInv
  <2>2. CASE Validate
    BY <2>2 DEF CitationsInv, Validate, Return
  <2>3. CASE Route \/ Rerank
    BY <2>3 DEF CitationsInv, Route, Rerank
  <2> QED
    BY <2>1, <2>2, <2>3 DEF Next, ExtractStep, vars
<1> QED
  BY <1>1, <1>2, PTL DEF Spec

LEMMA BoundedSeqType ==
  ASSUME NEW S, NEW n, NEW s \in BoundedSeq(S, n)
  PROVE  s \in Seq(S) /\ Len(s) \in Nat
<1>1. s \in Seq(S)
  BY DEF BoundedSeq, SeqOf
<1> QED
  BY <1>1

LEMMA ValidationsCitable ==
  ASSUME NEW x \in Validations
  PROVE  \E R : x.raw \in Seq(R) /\ Citable(R, x.answer, x.docs)
<1>1. \A t \in Texts : t \in Seq(Chars)
  <2> TAKE t \in Texts
  <2>1. t \in Seq(Alphabet)
    BY BoundedSeqType DEF Texts
  <2> QED
    BY <2>1, CitationAssumption
<1>2. CASE x \in OneCitation
  <2> DEFINE c == CHOOSE c \in Claims : TRUE
  <2>1. PICK text \in Texts, quote \in BoundedSeq(Alphabet, MaxQuoted) :
           x = [answer |-> [d \in Claims |-> 0],
                raw |-> <<[hash |-> 1, quote |-> quote, claim |-> c]>>,
                docs |-> <<Document(text, <<>>)>>]
    BY <1>2 DEF OneCitation
  <2>2. c \in Claims
    BY GroundingAssumption
  <2> HIDE DEF c
  <2> DEFINE item == [hash |-> 1, quote |-> quote, claim |-> c]
             R == {item}
  <2>3. item.hash = 1 /\ item.quote = quote /\ item.claim = c
    OBVIOUS
  <2> HIDE DEF item
  <2>4. x.answer[c] = 0 /\ x.raw = <<item>> /\ x.docs = <<Document(text, <<>>)>>
    BY <2>1, <2>2 DEF item
  <2>5. x.raw \in Seq(R)
    BY <2>4
  <2>6. x.docs[1].text \in Seq(Chars)
    BY <1>1, <2>4 DEF Document
  <2>7. Len(quote) \in Int
    BY BoundedSeqType
  <2>8. Citable(R, x.answer, x.docs)
    BY <2>3, <2>4, <2>6, <2>7 DEF Citable
  <2> QED
    BY <2>5, <2>8
<1>3. CASE x \in TwoCitations
  <2> DEFINE Quotes == {<<"a">>, <<"A", "a">>, <<"a", "a", "a">>}
             R == [hash : 1..3, quote : Quotes, claim : Claims]
             Docs == {<<Document(<<"a", "A">>, <<>>), Document(<<"a", "a", "a">>, tags)>> :
                         tags \in {<<>>, <<"a">>}}
  <2>1. x \in [answer : [Claims -> -1..1], raw : [1..2 -> R], docs : Docs]
    BY <1>3 DEF TwoCitations
  <2>2. \A q \in Quotes : Len(q) \in Int
    OBVIOUS
  <2>3. ASSUME NEW d \in Docs, NEW n \in DOMAIN d PROVE d[n].text \in Seq(Chars)
    <3>1. <<"a", "A">> \in Seq(Chars) /\ <<"a", "a", "a">> \in Seq(Chars)
      BY DEF Chars
    <3>2. \A text, tags : Document(text, tags).text = text
      BY DEF Document
    <3>3. PICK tags \in {<<>>, <<"a">>} :
             d = <<Document(<<"a", "A">>, <<>>), Document(<<"a", "a", "a">>, tags)>>
      OBVIOUS
    <3>4. PICK one, two : one = Document(<<"a", "A">>, <<>>)
                          /\ two = Document(<<"a", "a", "a">>, tags)
      OBVIOUS
    <3>5. one.text \in Seq(Chars) /\ two.text \in Seq(Chars)
      BY <3>1, <3>2, <3>4
    <3>6. d = <<one, two>>
      BY <3>3, <3>4
    <3>7. d[n] = one \/ d[n] = two
      BY <3>6
    <3> QED
      BY <3>5, <3>7
  <2> HIDE DEF Quotes, Docs
  <2>4. x.raw \in Seq(R)
    <3> HIDE DEF R
    <3>1. x.raw \in [1..2 -> R]
      BY <2>1
    <3>2. PICK n \in Nat : n = 2
      OBVIOUS
    <3>3. x.raw = [i \in 1..n |-> x.raw[i]] /\ \A i \in 1..n : x.raw[i] \in R
      BY <3>1, <3>2
    <3> QED
      BY <3>3
  <2>5. Citable(R, x.answer, x.docs)
    BY <2>1, <2>2, <2>3 DEF Citable
  <2> QED
    BY <2>4, <2>5
<1> QED
  BY <1>2, <1>3 DEF Validations

(* Whatever the answer, the items and the documents: every item is either  *)
(* valid or rejected, once, for a defect it has, and the valid ones follow *)
(* the answer.                                                             *)
THEOREM CitationsCorrect == Spec => []CitationsClassified
<1>1. CitationsInv => CitationsClassified
  <2> SUFFICES ASSUME CitationsInv, job = "cite", out.done PROVE CitationsClassified
    BY DEF CitationsClassified, Returned
  <2>1. PICK R : in.raw \in Seq(R) /\ Citable(R, in.answer, in.docs)
    BY ValidationsCitable DEF CitationsInv
  <2>2. PICK judged : judged = Judged(in.answer, in.raw, in.docs)
    OBVIOUS
  <2>3. PICK cited : cited = Cited(in.raw, in.docs, judged)
    OBVIOUS
  <2>4. out.value = [valid |-> Sorted(in.answer, cited), rejected |-> Rejected(judged)]
    BY <2>2, <2>3 DEF CitationsInv
  <2>5. AllClassified(in.answer, in.raw, in.docs, out.value)
    BY <2>1, <2>2, <2>3, <2>4, Classified
  <2> QED
    BY <2>5 DEF CitationsClassified
<1> QED
  BY <1>1, CitationsInvAlways, PTL

-----------------------------------------------------------------------------
(* The canonical form of a URL                                             *)

LEMMA Throughout ==
  ASSUME NEW n \in Nat, NEW Z, 0 \in Z, \A k \in 1..n : k - 1 \in Z => k \in Z
  PROVE  \A k \in 0..n : k \in Z
<1> DEFINE K == [k \in 0..n |-> k]
<1>1. \A k \in 0..n : K[k] = k
  OBVIOUS
<1> HIDE DEF K
<1>2. K[0] \in Z /\ \A k \in 1..n : K[k - 1] \in Z => K[k] \in Z
  BY <1>1
<1>3. \A k \in 0..n : K[k] \in Z
  BY <1>2, Ranged
<1> QED
  BY <1>1, <1>3

(* A fold that leaves nothing out returns its list.                        *)
KeepsAll(a, D) == \A k \in 1..Len(a) : <<Prefix(a, k - 1), a[k]>> \notin D

LEMMA FoldKeepsAll ==
  ASSUME NEW R, NEW a \in Seq(R), NEW D, NEW G, G[{}] = <<>>,
         \A S \in SUBSET (1..Len(a)) :
            S # {} /\ G[S \ {Max(S)}] \in Seq(R) =>
               G[S] = IF <<G[S \ {Max(S)}], a[Max(S)]>> \in D
                      THEN G[S \ {Max(S)}] ELSE Append(G[S \ {Max(S)}], a[Max(S)])
  PROVE  /\ G[1..Len(a)] \in Seq(R)
         /\ \E e : Thins(e, a, G[1..Len(a)], D)
         /\ KeepsAll(a, D) => G[1..Len(a)] = a
<1>1. G[1..Len(a)] \in Seq(R) /\ \E e : Thins(e, a, G[1..Len(a)], D)
  BY FoldThins
<1>2. ASSUME KeepsAll(a, D) PROVE G[1..Len(a)] = a
  <2> DEFINE n == Len(a)
             Z == {k \in 0..n : G[1..k] = Prefix(a, k)}
  <2>1. n \in Nat /\ DOMAIN a = 1..n /\ a = [i \in 1..n |-> a[i]]
    OBVIOUS
  <2>2. 0 \in Z
    <3>1. 1..0 = {} /\ Prefix(a, 0) = <<>>
      BY DEF Prefix
    <3> QED
      BY <2>1, <3>1
  <2>3. ASSUME NEW k \in 1..n, k - 1 \in Z PROVE k \in Z
    <3>1. Max(1..k) = k /\ (1..k) \ {k} = 1..(k - 1) /\ 1..k # {} /\ 1..k \in SUBSET (1..n)
      BY <2>1, MaxUpTo
    <3>2. G[1..(k - 1)] = Prefix(a, k - 1) /\ k - 1 \in Nat
      BY <2>3
    <3>3. \A i \in 1..k : a[i] \in R
      BY <2>1
    <3>4. Prefix(a, k - 1) \in Seq(R)
      BY <3>2, <3>3 DEF Prefix
    <3>5. G[1..k] = Append(Prefix(a, k - 1), a[k])
      BY <1>2, <3>1, <3>2, <3>4 DEF KeepsAll
    <3>6. Append(Prefix(a, k - 1), a[k]) = Prefix(a, k)
      BY <3>2, <3>3 DEF Prefix
    <3>7. G[1..k] = Prefix(a, k)
      BY <3>5, <3>6
    <3> QED
      BY <3>7
  <2>4. n \in Z
    <3> HIDE DEF Z
    <3> QED
      BY <2>1, <2>2, <2>3, Throughout
  <2> QED
    BY <2>1, <2>4 DEF Prefix
<1> QED
  BY <1>1, <1>2

(* What canonicalize leaves out: slashes after slashes, and tracking.      *)
DoubleSlash(R) == {p \in Seq(R) \X R : p[2] = "/" /\ p[1] # <<>> /\ Last(p[1]) = "/"}
Tracking(R) == {p \in Seq(R) \X R : p[2] = 0}

LEMMA CollapsedThins ==
  ASSUME NEW R, NEW a \in Seq(R)
  PROVE  /\ Collapsed(a) \in Seq(R)
         /\ \E e : Thins(e, a, Collapsed(a), DoubleSlash(R))
         /\ KeepsAll(a, DoubleSlash(R)) => Collapsed(a) = a
<1> DEFINE Drop(kept, part) == part = "/" /\ kept # <<>> /\ Last(kept) = "/"
           next(g) == [S \in SUBSET DOMAIN a |->
                         IF S = {} THEN <<>>
                         ELSE IF Drop(g[S \ {Max(S)}], a[Max(S)])
                              THEN g[S \ {Max(S)}] ELSE Append(g[S \ {Max(S)}], a[Max(S)])]
<1>1. Collapsed(a) = (CHOOSE g : g = next(g))[DOMAIN a]
  BY DEF Collapsed, FoldLeft, MapThenFoldSet
<1>2. \A s \in Seq(R), x \in R : <<s, x>> \in DoubleSlash(R) <=> Drop(s, x)
  BY DEF DoubleSlash
<1> HIDE DEF Drop
<1>3. \E g : g = next(g)
  <2>1. PICK g \in [SUBSET (1..Len(a)) -> Seq(R)] : IsFilter(g, a, DoubleSlash(R))
    BY FilterIter
  <2>2. ASSUME NEW S \in SUBSET (1..Len(a))
        PROVE  g[S] = IF S = {} THEN <<>>
                      ELSE IF Drop(g[S \ {Max(S)}], a[Max(S)])
                           THEN g[S \ {Max(S)}] ELSE Append(g[S \ {Max(S)}], a[Max(S)])
    <3>1. CASE S = {}
      BY <2>1, <3>1 DEF IsFilter
    <3>2. CASE S # {}
      <4>1. a[Max(S)] \in R /\ S \ {Max(S)} \in SUBSET (1..Len(a))
        BY <3>2, MaxAt
      <4>2. g[S \ {Max(S)}] \in Seq(R)
        BY <4>1
      <4> QED
        BY <1>2, <2>1, <3>2, <4>1, <4>2 DEF IsFilter
    <3> QED
      BY <3>1, <3>2
  <2>3. DOMAIN a = 1..Len(a) /\ g = [S \in SUBSET (1..Len(a)) |-> g[S]]
    OBVIOUS
  <2>4. g = next(g)
    BY <2>2, <2>3
  <2> QED
    BY <2>4
<1> DEFINE G == CHOOSE g : g = next(g)
<1>4. G = next(G)
  BY <1>3
<1>5. Collapsed(a) = G[1..Len(a)]
  BY <1>1
<1> HIDE DEF G
<1>6. ASSUME NEW S \in SUBSET (1..Len(a))
      PROVE  G[S] = IF S = {} THEN <<>>
                    ELSE IF Drop(G[S \ {Max(S)}], a[Max(S)])
                         THEN G[S \ {Max(S)}] ELSE Append(G[S \ {Max(S)}], a[Max(S)])
  <2>1. next(G)[S] = IF S = {} THEN <<>>
                     ELSE IF Drop(G[S \ {Max(S)}], a[Max(S)])
                          THEN G[S \ {Max(S)}] ELSE Append(G[S \ {Max(S)}], a[Max(S)])
    <3>1. S \in SUBSET DOMAIN a
      OBVIOUS
    <3> QED
      BY <3>1
  <2> HIDE DEF next
  <2> QED
    BY <1>4, <2>1
<1> HIDE DEF next
<1>7. G[{}] = <<>>
  BY <1>6
<1>8. ASSUME NEW S \in SUBSET (1..Len(a)), S # {}, G[S \ {Max(S)}] \in Seq(R)
      PROVE  G[S] = IF <<G[S \ {Max(S)}], a[Max(S)]>> \in DoubleSlash(R)
                    THEN G[S \ {Max(S)}] ELSE Append(G[S \ {Max(S)}], a[Max(S)])
  <2>1. a[Max(S)] \in R
    BY <1>8, MaxAt
  <2> QED
    BY <1>2, <1>6, <1>8, <2>1
<1>9. /\ G[1..Len(a)] \in Seq(R)
      /\ \E e : Thins(e, a, G[1..Len(a)], DoubleSlash(R))
      /\ KeepsAll(a, DoubleSlash(R)) => G[1..Len(a)] = a
  BY <1>7, <1>8, FoldKeepsAll
<1> QED
  BY <1>5, <1>9

LEMMA UntrackedThins ==
  ASSUME NEW R, NEW a \in Seq(R)
  PROVE  /\ Untracked(a) \in Seq(R)
         /\ \E e : Thins(e, a, Untracked(a), Tracking(R))
         /\ KeepsAll(a, Tracking(R)) => Untracked(a) = a
<1> DEFINE Drop(kept, part) == part = 0
           next(g) == [S \in SUBSET DOMAIN a |->
                         IF S = {} THEN <<>>
                         ELSE IF Drop(g[S \ {Max(S)}], a[Max(S)])
                              THEN g[S \ {Max(S)}] ELSE Append(g[S \ {Max(S)}], a[Max(S)])]
<1>1. Untracked(a) = (CHOOSE g : g = next(g))[DOMAIN a]
  BY DEF Untracked, FoldLeft, MapThenFoldSet
<1>2. \A s \in Seq(R), x \in R : <<s, x>> \in Tracking(R) <=> Drop(s, x)
  BY DEF Tracking
<1> HIDE DEF Drop
<1>3. \E g : g = next(g)
  <2>1. PICK g \in [SUBSET (1..Len(a)) -> Seq(R)] : IsFilter(g, a, Tracking(R))
    BY FilterIter
  <2>2. ASSUME NEW S \in SUBSET (1..Len(a))
        PROVE  g[S] = IF S = {} THEN <<>>
                      ELSE IF Drop(g[S \ {Max(S)}], a[Max(S)])
                           THEN g[S \ {Max(S)}] ELSE Append(g[S \ {Max(S)}], a[Max(S)])
    <3>1. CASE S = {}
      BY <2>1, <3>1 DEF IsFilter
    <3>2. CASE S # {}
      <4>1. a[Max(S)] \in R /\ S \ {Max(S)} \in SUBSET (1..Len(a))
        BY <3>2, MaxAt
      <4>2. g[S \ {Max(S)}] \in Seq(R)
        BY <4>1
      <4> QED
        BY <1>2, <2>1, <3>2, <4>1, <4>2 DEF IsFilter
    <3> QED
      BY <3>1, <3>2
  <2>3. DOMAIN a = 1..Len(a) /\ g = [S \in SUBSET (1..Len(a)) |-> g[S]]
    OBVIOUS
  <2>4. g = next(g)
    BY <2>2, <2>3
  <2> QED
    BY <2>4
<1> DEFINE G == CHOOSE g : g = next(g)
<1>4. G = next(G)
  BY <1>3
<1>5. Untracked(a) = G[1..Len(a)]
  BY <1>1
<1> HIDE DEF G
<1>6. ASSUME NEW S \in SUBSET (1..Len(a))
      PROVE  G[S] = IF S = {} THEN <<>>
                    ELSE IF Drop(G[S \ {Max(S)}], a[Max(S)])
                         THEN G[S \ {Max(S)}] ELSE Append(G[S \ {Max(S)}], a[Max(S)])
  <2>1. next(G)[S] = IF S = {} THEN <<>>
                     ELSE IF Drop(G[S \ {Max(S)}], a[Max(S)])
                          THEN G[S \ {Max(S)}] ELSE Append(G[S \ {Max(S)}], a[Max(S)])
    <3>1. S \in SUBSET DOMAIN a
      OBVIOUS
    <3> QED
      BY <3>1
  <2> HIDE DEF next
  <2> QED
    BY <1>4, <2>1
<1> HIDE DEF next
<1>7. G[{}] = <<>>
  BY <1>6
<1>8. ASSUME NEW S \in SUBSET (1..Len(a)), S # {}, G[S \ {Max(S)}] \in Seq(R)
      PROVE  G[S] = IF <<G[S \ {Max(S)}], a[Max(S)]>> \in Tracking(R)
                    THEN G[S \ {Max(S)}] ELSE Append(G[S \ {Max(S)}], a[Max(S)])
  <2>1. a[Max(S)] \in R
    BY <1>8, MaxAt
  <2> QED
    BY <1>2, <1>6, <1>8, <2>1
<1>9. /\ G[1..Len(a)] \in Seq(R)
      /\ \E e : Thins(e, a, G[1..Len(a)], Tracking(R))
      /\ KeepsAll(a, Tracking(R)) => G[1..Len(a)] = a
  BY <1>7, <1>8, FoldKeepsAll
<1> QED
  BY <1>5, <1>9

(* A path with neither double nor trailing slashes.                        *)
Clean(path) ==
    /\ path # <<>>
    /\ \A i \in 2..Len(path) : ~(path[i] = "/" /\ path[i - 1] = "/")
    /\ Len(path) > 1 => path[Len(path)] # "/"

LEMMA CanonicalPathClean ==
  ASSUME NEW R, "/" \in R, NEW path \in Seq(R)
  PROVE  CanonicalPath(path) \in Seq(R) /\ Clean(CanonicalPath(path))
<1> DEFINE full == IF path = <<>> THEN <<"/">> ELSE path
           short == Collapsed(full)
<1>1. full \in Seq(R) /\ full # <<>>
  OBVIOUS
<1>2. CanonicalPath(path) =
        IF Len(short) > 1 /\ Last(short) = "/" THEN Front(short) ELSE short
  BY DEF CanonicalPath
<1> HIDE DEF full
<1>3. PICK e : short \in Seq(R) /\ Thins(e, full, short, DoubleSlash(R))
  BY <1>1, CollapsedThins
<1> HIDE DEF short
<1>4. DOMAIN short = 1..Len(short) /\ Len(short) \in Nat /\ Len(full) \in Nat \ {0}
      /\ DOMAIN full = 1..Len(full) /\ \A i \in 1..Len(short) : short[i] \in R
  BY <1>1, <1>3
<1>5. Len(short) > 0
  <2>1. 1 \in DOMAIN full
    BY <1>4
  <2>2. CASE \E i \in DOMAIN short : e[i] = 1
    BY <1>4, <2>2
  <2>3. CASE \E m \in 0..Len(short) : /\ \A i \in 1..m : e[i] < 1
                                      /\ <<Prefix(short, m), full[1]>> \in DoubleSlash(R)
    <3>1. PICK m \in 0..Len(short) : <<Prefix(short, m), full[1]>> \in DoubleSlash(R)
      BY <2>3
    <3>2. Prefix(short, m) # <<>>
      BY <3>1 DEF DoubleSlash
    <3>3. m # 0
      BY <3>2 DEF Prefix
    <3> QED
      BY <1>4, <3>3
  <2> QED
    BY <1>3, <2>1, <2>2, <2>3 DEF Thins
<1>6. ASSUME NEW i \in 2..Len(short), short[i] = "/", short[i - 1] = "/" PROVE FALSE
  <2>1. i \in DOMAIN short /\ i - 1 \in Nat \ {0} /\ \A j \in 1..(i - 1) : short[j] \in R
    BY <1>4
  <2>2. <<Prefix(short, i - 1), short[i]>> \notin DoubleSlash(R)
    BY <1>3, <2>1 DEF Thins
  <2>3. Prefix(short, i - 1) \in Seq(R) /\ Len(Prefix(short, i - 1)) = i - 1
        /\ Prefix(short, i - 1)[i - 1] = short[i - 1]
    BY <2>1 DEF Prefix
  <2>4. Prefix(short, i - 1) # <<>> /\ Last(Prefix(short, i - 1)) = "/"
    BY <1>6, <2>1, <2>3 DEF Last
  <2> QED
    BY <1>4, <1>6, <2>1, <2>2, <2>3, <2>4 DEF DoubleSlash
<1>7. CASE Len(short) > 1 /\ Last(short) = "/"
  <2>1. /\ Front(short) \in Seq(R) /\ Len(Front(short)) = Len(short) - 1
        /\ \A i \in 1..(Len(short) - 1) : Front(short)[i] = short[i]
    BY <1>3, <1>4, <1>7 DEF Front
  <2>2. short[Len(short)] = "/"
    BY <1>7 DEF Last
  <2>3. short[Len(short) - 1] # "/"
    BY <1>4, <1>6, <1>7, <2>2
  <2>4. Front(short) # <<>>
    BY <1>4, <1>7, <2>1
  <2>5. \A i \in 2..Len(Front(short)) : ~(Front(short)[i] = "/" /\ Front(short)[i - 1] = "/")
    BY <1>4, <1>6, <2>1
  <2>6. Len(Front(short)) > 1 => Front(short)[Len(Front(short))] # "/"
    BY <1>4, <1>7, <2>1, <2>3
  <2> QED
    BY <1>2, <1>7, <2>1, <2>4, <2>5, <2>6 DEF Clean
<1>8. CASE ~(Len(short) > 1 /\ Last(short) = "/")
  <2>1. short # <<>>
    BY <1>3, <1>5
  <2>2. Len(short) > 1 => short[Len(short)] # "/"
    BY <1>8 DEF Last
  <2> QED
    BY <1>2, <1>3, <1>6, <1>8, <2>1, <2>2 DEF Clean
<1> QED
  BY <1>7, <1>8

LEMMA CleanIsCanonical ==
  ASSUME NEW R, NEW path \in Seq(R), Clean(path)
  PROVE  CanonicalPath(path) = path
<1>1. path # <<>> /\ Len(path) \in Nat
  BY DEF Clean
<1>2. ASSUME NEW k \in 1..Len(path) PROVE <<Prefix(path, k - 1), path[k]>> \notin DoubleSlash(R)
  <2> SUFFICES ASSUME path[k] = "/", Prefix(path, k - 1) # <<>>, Last(Prefix(path, k - 1)) = "/"
               PROVE  FALSE
    BY DEF DoubleSlash
  <2>1. k # 1
    BY DEF Prefix
  <2>2. k - 1 \in Nat \ {0} /\ k \in 2..Len(path) /\ \A i \in 1..(k - 1) : path[i] \in R
    BY <1>1, <2>1
  <2>3. Len(Prefix(path, k - 1)) = k - 1 /\ Prefix(path, k - 1)[k - 1] = path[k - 1]
    <3>1. Prefix(path, k - 1) \in Seq(R)
      BY <2>2 DEF Prefix
    <3> QED
      BY <2>2, <3>1 DEF Prefix
  <2>4. path[k - 1] = "/"
    BY <2>3 DEF Last
  <2> QED
    BY <2>2, <2>4 DEF Clean
<1>3. Collapsed(path) = path
  BY <1>2, CollapsedThins DEF KeepsAll
<1>4. ~(Len(path) > 1 /\ Last(path) = "/")
  BY DEF Clean, Last
<1> QED
  BY <1>1, <1>3, <1>4 DEF CanonicalPath

(* An increasing map of 1..n to itself is the identity.                    *)
LEMMA IncreasingIsIdentity ==
  ASSUME NEW n \in Nat, NEW p \in [1..n -> 1..n],
         \A i, j \in 1..n : i < j => p[i] < p[j]
  PROVE  \A i \in 1..n : p[i] = i
<1>1. \A i \in 1..n : p[i] >= i
  <2> DEFINE Z == {k \in 0..n : k = 0 \/ p[k] >= k}
  <2>1. 0 \in Z
    OBVIOUS
  <2>2. ASSUME NEW k \in 1..n, k - 1 \in Z PROVE k \in Z
    <3>1. CASE k = 1
      <4>1. p[1] \in 1..n
        BY <3>1
      <4> QED
        BY <3>1, <4>1
    <3>2. CASE k # 1
      <4>1. k - 1 \in 1..n
        BY <3>2
      <4>2. p[k - 1] < p[k] /\ p[k - 1] >= k - 1 /\ p[k - 1] \in Int /\ p[k] \in Int
        BY <2>2, <4>1
      <4> QED
        BY <4>2
    <3> QED
      BY <3>1, <3>2
  <2> HIDE DEF Z
  <2>3. \A k \in 0..n : k \in Z
    BY <2>1, <2>2, Throughout
  <2> QED
    BY <2>3 DEF Z
<1>2. \A i \in 1..n : p[i] <= i
  <2> DEFINE Z == {k \in 0..n : k = n \/ p[n - k] <= n - k}
  <2>1. 0 \in Z
    <3>1. CASE n = 0
      BY <3>1
    <3>2. CASE n # 0
      <4>1. n \in 1..n /\ n - 0 = n
        BY <3>2
      <4>2. p[n] \in 1..n
        BY <4>1
      <4> QED
        BY <4>1, <4>2
    <3> QED
      BY <3>1, <3>2
  <2>2. ASSUME NEW k \in 1..n, k - 1 \in Z PROVE k \in Z
    <3>1. CASE k = n
      BY <3>1
    <3>2. CASE k # n
      <4>1. n - k \in 1..n /\ n - (k - 1) \in 1..n /\ n - k < n - (k - 1)
        BY <3>2
      <4>2. /\ p[n - k] < p[n - (k - 1)] /\ p[n - (k - 1)] <= n - (k - 1)
            /\ p[n - k] \in Int /\ p[n - (k - 1)] \in Int
        BY <2>2, <4>1
      <4> QED
        BY <4>1, <4>2
    <3> QED
      BY <3>1, <3>2
  <2> HIDE DEF Z
  <2>3. \A k \in 0..n : k \in Z
    BY <2>1, <2>2, Throughout
  <2>4. ASSUME NEW i \in 1..n PROVE p[i] <= i
    <3>1. n - i \in 0..n /\ n - i # n /\ n - (n - i) = i
      OBVIOUS
    <3> QED
      BY <2>3, <3>1 DEF Z
  <2> QED
    BY <2>4
<1>3. \A i \in 1..n : p[i] \in Int
  OBVIOUS
<1> QED
  BY <1>1, <1>2, <1>3

(* A query without tracking parameters, in order.                          *)
Tidy(query) ==
    /\ \A i \in DOMAIN query : query[i] # 0
    /\ \A i, j \in DOMAIN query : i < j => query[i] <= query[j]

LEMMA CanonicalQueryTidy ==
  ASSUME NEW query \in Seq(Int)
  PROVE  /\ CanonicalQuery(query) \in Seq(Int) /\ Tidy(CanonicalQuery(query))
         /\ Tidy(query) => CanonicalQuery(query) = query
<1>1. PICK kept : kept = Untracked(query)
  OBVIOUS
<1>2. PICK e : /\ kept \in Seq(Int) /\ Thins(e, query, kept, Tracking(Int))
               /\ KeepsAll(query, Tracking(Int)) => kept = query
  BY <1>1, UntrackedThins
<1>3. PICK n \in Nat : n = Len(kept)
  BY <1>2
<1> DEFINE S == 1..n
<1>4. DOMAIN kept = S /\ kept = [i \in S |-> kept[i]] /\ \A i \in S : kept[i] \in Int /\ i \in Int
  BY <1>2, <1>3
<1>5. \A i \in S : kept[i] # 0
  <2> TAKE i \in S
  <2>1. <<Prefix(kept, i - 1), kept[i]>> \notin Tracking(Int)
    BY <1>2, <1>4 DEF Thins
  <2>2. i - 1 \in Nat /\ \A j \in 1..(i - 1) : kept[j] \in Int
    BY <1>4
  <2>3. Prefix(kept, i - 1) \in Seq(Int)
    BY <2>2 DEF Prefix
  <2> QED
    BY <1>4, <2>1, <2>3 DEF Tracking
<1> DEFINE before(i, j) == kept[i] < kept[j] \/ (kept[i] = kept[j] /\ i < j)
           B == {b \in S \X S : before(b[1], b[2])}
           sorted(p) == \A i, j \in DOMAIN kept : i < j => before(p[i], p[j])
           order == CHOOSE p \in Bijection(DOMAIN kept, DOMAIN kept) : sorted(p)
<1>6. CanonicalQuery(query) = [i \in DOMAIN kept |-> kept[order[i]]]
  BY <1>1 DEF CanonicalQuery
<1>7. \A i, j \in S : <<i, j>> \in B <=> before(i, j)
  OBVIOUS
<1>8. /\ \A i \in S : <<i, i>> \notin B
      /\ \A i, j \in S : i # j => <<i, j>> \in B \/ <<j, i>> \in B
      /\ \A i, j, k \in S : <<i, j>> \in B /\ <<j, k>> \in B => <<i, k>> \in B
  <2> HIDE DEF B, S
  <2>1. \A i \in S : <<i, i>> \notin B
    BY <1>4, <1>7
  <2>2. \A i, j \in S : i # j => <<i, j>> \in B \/ <<j, i>> \in B
    <3> TAKE i, j \in S
    <3> HAVE i # j
    <3>1. kept[i] \in Int /\ kept[j] \in Int /\ i \in Int /\ j \in Int
      BY <1>4
    <3>2. before(i, j) \/ before(j, i)
      BY <3>1
    <3> QED
      BY <1>7, <3>2
  <2>3. ASSUME NEW i \in S, NEW j \in S, NEW k \in S, <<i, j>> \in B, <<j, k>> \in B
        PROVE  <<i, k>> \in B
    <3>1. before(i, j) /\ before(j, k)
      BY <1>7, <2>3
    <3>2. /\ kept[i] \in Int /\ kept[j] \in Int /\ kept[k] \in Int
          /\ i \in Int /\ j \in Int /\ k \in Int
      BY <1>4
    <3>3. before(i, k)
      BY <3>1, <3>2
    <3> QED
      BY <1>7, <3>3
  <2> QED
    BY <2>1, <2>2, <2>3
<1> HIDE DEF B
<1>9. PICK p \in Bijection(S, S) : \A i, j \in S : i < j => <<p[i], p[j]>> \in B
  BY <1>8, SortExists
<1>10. sorted(p)
  <2>1. p \in [S -> S]
    BY DEF Bijection, Injection
  <2> QED
    BY <1>4, <1>7, <1>9, <2>1
<1> HIDE DEF sorted
<1>11. order \in Bijection(S, S) /\ sorted(order)
  BY <1>4, <1>10
<1>12. PICK o : o = order
  OBVIOUS
<1> HIDE DEF order
<1>13. o \in [S -> S] /\ \A i, j \in S : i < j => before(o[i], o[j])
  BY <1>4, <1>11, <1>12 DEF sorted, Bijection, Injection
<1>14. PICK q : q = CanonicalQuery(query)
  OBVIOUS
<1>15. DOMAIN q = S /\ q = [i \in S |-> q[i]] /\ \A i \in S : q[i] = kept[o[i]]
  BY <1>4, <1>6, <1>12, <1>14
<1>16. q \in Seq(Int)
  <2>1. \A i \in S : q[i] \in Int
    BY <1>4, <1>13, <1>15
  <2> QED
    BY <1>15, <2>1
<1>17. Tidy(q)
  <2>1. \A i \in S : q[i] # 0
    BY <1>5, <1>13, <1>15
  <2>2. \A i, j \in S : i < j => q[i] <= q[j]
    <3> TAKE i, j \in S
    <3> HAVE i < j
    <3>1. o[i] \in S /\ o[j] \in S /\ before(o[i], o[j])
      BY <1>13
    <3>2. kept[o[i]] \in Int /\ kept[o[j]] \in Int
      BY <1>4, <3>1
    <3> QED
      BY <1>15, <3>1, <3>2
  <2> QED
    BY <1>15, <2>1, <2>2 DEF Tidy
<1>18. ASSUME Tidy(query) PROVE q = query
  <2>1. KeepsAll(query, Tracking(Int))
    BY <1>18 DEF KeepsAll, Tidy, Tracking
  <2>2. kept = query
    BY <1>2, <2>1
  <2>3. \A i, j \in S : i < j => o[i] < o[j]
    <3> TAKE i, j \in S
    <3> HAVE i < j
    <3>1. o[i] \in S /\ o[j] \in S /\ before(o[i], o[j])
      BY <1>13
    <3>2. o[i] \in Int /\ o[j] \in Int /\ kept[o[i]] \in Int /\ kept[o[j]] \in Int
      BY <1>4, <3>1
    <3>3. ~(o[i] < o[j]) => o[j] < o[i] \/ o[i] = o[j]
      BY <3>2
    <3>4. o[j] < o[i] => kept[o[j]] <= kept[o[i]]
      BY <1>4, <1>18, <2>2, <3>1 DEF Tidy
    <3> QED
      BY <3>1, <3>2, <3>3, <3>4
  <2>4. \A i \in S : o[i] = i
    BY <1>13, <2>3, IncreasingIsIdentity
  <2>5. \A i \in S : q[i] = kept[i]
    BY <1>15, <2>4
  <2> QED
    BY <1>4, <1>15, <2>2, <2>5
<1> QED
  BY <1>14, <1>16, <1>17, <1>18

(* URLs as far as canonicalize looks at them.                              *)
Address(R, url) == "/" \in R /\ url.path \in Seq(R) /\ url.query \in Seq(Int)

(* A canonical URL is its own canonical form.                              *)
LEMMA CanonicalOnce ==
  ASSUME NEW R, NEW url, Address(R, url)
  PROVE  Canonical(Canonical(url)) = Canonical(url)
<1>1. CASE url.scheme \notin {"http", "https"}
  <2>1. Canonical(url) = Unusable /\ Unusable.scheme = "none"
    BY <1>1 DEF Canonical, Unusable
  <2>2. Unusable.scheme \notin {"http", "https"}
    BY <2>1
  <2> QED
    BY <2>1, <2>2 DEF Canonical
<1>2. CASE url.scheme \in {"http", "https"}
  <2>1. PICK path, query : path = CanonicalPath(url.path) /\ query = CanonicalQuery(url.query)
    OBVIOUS
  <2>2. path \in Seq(R) /\ Clean(path) /\ query \in Seq(Int) /\ Tidy(query)
    BY <2>1, CanonicalPathClean, CanonicalQueryTidy DEF Address
  <2>3. CanonicalPath(path) = path /\ CanonicalQuery(query) = query
    BY <2>2, CleanIsCanonical, CanonicalQueryTidy
  <2>4. PICK port : port = IF url.port = DefaultPort(url.scheme) THEN 0 ELSE url.port
    OBVIOUS
  <2>5. (IF port = DefaultPort(url.scheme) THEN 0 ELSE port) = port
    BY <1>2, <2>4 DEF DefaultPort
  <2>6. PICK u : u = Canonical(url)
    OBVIOUS
  <2>7. u = [scheme |-> url.scheme, port |-> port, path |-> path, query |-> query]
    BY <1>2, <2>1, <2>4, <2>6 DEF Canonical
  <2>8. u.scheme = url.scheme /\ u.port = port /\ u.path = path /\ u.query = query
    BY <2>7
  <2>9. Canonical(u) = [scheme |-> url.scheme, port |-> port, path |-> path, query |-> query]
    BY <1>2, <2>3, <2>5, <2>8 DEF Canonical
  <2> QED
    BY <2>6, <2>7, <2>9
<1> QED
  BY <1>1, <1>2

-----------------------------------------------------------------------------
(* The lists of a search                                                   *)

(* K[k] is what a fold with the function f has made of the first k         *)
(* elements of s.                                                          *)
Runs(K, T, f, base, s) ==
    /\ K[0] = base /\ \A k \in 0..Len(s) : K[k] \in T
    /\ \A k \in 1..Len(s) : K[k] = f[<<K[k - 1], s[k]>>]

RunsOnSets(G, T, f, base, s) ==
    /\ G[{}] = base
    /\ \A S \in SUBSET (1..Len(s)) :
          S # {} /\ G[S \ {Max(S)}] \in T => G[S] = f[<<G[S \ {Max(S)}], s[Max(S)]>>]

Foldable(T, R, f, base, s) == base \in T /\ f \in [T \X R -> T] /\ s \in Seq(R)

LEMMA FoldRuns ==
  ASSUME NEW T, NEW R, NEW f, NEW base, NEW s, Foldable(T, R, f, base, s),
         NEW G, RunsOnSets(G, T, f, base, s)
  PROVE  \E K : Runs(K, T, f, base, s) /\ K[Len(s)] = G[1..Len(s)]
<1> DEFINE n == Len(s)
           K == [k \in 0..n |-> G[1..k]]
<1>1. n \in Nat /\ \A k \in 0..n : K[k] = G[1..k]
  BY DEF Foldable
<1> USE DEF Foldable
<1>2. K[0] = base
  <2>1. 1..0 = {}
    OBVIOUS
  <2> QED
    BY <1>1, <2>1 DEF RunsOnSets
<1> HIDE DEF n, K
<1>3. ASSUME NEW k \in 1..n, K[k - 1] \in T
      PROVE  K[k] = f[<<K[k - 1], s[k]>>] /\ K[k] \in T
  <2>1. Max(1..k) = k /\ (1..k) \ {k} = 1..(k - 1) /\ 1..k # {} /\ 1..k \in SUBSET (1..n)
    BY <1>1, MaxUpTo
  <2>2. K[k] = G[1..k] /\ K[k - 1] = G[1..(k - 1)]
    BY <1>1
  <2>3. K[k] = f[<<K[k - 1], s[k]>>]
    BY <1>3, <2>1, <2>2 DEF n, RunsOnSets
  <2>4. s[k] \in R
    BY DEF n
  <2> QED
    BY <1>3, <2>3, <2>4
<1>4. \A k \in 0..n : K[k] \in T
  <2>1. K[0] \in T
    BY <1>2
  <2> QED
    BY <1>1, <1>3, <2>1, Ranged
<1>5. \A k \in 1..n : K[k] = f[<<K[k - 1], s[k]>>]
  <2> TAKE k \in 1..n
  <2>1. k - 1 \in 0..n
    BY <1>1
  <2> QED
    BY <1>3, <1>4, <2>1
<1>6. Runs(K, T, f, base, s) /\ K[Len(s)] = G[1..Len(s)]
  BY <1>1, <1>2, <1>4, <1>5 DEF Runs, n
<1> QED
  BY <1>6

RowsOn(U) == [url : U, rank : Nat, provider : {"brave", "searxng"}, from : Nat]
RowOf(url, rank, provider, from) ==
    [url |-> url, rank |-> rank, provider |-> provider, from |-> from]

(* The items of a provider, with canonical forms in U.                     *)
Items(U, items, n) ==
    DOMAIN items = 1..n /\ \A m \in 1..n : Canonical(items[m].url) \in U

LeavesOut(done, items, m, engines) ==
    \/ Canonical(items[m].url) = Unusable
    \/ \E i \in DOMAIN done : done[i].url = Canonical(items[m].url)
    \/ items[m].engine \notin engines

(* K[k] is what the first k items make.                                    *)
ParsedBy(K, U, provider, items, n, engines) ==
    /\ K[0] = <<>> /\ \A k \in 0..n : K[k] \in Seq(RowsOn(U))
    /\ \A k \in 1..n :
          K[k] = IF LeavesOut(K[k - 1], items, k, engines) THEN K[k - 1]
                 ELSE Append(K[k - 1],
                             RowOf(Canonical(items[k].url), Len(K[k - 1]), provider, k))

LEMMA ParsedRuns ==
  ASSUME NEW U, NEW n \in Nat, NEW items, Items(U, items, n),
         NEW provider \in {"brave", "searxng"}, NEW engines
  PROVE  \E K : /\ ParsedBy(K, U, provider, items, n, engines)
                /\ K[n] = Parsed(provider, items, engines)
<1> DEFINE T == Seq(RowsOn(U))
           R == 1..n
           s == [i \in DOMAIN items |-> i]
           Op(done, m) == LET url == Canonical(items[m].url)
                          IN  IF \/ url = Unusable
                                 \/ \E i \in DOMAIN done : done[i].url = url
                                 \/ items[m].engine \notin engines
                              THEN done
                              ELSE Append(done, [url |-> url, rank |-> Len(done),
                                                 provider |-> provider, from |-> m])
           f == [p \in T \X R |-> Op(p[1], p[2])]
           next(g) == [S \in SUBSET DOMAIN s |->
                         IF S = {} THEN <<>> ELSE Op(g[S \ {Max(S)}], s[Max(S)])]
<1>1. Parsed(provider, items, engines) = (CHOOSE g : g = next(g))[DOMAIN s]
  BY DEF Parsed, FoldLeftDomain, FoldLeft, MapThenFoldSet
<1>2. ASSUME NEW done \in T, NEW m \in R
      PROVE  /\ Op(done, m) \in T
             /\ Op(done, m) = IF LeavesOut(done, items, m, engines) THEN done
                              ELSE Append(done,
                                          RowOf(Canonical(items[m].url), Len(done), provider, m))
  <2>1. RowOf(Canonical(items[m].url), Len(done), provider, m) \in RowsOn(U)
    BY DEF RowOf, RowsOn, Items
  <2>2. Op(done, m) = IF LeavesOut(done, items, m, engines) THEN done
                      ELSE Append(done, RowOf(Canonical(items[m].url), Len(done), provider, m))
    BY DEF LeavesOut, RowOf
  <2> HIDE DEF Op
  <2> QED
    BY <2>1, <2>2
<1> HIDE DEF Op
<1>3. f \in [T \X R -> T] /\ <<>> \in T /\ \A done \in T, m \in R : f[<<done, m>>] = Op(done, m)
  <2>1. \A p \in T \X R : p[1] \in T /\ p[2] \in R
    OBVIOUS
  <2>2. \A p \in T \X R : Op(p[1], p[2]) \in T
    BY <1>2, <2>1
  <2>3. \A done \in T, m \in R : <<done, m>> \in T \X R /\ f[<<done, m>>] = Op(done, m)
    OBVIOUS
  <2> QED
    BY <2>2, <2>3
<1>4. s \in Seq(R) /\ Len(s) = n /\ DOMAIN s = 1..n /\ \A m \in R : s[m] = m
  BY DEF Items
<1> HIDE DEF f, s, T, R
<1>5. \E g : g = next(g)
  <2>1. PICK g \in [SUBSET (1..Len(s)) -> T] : IsIter(g, f, <<>>, s, Len(s))
    BY <1>3, <1>4, IterExists
  <2>2. ASSUME NEW S \in SUBSET (1..n)
        PROVE  g[S] = IF S = {} THEN <<>> ELSE Op(g[S \ {Max(S)}], s[Max(S)])
    <3>1. CASE S = {}
      BY <1>4, <2>1, <3>1 DEF IsIter
    <3>2. CASE S # {}
      <4>1. s[Max(S)] \in R /\ S \ {Max(S)} \in SUBSET (1..n)
        BY <1>4, <3>2, MaxAt
      <4>2. g[S \ {Max(S)}] \in T
        BY <1>4, <2>1, <4>1
      <4> QED
        BY <1>3, <1>4, <2>1, <3>2, <4>1, <4>2 DEF IsIter
    <3> QED
      BY <3>1, <3>2
  <2>3. g = [S \in SUBSET (1..n) |-> g[S]]
    BY <1>4, <2>1
  <2>4. g = next(g)
    BY <1>4, <2>2, <2>3
  <2> QED
    BY <2>4
<1> DEFINE G == CHOOSE g : g = next(g)
<1>6. G = next(G)
  BY <1>5
<1>7. Parsed(provider, items, engines) = G[1..n]
  BY <1>1, <1>4
<1> HIDE DEF G
<1>8. ASSUME NEW S \in SUBSET (1..n)
      PROVE  G[S] = IF S = {} THEN <<>> ELSE Op(G[S \ {Max(S)}], s[Max(S)])
  <2>1. next(G)[S] = IF S = {} THEN <<>> ELSE Op(G[S \ {Max(S)}], s[Max(S)])
    BY <1>4
  <2> HIDE DEF next
  <2> QED
    BY <1>6, <2>1
<1> HIDE DEF next
<1>9. G[{}] = <<>>
  BY <1>8
<1>10. ASSUME NEW S \in SUBSET (1..Len(s)), S # {}, G[S \ {Max(S)}] \in T
       PROVE  G[S] = f[<<G[S \ {Max(S)}], s[Max(S)]>>]
  <2>1. s[Max(S)] \in R
    BY <1>4, <1>10, MaxAt
  <2> QED
    BY <1>3, <1>4, <1>8, <1>10, <2>1
<1>11. PICK K : Runs(K, T, f, <<>>, s) /\ K[Len(s)] = G[1..Len(s)]
  <2>1. PICK base : base = <<>>
    OBVIOUS
  <2>2. RunsOnSets(G, T, f, base, s)
    BY <1>9, <1>10, <2>1 DEF RunsOnSets
  <2>3. \E K : Runs(K, T, f, base, s) /\ K[Len(s)] = G[1..Len(s)]
    <3>1. Foldable(T, R, f, base, s)
      BY <1>3, <1>4, <2>1 DEF Foldable
    <3> QED
      BY <2>2, <3>1, FoldRuns
  <2> QED
    BY <2>1, <2>3
<1>12. ASSUME NEW k \in 1..n
       PROVE  K[k] = IF LeavesOut(K[k - 1], items, k, engines) THEN K[k - 1]
                     ELSE Append(K[k - 1],
                                 RowOf(Canonical(items[k].url), Len(K[k - 1]), provider, k))
  <2>1. k \in R /\ k - 1 \in 0..n
    BY DEF R
  <2>2. K[k - 1] \in T /\ K[k] = f[<<K[k - 1], s[k]>>] /\ s[k] = k
    BY <1>4, <1>11, <2>1 DEF Runs
  <2> QED
    BY <1>2, <1>3, <2>1, <2>2
<1>13. ParsedBy(K, U, provider, items, n, engines)
  BY <1>4, <1>11, <1>12 DEF ParsedBy, Runs, T
<1> QED
  BY <1>4, <1>7, <1>11, <1>13

(* The items a list takes, and the list of the first k of them: in their   *)
(* order, ranked, and once each page.                                      *)
Taken(items, engines, m) ==
    Canonical(items[m].url) # Unusable /\ items[m].engine \in engines

ParsedUpTo(rows, items, provider, engines, k) ==
    /\ \A i \in DOMAIN rows :
          /\ rows[i].rank = i - 1 /\ rows[i].provider = provider /\ rows[i].from \in 1..k
          /\ Taken(items, engines, rows[i].from)
          /\ rows[i].url = Canonical(items[rows[i].from].url)
    /\ \A i, j \in DOMAIN rows :
          j < i => rows[j].from < rows[i].from /\ rows[j].url # rows[i].url
    /\ \A m \in 1..k : Taken(items, engines, m) =>
          \E i \in DOMAIN rows : rows[i].url = Canonical(items[m].url)

LEMMA ParsedStep ==
  ASSUME NEW R, NEW old \in Seq(R), NEW items, NEW provider, NEW engines, NEW k \in Nat \ {0},
         ParsedUpTo(old, items, provider, engines, k - 1),
         NEW row, row = RowOf(Canonical(items[k].url), Len(old), provider, k), row \in R
  PROVE  ParsedUpTo(IF LeavesOut(old, items, k, engines) THEN old ELSE Append(old, row),
                    items, provider, engines, k)
<1>1. /\ Len(old) \in Nat /\ DOMAIN old = 1..Len(old)
      /\ \A i \in 1..(k - 1) : i \in 1..k /\ i < k
  OBVIOUS
<1>2. CASE LeavesOut(old, items, k, engines)
  <2>1. Taken(items, engines, k) =>
           \E i \in DOMAIN old : old[i].url = Canonical(items[k].url)
    BY <1>2 DEF LeavesOut, Taken
  <2>2. \A m \in 1..k : m = k \/ m \in 1..(k - 1)
    OBVIOUS
  <2> QED
    BY <1>1, <1>2, <2>1, <2>2 DEF ParsedUpTo
<1>3. CASE ~LeavesOut(old, items, k, engines)
  <2>1. PICK new : new = Append(old, row)
    OBVIOUS
  <2>2. /\ new \in Seq(R) /\ Len(new) = Len(old) + 1 /\ new[Len(old) + 1] = row
        /\ \A i \in 1..Len(old) : new[i] = old[i]
    BY <2>1, PrefixAppend
  <2>3. DOMAIN new = 1..(Len(old) + 1) /\ \A i \in DOMAIN new : i \in DOMAIN old \/ i = Len(old) + 1
    BY <1>1, <2>2
  <2>4. /\ row.url = Canonical(items[k].url) /\ row.rank = Len(old)
        /\ row.provider = provider /\ row.from = k
    BY DEF RowOf
  <2>5. Taken(items, engines, k) /\ \A i \in DOMAIN old : old[i].url # Canonical(items[k].url)
    BY <1>3 DEF LeavesOut, Taken
  <2>6. ASSUME NEW i \in DOMAIN new
        PROVE  /\ new[i].rank = i - 1 /\ new[i].provider = provider /\ new[i].from \in 1..k
               /\ Taken(items, engines, new[i].from)
               /\ new[i].url = Canonical(items[new[i].from].url)
    <3>1. CASE i \in DOMAIN old
      BY <1>1, <2>2, <3>1 DEF ParsedUpTo
    <3>2. CASE i = Len(old) + 1
      BY <1>1, <2>2, <2>4, <2>5, <3>2
    <3> QED
      BY <2>3, <3>1, <3>2
  <2>7. ASSUME NEW i \in DOMAIN new, NEW j \in DOMAIN new, j < i
        PROVE  new[j].from < new[i].from /\ new[j].url # new[i].url
    <3>1. j \in DOMAIN old
      BY <1>1, <2>3, <2>7
    <3>2. CASE i \in DOMAIN old
      BY <1>1, <2>2, <2>7, <3>1, <3>2 DEF ParsedUpTo
    <3>3. CASE i = Len(old) + 1
      BY <1>1, <2>2, <2>4, <2>5, <3>1, <3>3 DEF ParsedUpTo
    <3> QED
      BY <2>3, <3>2, <3>3
  <2>8. ASSUME NEW m \in 1..k, Taken(items, engines, m)
        PROVE  \E i \in DOMAIN new : new[i].url = Canonical(items[m].url)
    <3>1. CASE m = k
      BY <1>1, <2>2, <2>3, <2>4, <3>1
    <3>2. CASE m # k
      <4>1. m \in 1..(k - 1)
        BY <3>2
      <4>2. PICK i \in DOMAIN old : old[i].url = Canonical(items[m].url)
        BY <2>8, <4>1 DEF ParsedUpTo
      <4> QED
        BY <1>1, <2>2, <2>3, <4>2
    <3> QED
      BY <3>1, <3>2
  <2>9. ParsedUpTo(new, items, provider, engines, k)
    BY <2>6, <2>7, <2>8 DEF ParsedUpTo
  <2> QED
    BY <1>3, <2>1, <2>9
<1> QED
  BY <1>2, <1>3

LEMMA ParsedList ==
  ASSUME NEW U, NEW n \in Nat, NEW items, Items(U, items, n),
         NEW provider \in {"brave", "searxng"}, NEW engines
  PROVE  /\ Parsed(provider, items, engines) \in Seq(RowsOn(U))
         /\ ParsedUpTo(Parsed(provider, items, engines), items, provider, engines, n)
<1>1. PICK K : /\ ParsedBy(K, U, provider, items, n, engines)
               /\ K[n] = Parsed(provider, items, engines)
  BY ParsedRuns
<1> DEFINE Z == {k \in 0..n : ParsedUpTo(K[k], items, provider, engines, k)}
<1>2. 0 \in Z
  <2>1. K[0] = <<>>
    BY <1>1 DEF ParsedBy
  <2> QED
    BY <2>1 DEF ParsedUpTo
<1>3. ASSUME NEW k \in 1..n, k - 1 \in Z PROVE k \in Z
  <2>1. PICK old, row : /\ old = K[k - 1]
                        /\ row = RowOf(Canonical(items[k].url), Len(old), provider, k)
    OBVIOUS
  <2>2. k - 1 \in 0..n /\ k \in Nat \ {0}
    OBVIOUS
  <2>3. old \in Seq(RowsOn(U))
    BY <1>1, <2>1, <2>2 DEF ParsedBy
  <2>4. row \in RowsOn(U)
    <3>1. Len(old) \in Nat /\ Canonical(items[k].url) \in U
      BY <2>3 DEF Items
    <3> QED
      BY <2>1, <3>1 DEF RowOf, RowsOn
  <2>5. ParsedUpTo(old, items, provider, engines, k - 1)
    BY <1>3, <2>1
  <2>6. ParsedUpTo(IF LeavesOut(old, items, k, engines) THEN old ELSE Append(old, row),
                   items, provider, engines, k)
    BY <2>1, <2>2, <2>3, <2>4, <2>5, ParsedStep
  <2>7. K[k] = IF LeavesOut(old, items, k, engines) THEN old ELSE Append(old, row)
    BY <1>1, <2>1 DEF ParsedBy
  <2> QED
    BY <2>6, <2>7
<1>4. n \in Z
  <2> HIDE DEF Z
  <2> QED
    BY <1>2, <1>3, Throughout
<1>5. K[n] \in Seq(RowsOn(U))
  BY <1>1 DEF ParsedBy
<1> QED
  BY <1>1, <1>4, <1>5

(* A result with its rank in the merged list.                              *)
Moved(row, rank) == [row EXCEPT !.rank = rank]

LEMMA MovedRow ==
  ASSUME NEW U, NEW row \in RowsOn(U), NEW rank
  PROVE  /\ rank \in Nat => Moved(row, rank) \in RowsOn(U)
         /\ Moved(row, rank).rank = rank
         /\ Moved(row, rank).url = row.url /\ Moved(row, rank).from = row.from
         /\ Moved(row, rank).provider = row.provider
<1>1. /\ row = [url |-> row.url, rank |-> row.rank,
                provider |-> row.provider, from |-> row.from]
      /\ row.url \in U /\ row.provider \in {"brave", "searxng"} /\ row.from \in Nat
  BY DEF RowsOn
<1>2. Moved(row, rank) = [url |-> row.url, rank |-> rank,
                          provider |-> row.provider, from |-> row.from]
  BY <1>1 DEF Moved
<1> QED
  BY <1>1, <1>2 DEF RowsOn

(* K[k] is what the first k results of SearXNG add to Brave's.             *)
Repeats(done, row) == \E i \in DOMAIN done : done[i].url = row.url
MergedBy(K, U, brave, searxng, n) ==
    /\ K[0] = brave /\ \A k \in 0..n : K[k] \in Seq(RowsOn(U))
    /\ \A k \in 1..n :
          K[k] = IF Repeats(K[k - 1], searxng[k]) THEN K[k - 1]
                 ELSE Append(K[k - 1], Moved(searxng[k], Len(K[k - 1])))

LEMMA MergedRuns ==
  ASSUME NEW U, NEW brave \in Seq(RowsOn(U)), NEW searxng \in Seq(RowsOn(U)),
         NEW n \in Nat, n = Len(searxng)
  PROVE  \E K : MergedBy(K, U, brave, searxng, n) /\ K[n] = Merged(brave, searxng)
<1> DEFINE R == RowsOn(U)
           T == Seq(R)
           Op(done, row) == IF \E i \in DOMAIN done : done[i].url = row.url THEN done
                            ELSE Append(done, [row EXCEPT !.rank = Len(done)])
           f == [p \in T \X R |-> Op(p[1], p[2])]
           next(g) == [S \in SUBSET DOMAIN searxng |->
                         IF S = {} THEN brave ELSE Op(g[S \ {Max(S)}], searxng[Max(S)])]
<1>1. Merged(brave, searxng) = (CHOOSE g : g = next(g))[DOMAIN searxng]
  BY DEF Merged, FoldLeft, MapThenFoldSet
<1>2. ASSUME NEW done \in T, NEW row \in R
      PROVE  /\ Op(done, row) \in T
             /\ Op(done, row) = IF Repeats(done, row) THEN done
                                ELSE Append(done, Moved(row, Len(done)))
  <2>1. Moved(row, Len(done)) \in R
    BY MovedRow
  <2>2. Op(done, row) = IF Repeats(done, row) THEN done
                        ELSE Append(done, Moved(row, Len(done)))
    BY DEF Repeats, Moved
  <2> HIDE DEF Op, R
  <2> QED
    BY <2>1, <2>2
<1> HIDE DEF Op
<1>3. f \in [T \X R -> T] /\ \A done \in T, row \in R : f[<<done, row>>] = Op(done, row)
  <2>1. \A p \in T \X R : p[1] \in T /\ p[2] \in R
    OBVIOUS
  <2>2. \A p \in T \X R : Op(p[1], p[2]) \in T
    BY <1>2, <2>1
  <2>3. \A done \in T, row \in R : <<done, row>> \in T \X R /\ f[<<done, row>>] = Op(done, row)
    OBVIOUS
  <2> QED
    BY <2>2, <2>3
<1>4. /\ brave \in T /\ searxng \in Seq(R) /\ DOMAIN searxng = 1..n
      /\ \A m \in 1..n : searxng[m] \in R
  OBVIOUS
<1> HIDE DEF f, T, R
<1>5. \E g : g = next(g)
  <2>1. PICK g \in [SUBSET (1..Len(searxng)) -> T] : IsIter(g, f, brave, searxng, Len(searxng))
    BY <1>3, <1>4, IterExists
  <2>2. ASSUME NEW S \in SUBSET (1..n)
        PROVE  g[S] = IF S = {} THEN brave ELSE Op(g[S \ {Max(S)}], searxng[Max(S)])
    <3>1. CASE S = {}
      BY <1>4, <2>1, <3>1 DEF IsIter
    <3>2. CASE S # {}
      <4>1. searxng[Max(S)] \in R /\ S \ {Max(S)} \in SUBSET (1..n)
        BY <1>4, <3>2, MaxAt
      <4>2. g[S \ {Max(S)}] \in T
        BY <1>4, <2>1, <4>1
      <4> QED
        BY <1>3, <1>4, <2>1, <3>2, <4>1, <4>2 DEF IsIter
    <3> QED
      BY <3>1, <3>2
  <2>3. g = [S \in SUBSET (1..n) |-> g[S]]
    BY <1>4, <2>1
  <2>4. g = next(g)
    BY <1>4, <2>2, <2>3
  <2> QED
    BY <2>4
<1> DEFINE G == CHOOSE g : g = next(g)
<1>6. G = next(G)
  BY <1>5
<1>7. Merged(brave, searxng) = G[1..n]
  BY <1>1, <1>4
<1> HIDE DEF G
<1>8. ASSUME NEW S \in SUBSET (1..n)
      PROVE  G[S] = IF S = {} THEN brave ELSE Op(G[S \ {Max(S)}], searxng[Max(S)])
  <2>1. next(G)[S] = IF S = {} THEN brave ELSE Op(G[S \ {Max(S)}], searxng[Max(S)])
    BY <1>4
  <2> HIDE DEF next
  <2> QED
    BY <1>6, <2>1
<1> HIDE DEF next
<1>9. G[{}] = brave
  BY <1>8
<1>10. ASSUME NEW S \in SUBSET (1..Len(searxng)), S # {}, G[S \ {Max(S)}] \in T
       PROVE  G[S] = f[<<G[S \ {Max(S)}], searxng[Max(S)]>>]
  <2>1. searxng[Max(S)] \in R
    BY <1>4, <1>10, MaxAt
  <2> QED
    BY <1>3, <1>4, <1>8, <1>10, <2>1
<1>11. PICK K : Runs(K, T, f, brave, searxng) /\ K[Len(searxng)] = G[1..Len(searxng)]
  <2>1. RunsOnSets(G, T, f, brave, searxng)
    BY <1>9, <1>10 DEF RunsOnSets
  <2>2. Foldable(T, R, f, brave, searxng)
    BY <1>3, <1>4 DEF Foldable
  <2> QED
    BY <2>1, <2>2, FoldRuns
<1>12. ASSUME NEW k \in 1..n
       PROVE  K[k] = IF Repeats(K[k - 1], searxng[k]) THEN K[k - 1]
                     ELSE Append(K[k - 1], Moved(searxng[k], Len(K[k - 1])))
  <2>1. searxng[k] \in R /\ k - 1 \in 0..n
    BY <1>4
  <2>2. K[k - 1] \in T /\ K[k] = f[<<K[k - 1], searxng[k]>>]
    BY <1>4, <1>11, <2>1 DEF Runs
  <2> QED
    BY <1>2, <1>3, <2>1, <2>2
<1>13. MergedBy(K, U, brave, searxng, n)
  BY <1>4, <1>11, <1>12 DEF MergedBy, Runs, T, R
<1> QED
  BY <1>4, <1>7, <1>11, <1>13

(* Brave's list, and the first k results of SearXNG that repeat nothing.   *)
MergedUpTo(rows, brave, searxng, k) ==
    /\ Len(rows) >= Len(brave) /\ \A i \in 1..Len(brave) : rows[i] = brave[i]
    /\ \A i \in (Len(brave) + 1)..Len(rows) :
          /\ \E m \in 1..k : rows[i] = Moved(searxng[m], i - 1)
          /\ \A j \in (Len(brave) + 1)..Len(rows) : j < i => rows[j].from < rows[i].from
    /\ \A i, j \in 1..Len(rows) : j < i => rows[j].url # rows[i].url
    /\ \A m \in 1..k : \E i \in 1..Len(rows) : rows[i].url = searxng[m].url

LEMMA MergedStep ==
  ASSUME NEW U, NEW brave \in Seq(RowsOn(U)), NEW searxng \in Seq(RowsOn(U)),
         \A i, j \in 1..Len(searxng) : j < i => searxng[j].from < searxng[i].from,
         NEW k \in 1..Len(searxng), NEW old \in Seq(RowsOn(U)),
         MergedUpTo(old, brave, searxng, k - 1),
         NEW row, row = Moved(searxng[k], Len(old))
  PROVE  MergedUpTo(IF Repeats(old, searxng[k]) THEN old ELSE Append(old, row),
                    brave, searxng, k)
<1>1. /\ Len(old) \in Nat /\ DOMAIN old = 1..Len(old) /\ Len(brave) \in Nat
      /\ k \in Nat \ {0} /\ \A i \in 1..(k - 1) : i \in 1..k /\ i < k /\ i \in 1..Len(searxng)
  OBVIOUS
<1>2. CASE Repeats(old, searxng[k])
  <2>1. \E i \in 1..Len(old) : old[i].url = searxng[k].url
    BY <1>1, <1>2 DEF Repeats
  <2>2. \A m \in 1..k : m = k \/ m \in 1..(k - 1)
    OBVIOUS
  <2>3. MergedUpTo(old, brave, searxng, k)
    BY <1>1, <2>1, <2>2 DEF MergedUpTo
  <2> QED
    BY <1>2, <2>3
<1>3. CASE ~Repeats(old, searxng[k])
  <2>1. PICK new, b : new = Append(old, row) /\ b = Len(brave)
    OBVIOUS
  <2>2. /\ searxng[k] \in RowsOn(U) /\ row \in RowsOn(U)
        /\ row.url = searxng[k].url /\ row.from = searxng[k].from
    <3>1. searxng[k] \in RowsOn(U) /\ Len(old) \in Nat
      BY <1>1
    <3>2. PICK x, r : x = searxng[k] /\ r = Len(old)
      OBVIOUS
    <3>3. x \in RowsOn(U) /\ r \in Nat /\ row = Moved(x, r)
      BY <3>1, <3>2
    <3> QED
      BY <3>2, <3>3, MovedRow
  <2>3. /\ new \in Seq(RowsOn(U)) /\ Len(new) = Len(old) + 1 /\ new[Len(old) + 1] = row
        /\ \A i \in 1..Len(old) : new[i] = old[i]
    BY <2>1, <2>2, PrefixAppend
  <2>4. \A i \in 1..Len(old) : old[i].url # searxng[k].url
    BY <1>1, <1>3 DEF Repeats
  <2>5. /\ Len(old) >= b /\ \A i \in 1..b : old[i] = brave[i]
        /\ b \in Nat
    BY <1>1, <2>1 DEF MergedUpTo
  <2>6. Len(new) >= b /\ \A i \in 1..b : new[i] = brave[i]
    BY <1>1, <2>3, <2>5
  <2>7. ASSUME NEW i \in (b + 1)..Len(old)
        PROVE  /\ i \in 1..Len(old)
               /\ \E m \in 1..(k - 1) : old[i] = Moved(searxng[m], i - 1)
               /\ old[i].from < searxng[k].from
    <3>1. i \in 1..Len(old)
      BY <1>1, <2>5
    <3>2. PICK m \in 1..(k - 1) : old[i] = Moved(searxng[m], i - 1)
      BY <2>1 DEF MergedUpTo
    <3>3. searxng[m].from < searxng[k].from /\ searxng[m] \in RowsOn(U)
      BY <1>1
    <3>4. old[i].from = searxng[m].from
      <4>1. PICK x, y : x = searxng[m] /\ y = old[i]
        OBVIOUS
      <4>2. PICK r : y = Moved(x, r)
        BY <3>2, <4>1
      <4>3. x \in RowsOn(U)
        BY <3>3, <4>1
      <4> QED
        BY <4>1, <4>2, <4>3, MovedRow
    <3> QED
      BY <3>1, <3>2, <3>3, <3>4
  <2>8. ASSUME NEW i \in (b + 1)..Len(new)
        PROVE  \E m \in 1..k : new[i] = Moved(searxng[m], i - 1)
    <3>1. CASE i \in (b + 1)..Len(old)
      <4>1. PICK m \in 1..(k - 1) : old[i] = Moved(searxng[m], i - 1)
        BY <2>7, <3>1
      <4> QED
        BY <1>1, <2>3, <2>7, <3>1, <4>1
    <3>2. CASE i = Len(old) + 1
      <4>1. k \in 1..k /\ i - 1 = Len(old)
        BY <1>1, <3>2
      <4> QED
        BY <2>3, <3>2, <4>1
    <3> QED
      <4>1. Len(new) = Len(old) + 1 /\ b + 1 \in Int /\ Len(old) \in Int /\ i \in Int
        BY <1>1, <2>3, <2>5
      <4>2. b + 1 <= i /\ i <= Len(old) + 1
        BY <4>1
      <4>3. i <= Len(old) \/ i = Len(old) + 1
        BY <4>1, <4>2
      <4>4. i \in (b + 1)..Len(old) \/ i = Len(old) + 1
        BY <4>1, <4>2, <4>3
      <4> QED
        BY <3>1, <3>2, <4>4
  <2>9. ASSUME NEW i \in (b + 1)..Len(new), NEW j \in (b + 1)..Len(new), j < i
        PROVE  new[j].from < new[i].from
    <3>1. j \in (b + 1)..Len(old) /\ j \in 1..Len(old) /\ new[j] = old[j]
      BY <1>1, <2>3, <2>5, <2>9
    <3>2. CASE i \in (b + 1)..Len(old)
      <4>1. new[i] = old[i]
        BY <1>1, <2>3, <2>7, <3>2
      <4>2. old[j].from < old[i].from
        BY <2>1, <2>9, <3>1, <3>2 DEF MergedUpTo
      <4> QED
        BY <3>1, <4>1, <4>2
    <3>3. CASE i = Len(old) + 1
      BY <2>2, <2>3, <2>7, <3>1, <3>3
    <3> QED
      BY <1>1, <2>3, <2>5, <3>2, <3>3
  <2>10. ASSUME NEW i \in 1..Len(new), NEW j \in 1..Len(new), j < i
         PROVE  new[j].url # new[i].url
    <3>1. j \in 1..Len(old) /\ new[j] = old[j]
      BY <1>1, <2>3, <2>10
    <3>2. CASE i \in 1..Len(old)
      <4>1. old[j].url # old[i].url
        BY <2>10, <3>1, <3>2 DEF MergedUpTo
      <4>2. new[i] = old[i]
        BY <2>3, <3>2
      <4> QED
        BY <3>1, <4>1, <4>2
    <3>3. CASE i = Len(old) + 1
      BY <2>2, <2>3, <2>4, <3>1, <3>3
    <3> QED
      BY <1>1, <2>3, <3>2, <3>3
  <2>11. ASSUME NEW m \in 1..k PROVE \E i \in 1..Len(new) : new[i].url = searxng[m].url
    <3>1. CASE m = k
      <4>1. Len(new) \in 1..Len(new) /\ new[Len(new)].url = searxng[k].url
        BY <1>1, <2>2, <2>3
      <4> QED
        BY <3>1, <4>1
    <3>2. CASE m # k
      <4>1. m \in 1..(k - 1)
        BY <3>2
      <4>2. PICK i \in 1..Len(old) : old[i].url = searxng[m].url
        BY <4>1 DEF MergedUpTo
      <4> QED
        BY <1>1, <2>3, <4>2
    <3> QED
      BY <3>1, <3>2
  <2>12. MergedUpTo(new, brave, searxng, k)
    BY <2>1, <2>6, <2>8, <2>9, <2>10, <2>11 DEF MergedUpTo
  <2> QED
    BY <1>3, <2>1, <2>12
<1> QED
  BY <1>2, <1>3

LEMMA MergedList ==
  ASSUME NEW n \in Nat, NEW U, NEW brave \in Seq(RowsOn(U)), NEW searxng \in Seq(RowsOn(U)),
         n = Len(searxng),
         \A i, j \in 1..Len(brave) : j < i => brave[j].url # brave[i].url,
         \A i, j \in 1..Len(searxng) : j < i => searxng[j].from < searxng[i].from
  PROVE  /\ Merged(brave, searxng) \in Seq(RowsOn(U))
         /\ MergedUpTo(Merged(brave, searxng), brave, searxng, n)
<1>2. PICK K : MergedBy(K, U, brave, searxng, n) /\ K[n] = Merged(brave, searxng)
  BY MergedRuns
<1> DEFINE Z == {k \in 0..n : MergedUpTo(K[k], brave, searxng, k)}
<1>3. 0 \in Z
  <2>1. K[0] = brave /\ Len(brave) \in Nat
    BY <1>2 DEF MergedBy
  <2> QED
    BY <2>1 DEF MergedUpTo
<1>4. ASSUME NEW k \in 1..n, k - 1 \in Z PROVE k \in Z
  <2>1. PICK old, row : old = K[k - 1] /\ row = Moved(searxng[k], Len(old))
    OBVIOUS
  <2>2. k - 1 \in 0..n /\ k \in 1..Len(searxng)
    OBVIOUS
  <2>3. old \in Seq(RowsOn(U)) /\ MergedUpTo(old, brave, searxng, k - 1)
    BY <1>2, <1>4, <2>1, <2>2 DEF MergedBy
  <2>4. MergedUpTo(IF Repeats(old, searxng[k]) THEN old ELSE Append(old, row),
                   brave, searxng, k)
    BY <2>1, <2>2, <2>3, MergedStep
  <2>5. K[k] = IF Repeats(old, searxng[k]) THEN old ELSE Append(old, row)
    BY <1>2, <2>1 DEF MergedBy
  <2> QED
    BY <2>4, <2>5
<1>5. n \in Z
  <2> HIDE DEF Z
  <2> QED
    <3>1. \A k \in 0..n : k \in Z
      BY <1>3, <1>4, Throughout
    <3> QED
      BY <3>1
<1>6. K[n] \in Seq(RowsOn(U))
  BY <1>2 DEF MergedBy
<1> QED
  BY <1>2, <1>5, <1>6

-----------------------------------------------------------------------------
(* Search                                                                  *)

(* What a provider offers.                                                 *)
UsableItem(items, p, n) ==
    /\ Canonical(items[p][n].url) # Unusable
    /\ p = "searxng" => items[p][n].engine \in AllowedEngines
PagesOf(items, p) ==
    {Canonical(items[p][n].url) : n \in {m \in DOMAIN items[p] : UsableItem(items, p, m)}}

(* Where a result comes from, and the results before it.                   *)
FromItem(items, asked, rows, i) ==
    /\ rows[i].rank = i - 1
    /\ rows[i].provider \in asked
    /\ rows[i].from \in DOMAIN items[rows[i].provider]
    /\ UsableItem(items, rows[i].provider, rows[i].from)
    /\ rows[i].url = Canonical(items[rows[i].provider][rows[i].from].url)
    /\ \A j \in 1..(i - 1) :
          \/ rows[j].provider = rows[i].provider /\ rows[j].from < rows[i].from
          \/ rows[j].provider = "brave" /\ rows[i].provider = "searxng"

(* All pages of the providers asked, once each.                            *)
Complete(items, asked, rows) ==
    /\ \A i \in 1..Len(rows) : FromItem(items, asked, rows, i)
    /\ \A i, j \in 1..Len(rows) : j < i => rows[j].url # rows[i].url
    /\ \A p \in asked : \A u \in PagesOf(items, p) : \E i \in 1..Len(rows) : rows[i].url = u

(* Without a cut, and at the cut.                                          *)
LEMMA ProviderComplete ==
  ASSUME NEW R, NEW rows \in Seq(R), NEW items, NEW p, NEW engines, NEW n \in Nat,
         DOMAIN items[p] = 1..n, ParsedUpTo(rows, items[p], p, engines, n),
         \A m \in 1..n : Taken(items[p], engines, m) <=> UsableItem(items, p, m)
  PROVE  Complete(items, {p}, rows)
<1>1. DOMAIN rows = 1..Len(rows) /\ Len(rows) \in Nat
  OBVIOUS
<1>2. ASSUME NEW i \in 1..Len(rows) PROVE FromItem(items, {p}, rows, i)
  <2>1. \A j \in 1..(i - 1) : j \in DOMAIN rows /\ j < i
    BY <1>1
  <2>2. PICK x : x = rows[i]
    OBVIOUS
  <2>3. /\ x.rank = i - 1 /\ x.provider = p /\ x.from \in 1..n
        /\ Taken(items[p], engines, x.from) /\ x.url = Canonical(items[p][x.from].url)
    BY <1>1, <2>2 DEF ParsedUpTo
  <2>4. UsableItem(items, p, x.from)
    BY <2>3
  <2>5. \A j \in 1..(i - 1) : rows[j].provider = p /\ rows[j].from < x.from
    BY <1>1, <2>1, <2>2 DEF ParsedUpTo
  <2> QED
    BY <2>2, <2>3, <2>4, <2>5 DEF FromItem
<1>3. \A i, j \in 1..Len(rows) : j < i => rows[j].url # rows[i].url
  BY <1>1 DEF ParsedUpTo
<1>4. ASSUME NEW u \in PagesOf(items, p) PROVE \E i \in 1..Len(rows) : rows[i].url = u
  <2>1. PICK m \in 1..n : u = Canonical(items[p][m].url) /\ UsableItem(items, p, m)
    BY DEF PagesOf
  <2> QED
    BY <1>1, <2>1 DEF ParsedUpTo
<1> QED
  BY <1>2, <1>3, <1>4 DEF Complete

LEMMA MergedComplete ==
  ASSUME NEW U, NEW brave \in Seq(RowsOn(U)), NEW searxng \in Seq(RowsOn(U)),
         NEW rows \in Seq(RowsOn(U)), NEW items,
         Complete(items, {"brave"}, brave), Complete(items, {"searxng"}, searxng),
         MergedUpTo(rows, brave, searxng, Len(searxng))
  PROVE  Complete(items, {"brave", "searxng"}, rows)
<1>1. PICK b \in Nat, n \in Nat, l \in Nat : b = Len(brave) /\ n = Len(searxng) /\ l = Len(rows)
  OBVIOUS
<1>2. /\ b <= l /\ \A i \in 1..b : rows[i] = brave[i]
      /\ \A i \in (b + 1)..l :
            /\ \E m \in 1..n : rows[i] = Moved(searxng[m], i - 1)
            /\ \A j \in (b + 1)..l : j < i => rows[j].from < rows[i].from
      /\ \A i, j \in 1..l : j < i => rows[j].url # rows[i].url
      /\ \A m \in 1..n : \E i \in 1..l : rows[i].url = searxng[m].url
  BY <1>1 DEF MergedUpTo
<1>3. ASSUME NEW m \in 1..n
      PROVE  /\ searxng[m].provider = "searxng"
             /\ searxng[m].from \in DOMAIN items["searxng"]
             /\ UsableItem(items, "searxng", searxng[m].from)
             /\ searxng[m].url = Canonical(items["searxng"][searxng[m].from].url)
  <2>1. FromItem(items, {"searxng"}, searxng, m)
    BY <1>1 DEF Complete
  <2> QED
    BY <2>1 DEF FromItem
<1>4. ASSUME NEW i \in (b + 1)..l
      PROVE  /\ rows[i].rank = i - 1 /\ rows[i].provider = "searxng"
             /\ rows[i].from \in DOMAIN items["searxng"]
             /\ UsableItem(items, "searxng", rows[i].from)
             /\ rows[i].url = Canonical(items["searxng"][rows[i].from].url)
  <2>1. PICK m \in 1..n : rows[i] = Moved(searxng[m], i - 1)
    BY <1>2
  <2>2. PICK x, y, r : x = searxng[m] /\ y = rows[i] /\ r = i - 1
    OBVIOUS
  <2>3. x \in RowsOn(U) /\ y = Moved(x, r)
    BY <1>1, <2>1, <2>2
  <2>4. y.rank = r /\ y.url = x.url /\ y.from = x.from /\ y.provider = x.provider
    BY <2>3, MovedRow
  <2> QED
    BY <1>3, <2>2, <2>4
<1>5. ASSUME NEW i \in 1..l PROVE FromItem(items, {"brave", "searxng"}, rows, i)
  <2>1. CASE i \in 1..b
    <3>1. FromItem(items, {"brave"}, brave, i)
      BY <1>1, <2>1 DEF Complete
    <3>2. rows[i] = brave[i] /\ \A j \in 1..(i - 1) : rows[j] = brave[j]
      BY <1>2, <2>1
    <3> QED
      BY <3>1, <3>2 DEF FromItem
  <2>2. CASE i \in (b + 1)..l
    <3>1. ASSUME NEW j \in 1..(i - 1)
          PROVE  \/ rows[j].provider = rows[i].provider /\ rows[j].from < rows[i].from
                 \/ rows[j].provider = "brave" /\ rows[i].provider = "searxng"
      <4>1. CASE j \in 1..b
        <5>1. FromItem(items, {"brave"}, brave, j)
          BY <1>1, <4>1 DEF Complete
        <5>2. rows[j].provider = "brave"
          BY <1>2, <4>1, <5>1 DEF FromItem
        <5> QED
          BY <1>4, <2>2, <5>2
      <4>2. CASE j \notin 1..b
        <5>1. j \in (b + 1)..l /\ j < i
          BY <2>2, <4>2
        <5> QED
          BY <1>2, <1>4, <2>2, <5>1
      <4> QED
        BY <4>1, <4>2
    <3> QED
      BY <1>4, <2>2, <3>1 DEF FromItem
  <2>3. i \in 1..b \/ i \in (b + 1)..l
    OBVIOUS
  <2> QED
    BY <2>1, <2>2, <2>3
<1>6. ASSUME NEW u \in PagesOf(items, "brave") PROVE \E i \in 1..l : rows[i].url = u
  <2>1. PICK i \in 1..b : brave[i].url = u
    BY <1>1 DEF Complete
  <2>2. i \in 1..l /\ rows[i] = brave[i]
    BY <1>2
  <2> QED
    BY <2>1, <2>2
<1>7. ASSUME NEW u \in PagesOf(items, "searxng") PROVE \E i \in 1..l : rows[i].url = u
  <2>1. PICK m \in 1..n : searxng[m].url = u
    BY <1>1 DEF Complete
  <2> QED
    BY <1>2, <2>1
<1> QED
  BY <1>1, <1>2, <1>5, <1>6, <1>7 DEF Complete

LEMMA CountDistinct ==
  ASSUME NEW n \in Nat, NEW v, \A i, j \in 1..n : j < i => v[j] # v[i],
         NEW A, \A x : x \in A <=> \E i \in 1..n : v[i] = x
  PROVE  Cardinality(A) = n
<1> DEFINE S == 1..n
           f == [i \in S |-> v[i]]
<1>1. IsFiniteSet(S) /\ Cardinality(S) = n
  BY Counted
<1>2. \A i, j \in S : i # j => v[i] # v[j]
  <2> TAKE i, j \in S
  <2>1. i < j \/ j < i \/ i = j
    OBVIOUS
  <2> QED
    BY <2>1
<1>3. f \in [S -> A] /\ \A i \in S : f[i] = v[i]
  OBVIOUS
<1> HIDE DEF f, S
<1>4. f \in Injection(S, A)
  BY <1>2, <1>3 DEF Injection, IsInjective
<1>5. f \in Surjection(S, A)
  <2>1. \A x \in A : \E i \in S : f[i] = x
    BY <1>3 DEF S
  <2> QED
    BY <1>3, <2>1 DEF Surjection
<1>6. Cardinality(A) = Cardinality(S)
  BY <1>1, <1>4, <1>5, FS_Surjection
<1> QED
  BY <1>1, <1>6

LEMMA PageCount ==
  ASSUME NEW R, NEW rows \in Seq(R), NEW items, NEW p, Complete(items, {p}, rows)
  PROVE  Cardinality(PagesOf(items, p)) = Len(rows)
<1>1. PICK n, A : n \in Nat /\ n = Len(rows) /\ A = PagesOf(items, p)
  OBVIOUS
<1> DEFINE v == [i \in 1..n |-> rows[i].url]
<1>2. \A i \in 1..n : v[i] = rows[i].url
  OBVIOUS
<1> HIDE DEF v
<1>3. \A i, j \in 1..n : j < i => v[j] # v[i]
  BY <1>1, <1>2 DEF Complete
<1>4. ASSUME NEW i \in 1..n PROVE v[i] \in A
  <2>1. FromItem(items, {p}, rows, i)
    BY <1>1 DEF Complete
  <2> QED
    BY <1>1, <1>2, <2>1 DEF FromItem, PagesOf
<1>5. \A x \in A : \E i \in 1..n : v[i] = x
  BY <1>1, <1>2 DEF Complete
<1>6. \A x : x \in A <=> \E i \in 1..n : v[i] = x
  BY <1>4, <1>5
<1>7. Cardinality(A) = n
  BY <1>1, <1>3, <1>6, CountDistinct
<1> QED
  BY <1>1, <1>7

(* The items a search may find.                                            *)
Sought(R, items) ==
    /\ \A p \in {"brave", "searxng"} : \E n \in Nat :
          DOMAIN items[p] = 1..n /\ \A m \in 1..n : Address(R, items[p][m].url)
    /\ \A m \in DOMAIN items["brave"] : items["brave"][m].engine = "brave"

(* The cut of a complete list.                                             *)
LEMMA CutComplete ==
  ASSUME NEW R, NEW Q, NEW items, Sought(R, items), NEW up, NEW max \in Nat,
         NEW asked, asked \in SUBSET {"brave", "searxng"},
         asked = up \ IF "brave" \in up /\ Cardinality(PagesOf(items, "brave")) >= MinResults
                      THEN {"searxng"} ELSE {},
         NEW list \in Seq(Q), Complete(items, asked, list)
  PROVE  ResultsComplete(up, items, max, Cut(list, max))
<1>1. PICK rows, n : /\ n \in Nat /\ rows = Cut(list, max)
                     /\ n = IF Len(list) < max THEN Len(list) ELSE max
  OBVIOUS
<1>2. /\ Len(rows) = n /\ DOMAIN rows = 1..n /\ n <= Len(list) /\ n <= max
      /\ \A i \in 1..n : i \in 1..Len(list) /\ rows[i] = list[i]
      /\ n = max \/ n = Len(list)
  <2>1. n <= Len(list) /\ n <= max /\ Len(list) \in Nat /\ rows = SubSeq(list, 1, n)
    BY <1>1 DEF Cut
  <2>2. Len(rows) = n /\ DOMAIN rows = 1..n /\ \A i \in 1..n : rows[i] = list[i]
    BY <1>1, <2>1
  <2> QED
    BY <1>1, <2>1, <2>2
<1>3. ASSUME NEW i \in 1..n
      PROVE  FromItem(items, asked, rows, i) /\ Canonical(rows[i].url) = rows[i].url
  <2>1. FromItem(items, asked, list, i)
    BY <1>2 DEF Complete
  <2>2. FromItem(items, asked, rows, i)
    <3>1. \A j \in 1..(i - 1) : j \in 1..n
      BY <1>1
    <3>2. rows[i] = list[i] /\ \A j \in 1..(i - 1) : rows[j] = list[j]
      BY <1>2, <3>1
    <3> QED
      BY <2>1, <3>2 DEF FromItem
  <2>3. PICK p, m : /\ p \in asked /\ m \in DOMAIN items[p]
                    /\ rows[i].url = Canonical(items[p][m].url)
    BY <2>2 DEF FromItem
  <2>4. Address(R, items[p][m].url)
    BY <2>3 DEF Sought
  <2>5. Canonical(rows[i].url) = rows[i].url
    BY <2>3, <2>4, CanonicalOnce
  <2> QED
    BY <2>2, <2>5
<1>4. ASSUME NEW i \in 1..n, NEW j \in 1..n, j < i PROVE rows[j].url # rows[i].url
  BY <1>2, <1>4 DEF Complete
<1> DEFINE shown == {Canonical(rows[i].url) : i \in DOMAIN rows}
           all == UNION {PagesOf(items, p) : p \in asked}
<1>5. \A x : x \in shown <=> \E i \in 1..n : rows[i].url = x
  BY <1>2, <1>3
<1>6. Cardinality(shown) = n
  <2> DEFINE v == [i \in 1..n |-> rows[i].url]
  <2>1. \A i \in 1..n : v[i] = rows[i].url
    OBVIOUS
  <2> HIDE DEF v, shown
  <2>2. PICK A : A = shown
    OBVIOUS
  <2>3. \A i, j \in 1..n : j < i => v[j] # v[i]
    BY <1>4, <2>1
  <2>4. \A x : x \in A <=> \E i \in 1..n : v[i] = x
    BY <1>5, <2>1, <2>2
  <2>5. Cardinality(A) = n
    BY <1>1, <2>3, <2>4, CountDistinct
  <2> QED
    BY <2>2, <2>5
<1> HIDE DEF shown
<1>7. shown \subseteq all
  <2> SUFFICES ASSUME NEW x \in shown PROVE x \in all
    OBVIOUS
  <2>1. PICK i \in 1..n : rows[i].url = x
    BY <1>5
  <2>2. x \in PagesOf(items, rows[i].provider) /\ rows[i].provider \in asked
    BY <1>3, <2>1 DEF FromItem, PagesOf
  <2> QED
    BY <2>2
<1>8. all \subseteq shown \/ Len(rows) = max
  <2> SUFFICES ASSUME n # max, NEW p \in asked, NEW u \in PagesOf(items, p) PROVE u \in shown
    BY <1>2
  <2>1. n = Len(list)
    BY <1>2
  <2>2. PICK i \in 1..n : list[i].url = u
    BY <2>1 DEF Complete
  <2> QED
    BY <1>2, <1>5, <2>2
<1>9. Len(rows) <= max /\ Cardinality(shown) = Len(rows)
  BY <1>2, <1>6
<1>10. \A i \in DOMAIN rows : FromItem(items, asked, rows, i)
  BY <1>2, <1>3
<1>11. \A i \in DOMAIN rows : UsableItem(items, rows[i].provider, rows[i].from)
  BY <1>10 DEF FromItem
<1>12. ResultsComplete(up, items, max, rows)
  BY <1>7, <1>8, <1>9, <1>10
     DEF ResultsComplete, shown, all, PagesOf, UsableItem, FromItem
<1> QED
  BY <1>1, <1>12

LEMMA RouteComplete ==
  ASSUME NEW R, NEW items, Sought(R, items), NEW max \in Nat,
         NEW up \in SUBSET {"brave", "searxng"}, up # {}
  PROVE  ResultsComplete(up, items, max,
             Cut(Routed(up, BraveParsed(items["brave"]), SearXNGParsed(items["searxng"])), max))
<1>1. PICK brave, searxng : /\ brave = Parsed("brave", items["brave"], {"brave"})
                            /\ searxng = Parsed("searxng", items["searxng"], AllowedEngines)
  OBVIOUS
<1>2. PICK nb \in Nat, ns \in Nat : DOMAIN items["brave"] = 1..nb /\ DOMAIN items["searxng"] = 1..ns
  BY DEF Sought
<1> DEFINE U == {Canonical(items["brave"][m].url) : m \in 1..nb}
                \cup {Canonical(items["searxng"][m].url) : m \in 1..ns}
<1>3. Items(U, items["brave"], nb) /\ Items(U, items["searxng"], ns)
  BY <1>2 DEF Items
<1> HIDE DEF U
<1>4. brave \in Seq(RowsOn(U)) /\ ParsedUpTo(brave, items["brave"], "brave", {"brave"}, nb)
  BY <1>1, <1>3, ParsedList
<1>5. /\ searxng \in Seq(RowsOn(U))
      /\ ParsedUpTo(searxng, items["searxng"], "searxng", AllowedEngines, ns)
  BY <1>1, <1>3, ParsedList
<1>6. Complete(items, {"brave"}, brave)
  <2>1. \A m \in 1..nb : Taken(items["brave"], {"brave"}, m) <=> UsableItem(items, "brave", m)
    BY <1>2 DEF Sought, Taken, UsableItem
  <2> QED
    BY <1>2, <1>4, <2>1, ProviderComplete
<1>7. Complete(items, {"searxng"}, searxng)
  <2>1. \A m \in 1..ns :
           Taken(items["searxng"], AllowedEngines, m) <=> UsableItem(items, "searxng", m)
    BY <1>2 DEF Taken, UsableItem
  <2> QED
    BY <1>2, <1>5, <2>1, ProviderComplete
<1>8. PICK n \in Nat : n = Len(brave) /\ Cardinality(PagesOf(items, "brave")) = n
  <2>1. Cardinality(PagesOf(items, "brave")) = Len(brave) /\ Len(brave) \in Nat
    BY <1>4, <1>6, PageCount
  <2> QED
    BY <2>1
<1> DEFINE asked == up \ IF "brave" \in up /\ Cardinality(PagesOf(items, "brave")) >= MinResults
                         THEN {"searxng"} ELSE {}
           list == Routed(up, brave, searxng)
<1>9. list \in Seq(RowsOn(U)) /\ Complete(items, asked, list)
  <2>1. CASE "brave" \notin up
    <3>1. asked = {"searxng"} /\ list = searxng
      BY <2>1 DEF Routed
    <3> QED
      BY <1>5, <1>7, <3>1
  <2>2. CASE "brave" \in up /\ n >= MinResults
    <3>1. asked = {"brave"}
      BY <1>8, <2>2
    <3>2. ~Thin(brave)
      BY <1>8, <2>2, ResultsAssumption DEF Thin
    <3>3. list = brave
      BY <2>2, <3>2 DEF Routed
    <3> QED
      BY <1>4, <1>6, <3>1, <3>3
  <2>3. CASE "brave" \in up /\ n < MinResults /\ "searxng" \notin up
    <3>1. ~(n >= MinResults)
      BY <2>3, ResultsAssumption
    <3>2. asked = {"brave"}
      BY <1>8, <2>3, <3>1
    <3>3. list = brave
      BY <2>3 DEF Routed
    <3> QED
      BY <1>4, <1>6, <3>2, <3>3
  <2>4. CASE "brave" \in up /\ n < MinResults /\ "searxng" \in up
    <3>1. ~(n >= MinResults)
      BY <2>4, ResultsAssumption
    <3>2. asked = {"brave", "searxng"}
      BY <1>8, <2>4, <3>1
    <3>3. Thin(brave)
      BY <1>8, <2>4 DEF Thin
    <3>4. list = Merged(brave, searxng)
      BY <2>4, <3>3 DEF Routed
    <3>5. PICK l \in Nat : l = Len(searxng)
      BY <1>5
    <3>6. \A i, j \in 1..Len(brave) : j < i => brave[j].url # brave[i].url
      BY <1>6 DEF Complete
    <3>7. \A i, j \in 1..Len(searxng) : j < i => searxng[j].from < searxng[i].from
      <4>1. DOMAIN searxng = 1..Len(searxng)
        BY <1>5
      <4> QED
        BY <1>5, <4>1 DEF ParsedUpTo
    <3>8. /\ Merged(brave, searxng) \in Seq(RowsOn(U))
          /\ MergedUpTo(Merged(brave, searxng), brave, searxng, l)
      BY <1>4, <1>5, <3>5, <3>6, <3>7, MergedList
    <3>9. Complete(items, {"brave", "searxng"}, Merged(brave, searxng))
      BY <1>4, <1>5, <1>6, <1>7, <3>5, <3>8, MergedComplete
    <3> QED
      BY <3>2, <3>4, <3>8, <3>9
  <2>5. n < MinResults \/ n >= MinResults
    BY ResultsAssumption
  <2> QED
    BY <2>1, <2>2, <2>3, <2>4, <2>5
<1>10. asked \in SUBSET {"brave", "searxng"}
  OBVIOUS
<1> HIDE DEF list
<1>11. PICK a, l : a = asked /\ l = list
  OBVIOUS
<1>12. ResultsComplete(up, items, max, Cut(l, max))
  <2>1. l \in Seq(RowsOn(U)) /\ Complete(items, a, l) /\ a \in SUBSET {"brave", "searxng"}
    BY <1>9, <1>10, <1>11
  <2>2. a = up \ IF "brave" \in up /\ Cardinality(PagesOf(items, "brave")) >= MinResults
                 THEN {"searxng"} ELSE {}
    BY <1>11
  <2> QED
    BY <2>1, <2>2, CutComplete
<1> QED
  BY <1>1, <1>11, <1>12 DEF list, BraveParsed, SearXNGParsed

SearchInv == job = "search" =>
    /\ in \in Searches
    /\ out.done =>
          out.value = Cut(Routed(in.up, BraveParsed(in.items["brave"]),
                                 SearXNGParsed(in.items["searxng"])), in.max)

LEMMA SearchInvAlways == Spec => []SearchInv
<1>1. Init => SearchInv
  BY DEF Init, SearchInv, Pending
<1>2. SearchInv /\ [Next]_vars => SearchInv'
  <2> SUFFICES ASSUME SearchInv, [Next]_vars PROVE SearchInv'
    OBVIOUS
  <2>1. CASE UNCHANGED <<job, in, out>>
    BY <2>1 DEF SearchInv
  <2>2. CASE Route
    BY <2>2 DEF SearchInv, Route, Return
  <2>3. CASE Validate \/ Rerank
    BY <2>3 DEF SearchInv, Validate, Rerank
  <2> QED
    BY <2>1, <2>2, <2>3 DEF Next, ExtractStep, vars
<1> QED
  BY <1>1, <1>2, PTL DEF Spec

LEMMA SpellingsAddressed ==
  ASSUME NEW url \in Spellings
  PROVE  Address({"/", "a"}, url)
<1> DEFINE R == {"/", "a"}
<1>1. /\ <<>> \in Seq(R) /\ <<"/">> \in Seq(R) /\ <<"/", "a">> \in Seq(R)
      /\ <<"/", "/">> \in Seq(R) /\ <<"/", "/", "a">> \in Seq(R)
      /\ <<"/", "a", "/", "/">> \in Seq(R)
  OBVIOUS
<1>2. /\ <<>> \in Seq(Int) /\ <<0>> \in Seq(Int) /\ <<1, 2>> \in Seq(Int)
      /\ <<2, 1>> \in Seq(Int) /\ <<2, 0, 1>> \in Seq(Int)
  OBVIOUS
<1>3. \A scheme, port, path, query :
         /\ Url(scheme, port, path, query).path = path
         /\ Url(scheme, port, path, query).query = query
  BY DEF Url
<1> HIDE DEF R
<1>4. PICK scheme, port, path, query :
         /\ url = Url(scheme, port, path, query)
         /\ path \in Seq(R) /\ query \in Seq(Int)
  BY <1>1, <1>2 DEF Spellings
<1>5. url.path \in Seq(R) /\ url.query \in Seq(Int)
  BY <1>3, <1>4
<1> QED
  BY <1>5 DEF Address, R

LEMMA SearchesSought ==
  ASSUME NEW x \in Searches
  PROVE  /\ Sought({"/", "a"}, x.items) /\ x.max \in Nat
         /\ x.up \in SUBSET {"brave", "searxng"} /\ x.up # {}
<1>1. /\ x.up \in (SUBSET {"brave", "searxng"}) \ {{}} /\ x.max \in 1..(MaxItems + 1)
      /\ x.items["brave"] \in Found({"brave"})
      /\ x.items["searxng"] \in Found({"google", "other"})
  BY DEF Searches
<1>2. x.max \in Nat
  BY <1>1, GroundingAssumption
<1>3. ASSUME NEW engines, NEW list \in Found(engines)
      PROVE  \E n \in Nat :
                /\ DOMAIN list = 1..n
                /\ \A m \in 1..n : Address({"/", "a"}, list[m].url) /\ list[m].engine \in engines
  <2> DEFINE Q == [url : Spellings, engine : engines]
  <2>1. list \in Seq(Q) /\ Len(list) \in Nat
    BY BoundedSeqType DEF Found
  <2>2. \A q \in Q : q.url \in Spellings /\ q.engine \in engines
    OBVIOUS
  <2> HIDE DEF Q
  <2>3. DOMAIN list = 1..Len(list) /\ \A m \in 1..Len(list) : list[m] \in Q
    BY <2>1
  <2>4. \A m \in 1..Len(list) : list[m].url \in Spellings /\ list[m].engine \in engines
    BY <2>2, <2>3
  <2>5. \A m \in 1..Len(list) : Address({"/", "a"}, list[m].url)
    BY <2>4, SpellingsAddressed
  <2> QED
    BY <2>1, <2>3, <2>4, <2>5
<1>4. PICK n \in Nat :
         /\ DOMAIN x.items["brave"] = 1..n
         /\ \A m \in 1..n : /\ Address({"/", "a"}, x.items["brave"][m].url)
                            /\ x.items["brave"][m].engine \in {"brave"}
  BY <1>1, <1>3
<1>5. PICK l \in Nat :
         /\ DOMAIN x.items["searxng"] = 1..l
         /\ \A m \in 1..l : Address({"/", "a"}, x.items["searxng"][m].url)
  BY <1>1, <1>3
<1>6. Sought({"/", "a"}, x.items)
  BY <1>4, <1>5 DEF Sought
<1> QED
  BY <1>1, <1>2, <1>6

(* Whatever the providers find, and whichever of them answer: a search     *)
(* returns every page of those asked, once, ranked in the documented       *)
(* order, up to the cut.                                                   *)
THEOREM SearchCorrect == Spec => []SearchComplete
<1>1. SearchInv => SearchComplete
  <2> SUFFICES ASSUME SearchInv, job = "search", out.done PROVE SearchComplete
    BY DEF SearchComplete, Returned
  <2>1. /\ Sought({"/", "a"}, in.items) /\ in.max \in Nat
        /\ in.up \in SUBSET {"brave", "searxng"} /\ in.up # {}
    BY SearchesSought DEF SearchInv
  <2>2. PICK R, items, up, max : R = {"/", "a"} /\ items = in.items /\ up = in.up /\ max = in.max
    OBVIOUS
  <2>3. ResultsComplete(up, items, max,
           Cut(Routed(up, BraveParsed(items["brave"]), SearXNGParsed(items["searxng"])), max))
    BY <2>1, <2>2, RouteComplete
  <2> QED
    BY <2>2, <2>3 DEF SearchInv, SearchComplete
<1> QED
  BY <1>1, SearchInvAlways, PTL

-----------------------------------------------------------------------------
(* Byte offsets                                                            *)

(* K[k] is the number of bytes of the first k characters.                  *)
OffsetsBy(K, text) ==
    /\ K[0] = 0 /\ \A k \in 0..Len(text) : K[k] \in Nat
    /\ \A k \in 1..Len(text) : K[k] = K[k - 1] + Bytes(text[k])

BytesOf(text) == FoldLeft(LAMBDA total, char : total + Bytes(char), 0, text)

LEMMA OffsetRuns ==
  ASSUME NEW text \in Seq(Chars)
  PROVE  \E K : OffsetsBy(K, text) /\ K[Len(text)] = BytesOf(text)
<1> DEFINE T == Nat
           n == Len(text)
           Op(total, char) == total + Bytes(char)
           f == [p \in T \X Chars |-> Op(p[1], p[2])]
           next(g) == [S \in SUBSET DOMAIN text |->
                         IF S = {} THEN 0 ELSE Op(g[S \ {Max(S)}], text[Max(S)])]
<1>1. BytesOf(text) = (CHOOSE g : g = next(g))[DOMAIN text]
  BY DEF BytesOf, FoldLeft, MapThenFoldSet
<1>2. \A total \in T, char \in Chars :
         Op(total, char) = total + Bytes(char) /\ Op(total, char) \in T
  BY DEF Bytes
<1> HIDE DEF Op
<1>3. f \in [T \X Chars -> T] /\ 0 \in T
      /\ \A total \in T, char \in Chars : f[<<total, char>>] = Op(total, char)
  <2>1. \A p \in T \X Chars : p[1] \in T /\ p[2] \in Chars
    OBVIOUS
  <2>2. \A p \in T \X Chars : Op(p[1], p[2]) \in T
    BY <1>2, <2>1
  <2>3. \A total \in T, char \in Chars :
           <<total, char>> \in T \X Chars /\ f[<<total, char>>] = Op(total, char)
    OBVIOUS
  <2> QED
    BY <2>2, <2>3
<1>4. DOMAIN text = 1..n /\ n \in Nat /\ \A k \in 1..n : text[k] \in Chars
  OBVIOUS
<1> HIDE DEF f, T, n
<1>5. \E g : g = next(g)
  <2>1. PICK g \in [SUBSET (1..Len(text)) -> T] : IsIter(g, f, 0, text, Len(text))
    BY <1>3, IterExists
  <2>2. ASSUME NEW S \in SUBSET (1..n)
        PROVE  g[S] = IF S = {} THEN 0 ELSE Op(g[S \ {Max(S)}], text[Max(S)])
    <3>1. CASE S = {}
      BY <2>1, <3>1 DEF IsIter, n
    <3>2. CASE S # {}
      <4>1. text[Max(S)] \in Chars /\ S \ {Max(S)} \in SUBSET (1..n)
        BY <3>2, MaxAt DEF n
      <4>2. g[S \ {Max(S)}] \in T
        BY <2>1, <4>1 DEF n
      <4> QED
        BY <1>3, <2>1, <3>2, <4>1, <4>2 DEF IsIter, n
    <3> QED
      BY <3>1, <3>2
  <2>3. g = [S \in SUBSET (1..n) |-> g[S]]
    BY <2>1 DEF n
  <2>4. g = next(g)
    BY <1>4, <2>2, <2>3
  <2> QED
    BY <2>4
<1> DEFINE G == CHOOSE g : g = next(g)
<1>6. G = next(G)
  BY <1>5
<1>7. BytesOf(text) = G[1..n]
  BY <1>1, <1>4
<1> HIDE DEF G
<1>8. ASSUME NEW S \in SUBSET (1..n)
      PROVE  G[S] = IF S = {} THEN 0 ELSE Op(G[S \ {Max(S)}], text[Max(S)])
  <2>1. next(G)[S] = IF S = {} THEN 0 ELSE Op(G[S \ {Max(S)}], text[Max(S)])
    BY <1>4
  <2> HIDE DEF next
  <2> QED
    BY <1>6, <2>1
<1> HIDE DEF next
<1>9. G[{}] = 0
  BY <1>8
<1>10. ASSUME NEW S \in SUBSET (1..Len(text)), S # {}, G[S \ {Max(S)}] \in T
       PROVE  G[S] = f[<<G[S \ {Max(S)}], text[Max(S)]>>]
  <2>1. text[Max(S)] \in Chars
    BY <1>10, MaxAt
  <2> QED
    BY <1>3, <1>8, <1>10, <2>1 DEF n
<1>11. PICK K : Runs(K, T, f, 0, text) /\ K[Len(text)] = G[1..Len(text)]
  <2>1. RunsOnSets(G, T, f, 0, text)
    BY <1>9, <1>10 DEF RunsOnSets
  <2>2. Foldable(T, Chars, f, 0, text)
    BY <1>3 DEF Foldable
  <2> QED
    BY <2>1, <2>2, FoldRuns
<1>12. ASSUME NEW k \in 1..n PROVE K[k] = K[k - 1] + Bytes(text[k])
  <2>1. k - 1 \in 0..n
    BY <1>4
  <2>2. K[k - 1] \in T /\ K[k] = f[<<K[k - 1], text[k]>>] /\ text[k] \in Chars
    BY <1>4, <1>11, <2>1 DEF Runs, n
  <2> QED
    BY <1>2, <1>3, <2>2
<1>13. OffsetsBy(K, text)
  BY <1>11, <1>12 DEF OffsetsBy, Runs, T, n
<1> QED
  BY <1>7, <1>11, <1>13 DEF n

LEMMA OffsetsPrefix ==
  ASSUME NEW text \in Seq(Chars), NEW K, OffsetsBy(K, text), NEW n \in 0..Len(text)
  PROVE  ByteOffset(text, n) = K[n]
<1>1. PICK part : part = SubSeq(text, 1, n)
  OBVIOUS
<1>2. part \in Seq(Chars) /\ Len(part) = n /\ n \in Nat /\ \A k \in 1..n : part[k] = text[k]
  BY <1>1
<1>3. PICK L : OffsetsBy(L, part) /\ L[Len(part)] = BytesOf(part)
  BY <1>2, OffsetRuns
<1> DEFINE Z == {k \in 0..n : L[k] = K[k]}
<1>4. 0 \in Z
  BY <1>2, <1>3 DEF OffsetsBy
<1>5. \A k \in 1..n : k - 1 \in Z => k \in Z
  BY <1>2, <1>3 DEF OffsetsBy
<1> HIDE DEF Z
<1>6. \A k \in 0..n : k \in Z
  BY <1>2, <1>4, <1>5, Throughout
<1>7. L[n] = K[n]
  BY <1>2, <1>6 DEF Z
<1>8. ByteOffset(text, n) = BytesOf(part)
  BY <1>1 DEF ByteOffset, BytesOf
<1> QED
  BY <1>2, <1>3, <1>7, <1>8

(* Offsets grow with every character.                                      *)
LEMMA OffsetsGrow ==
  ASSUME NEW text \in Seq(Chars)
  PROVE  /\ \A m \in 0..Len(text) : ByteOffset(text, m) \in Nat
         /\ \A m, n \in 0..Len(text) : m < n => ByteOffset(text, m) < ByteOffset(text, n)
<1>1. PICK K : OffsetsBy(K, text)
  BY OffsetRuns
<1>2. \A m \in 0..Len(text) : ByteOffset(text, m) = K[m] /\ K[m] \in Nat
  BY <1>1, OffsetsPrefix DEF OffsetsBy
<1>3. ASSUME NEW m \in 0..Len(text) PROVE \A n \in 0..Len(text) : m < n => K[m] < K[n]
  <2> DEFINE Z == {n \in 0..Len(text) : m < n => K[m] < K[n]}
  <2>1. 0 \in Z
    OBVIOUS
  <2>2. ASSUME NEW n \in 1..Len(text), n - 1 \in Z PROVE n \in Z
    <3>1. K[n] = K[n - 1] + Bytes(text[n]) /\ Bytes(text[n]) \in {1, 2} /\ K[n - 1] \in Nat
      BY <1>1 DEF OffsetsBy, Bytes
    <3>2. K[n - 1] < K[n]
      BY <3>1
    <3>3. m < n - 1 \/ m = n - 1 \/ ~(m < n)
      OBVIOUS
    <3> QED
      BY <1>2, <2>2, <3>1, <3>2, <3>3
  <2>3. Len(text) \in Nat /\ \A n \in 1..Len(text) : n - 1 \in Z => n \in Z
    BY <2>2
  <2> HIDE DEF Z
  <2>4. \A n \in 0..Len(text) : n \in Z
    BY <2>1, <2>3, Throughout
  <2> QED
    BY <2>4 DEF Z
<1> QED
  BY <1>2, <1>3

(* The bytes of a slice between two characters are those characters.       *)
LEMMA DecodeAt ==
  ASSUME NEW text \in Seq(Chars), NEW m \in 0..Len(text), NEW n \in 0..Len(text),
         m <= n, NEW slice, slice = <<ByteOffset(text, m), ByteOffset(text, n)>>
  PROVE  Decode(text, slice) = SubSeq(text, m + 1, n)
<1>1. ASSUME NEW k \in 0..Len(text) PROVE CharsUntil(text, ByteOffset(text, k)) = k
  <2>1. DOMAIN text = 1..Len(text) /\ k \in Nat
    OBVIOUS
  <2>2. ASSUME NEW i \in 1..Len(text)
        PROVE  ByteOffset(text, i) <= ByteOffset(text, k) <=> i <= k
    <3>1. i \in 0..Len(text) /\ ByteOffset(text, i) \in Nat /\ ByteOffset(text, k) \in Nat
      BY OffsetsGrow
    <3>2. i < k => ByteOffset(text, i) < ByteOffset(text, k)
      BY <3>1, OffsetsGrow
    <3>3. k < i => ByteOffset(text, k) < ByteOffset(text, i)
      BY <3>1, OffsetsGrow
    <3> QED
      BY <3>1, <3>2, <3>3
  <2>3. {i \in DOMAIN text : ByteOffset(text, i) <= ByteOffset(text, k)} = 1..k
    BY <2>1, <2>2
  <2>4. Cardinality(1..k) = k
    BY <2>1, Counted
  <2> QED
    BY <2>3, <2>4 DEF CharsUntil
<1>2. slice[1] = ByteOffset(text, m) /\ slice[2] = ByteOffset(text, n)
  OBVIOUS
<1>3. CharsUntil(text, slice[1]) = m /\ CharsUntil(text, slice[2]) = n
  BY <1>1, <1>2
<1> QED
  BY <1>3 DEF Decode

-----------------------------------------------------------------------------
(* The composed form of a text                                             *)

Joins(done, char) == char = "accent" /\ done # <<>> /\ Last(done) \in {"a", "A"}
Joined(done, char) ==
    IF Joins(done, char) THEN Append(Front(done), Compose(Last(done))) ELSE Append(done, char)

(* K[k] is the composed form of the first k characters.                    *)
ComposedBy(K, text) ==
    /\ K[0] = <<>> /\ \A k \in 0..Len(text) : K[k] \in Seq(Chars)
    /\ \A k \in 1..Len(text) : K[k] = Joined(K[k - 1], text[k])

LEMMA JoinedType ==
  ASSUME NEW done \in Seq(Chars), NEW char \in Chars
  PROVE  /\ Joined(done, char) \in Seq(Chars)
         /\ Joins(done, char) => Len(Joined(done, char)) = Len(done)
         /\ ~Joins(done, char) => Len(Joined(done, char)) = Len(done) + 1
<1>1. CASE ~Joins(done, char)
  BY <1>1 DEF Joined
<1>2. CASE Joins(done, char)
  <2>1. Len(done) \in Nat /\ Len(done) > 0 /\ Last(done) \in {"a", "A"}
    BY <1>2 DEF Joins
  <2>2. Compose(Last(done)) \in Chars
    BY <2>1 DEF Compose, Chars
  <2>3. Front(done) \in Seq(Chars) /\ Len(Front(done)) = Len(done) - 1
    <3>1. PICK m \in Nat : m = Len(done) - 1 /\ m <= Len(done)
      BY <2>1
    <3>2. SubSeq(done, 1, m) \in Seq(Chars) /\ Len(SubSeq(done, 1, m)) = m
      BY <3>1
    <3> QED
      BY <3>1, <3>2 DEF Front
  <2> QED
    BY <1>2, <2>1, <2>2, <2>3 DEF Joined
<1> QED
  BY <1>1, <1>2

LEMMA ComposedRuns ==
  ASSUME NEW text \in Seq(Chars)
  PROVE  \E K : ComposedBy(K, text) /\ K[Len(text)] = NFC(text)
<1> DEFINE T == Seq(Chars)
           n == Len(text)
           Op(done, char) ==
               IF char = "accent" /\ done # <<>> /\ Last(done) \in {"a", "A"}
               THEN Append(Front(done), Compose(Last(done)))
               ELSE Append(done, char)
           f == [p \in T \X Chars |-> Op(p[1], p[2])]
           next(g) == [S \in SUBSET DOMAIN text |->
                         IF S = {} THEN <<>> ELSE Op(g[S \ {Max(S)}], text[Max(S)])]
<1>1. NFC(text) = (CHOOSE g : g = next(g))[DOMAIN text]
  BY DEF NFC, FoldLeft, MapThenFoldSet
<1>2. \A done \in T, char \in Chars : Op(done, char) = Joined(done, char) /\ Op(done, char) \in T
  <2> TAKE done \in T, char \in Chars
  <2>1. Op(done, char) = Joined(done, char)
    BY DEF Joined, Joins
  <2> QED
    BY <2>1, JoinedType
<1> HIDE DEF Op
<1>3. f \in [T \X Chars -> T] /\ <<>> \in T
      /\ \A done \in T, char \in Chars : f[<<done, char>>] = Op(done, char)
  <2>1. \A p \in T \X Chars : p[1] \in T /\ p[2] \in Chars
    OBVIOUS
  <2>2. \A p \in T \X Chars : Op(p[1], p[2]) \in T
    BY <1>2, <2>1
  <2>3. \A done \in T, char \in Chars :
           <<done, char>> \in T \X Chars /\ f[<<done, char>>] = Op(done, char)
    OBVIOUS
  <2> QED
    BY <2>2, <2>3
<1>4. DOMAIN text = 1..n /\ n \in Nat /\ \A k \in 1..n : text[k] \in Chars
  OBVIOUS
<1> HIDE DEF f, T, n
<1>5. \E g : g = next(g)
  <2>1. PICK g \in [SUBSET (1..Len(text)) -> T] : IsIter(g, f, <<>>, text, Len(text))
    BY <1>3, IterExists
  <2>2. ASSUME NEW S \in SUBSET (1..n)
        PROVE  g[S] = IF S = {} THEN <<>> ELSE Op(g[S \ {Max(S)}], text[Max(S)])
    <3>1. CASE S = {}
      BY <2>1, <3>1 DEF IsIter, n
    <3>2. CASE S # {}
      <4>1. text[Max(S)] \in Chars /\ S \ {Max(S)} \in SUBSET (1..n)
        BY <3>2, MaxAt DEF n
      <4>2. g[S \ {Max(S)}] \in T
        BY <2>1, <4>1 DEF n
      <4> QED
        BY <1>3, <2>1, <3>2, <4>1, <4>2 DEF IsIter, n
    <3> QED
      BY <3>1, <3>2
  <2>3. g = [S \in SUBSET (1..n) |-> g[S]]
    BY <2>1 DEF n
  <2>4. g = next(g)
    BY <1>4, <2>2, <2>3
  <2> QED
    BY <2>4
<1> DEFINE G == CHOOSE g : g = next(g)
<1>6. G = next(G)
  BY <1>5
<1>7. NFC(text) = G[1..n]
  BY <1>1, <1>4
<1> HIDE DEF G
<1>8. ASSUME NEW S \in SUBSET (1..n)
      PROVE  G[S] = IF S = {} THEN <<>> ELSE Op(G[S \ {Max(S)}], text[Max(S)])
  <2>1. next(G)[S] = IF S = {} THEN <<>> ELSE Op(G[S \ {Max(S)}], text[Max(S)])
    BY <1>4
  <2> HIDE DEF next
  <2> QED
    BY <1>6, <2>1
<1> HIDE DEF next
<1>9. G[{}] = <<>>
  BY <1>8
<1>10. ASSUME NEW S \in SUBSET (1..Len(text)), S # {}, G[S \ {Max(S)}] \in T
       PROVE  G[S] = f[<<G[S \ {Max(S)}], text[Max(S)]>>]
  <2>1. text[Max(S)] \in Chars
    BY <1>10, MaxAt
  <2> QED
    BY <1>3, <1>8, <1>10, <2>1 DEF n
<1>11. PICK K : Runs(K, T, f, <<>>, text) /\ K[Len(text)] = G[1..Len(text)]
  <2>1. PICK base : base = <<>>
    OBVIOUS
  <2>2. RunsOnSets(G, T, f, base, text)
    BY <1>9, <1>10, <2>1 DEF RunsOnSets
  <2>3. \E K : Runs(K, T, f, base, text) /\ K[Len(text)] = G[1..Len(text)]
    <3>1. Foldable(T, Chars, f, base, text)
      BY <1>3, <2>1 DEF Foldable
    <3> QED
      BY <2>2, <3>1, FoldRuns
  <2> QED
    BY <2>1, <2>3
<1>12. ASSUME NEW k \in 1..n PROVE K[k] = Joined(K[k - 1], text[k])
  <2>1. k - 1 \in 0..n
    BY <1>4
  <2>2. K[k - 1] \in T /\ K[k] = f[<<K[k - 1], text[k]>>] /\ text[k] \in Chars
    BY <1>4, <1>11, <2>1 DEF Runs, n
  <2> QED
    BY <1>2, <1>3, <2>2
<1>13. ComposedBy(K, text)
  BY <1>11, <1>12 DEF ComposedBy, Runs, T, n
<1> QED
  BY <1>7, <1>11, <1>13 DEF n

(* No letter is followed by an accent that it could be composed with.      *)
Composed(text) == \A k \in 2..Len(text) : text[k] = "accent" => text[k - 1] \notin {"a", "A"}

(* As long as nothing is joined, the text is copied.                       *)
Copied(K, text, k) == Len(K[k]) = k /\ \A i \in 1..k : K[k][i] = text[i]

LEMMA CopiedStep ==
  ASSUME NEW text \in Seq(Chars), NEW K, ComposedBy(K, text), NEW k \in 1..Len(text),
         Copied(K, text, k - 1), ~Joins(K[k - 1], text[k])
  PROVE  Copied(K, text, k)
<1>1. K[k - 1] \in Seq(Chars) /\ k - 1 \in Nat /\ K[k] = Append(K[k - 1], text[k])
  <2>1. k - 1 \in 0..Len(text)
    OBVIOUS
  <2>2. K[k - 1] \in Seq(Chars) /\ K[k] = Joined(K[k - 1], text[k])
    BY <2>1 DEF ComposedBy
  <2> QED
    BY <2>1, <2>2 DEF Joined
<1>2. PICK s \in Seq(Chars) : s = K[k - 1]
  BY <1>1
<1>3. Len(s) = k - 1 /\ \A i \in 1..(k - 1) : s[i] = text[i]
  BY <1>2 DEF Copied
<1>4. Len(Append(s, text[k])) = k /\ \A i \in 1..k : Append(s, text[k])[i] = text[i]
  BY <1>3
<1> QED
  BY <1>1, <1>2, <1>4 DEF Copied

LEMMA JoinsAt ==
  ASSUME NEW text \in Seq(Chars), NEW K, ComposedBy(K, text), NEW k \in 1..Len(text),
         Copied(K, text, k - 1)
  PROVE  Joins(K[k - 1], text[k]) <=> k # 1 /\ text[k] = "accent" /\ text[k - 1] \in {"a", "A"}
<1>1. PICK s \in Seq(Chars) : s = K[k - 1]
  <2>1. k - 1 \in 0..Len(text)
    OBVIOUS
  <2> QED
    BY <2>1 DEF ComposedBy
<1>2. Len(s) = k - 1 /\ \A i \in 1..(k - 1) : s[i] = text[i]
  BY <1>1 DEF Copied
<1>3. s = <<>> <=> k = 1
  BY <1>2
<1>4. k # 1 => Last(s) = text[k - 1]
  BY <1>2 DEF Last
<1> QED
  BY <1>1, <1>3, <1>4 DEF Joins

LEMMA ComposedForm ==
  ASSUME NEW text \in Seq(Chars)
  PROVE  /\ NFC(text) \in Seq(Chars)
         /\ Len(text) > 0 => Len(NFC(text)) > 0
         /\ NFC(text) = text <=> Composed(text)
<1> DEFINE n == Len(text)
<1>1. PICK K : ComposedBy(K, text) /\ K[n] = NFC(text)
  BY ComposedRuns
<1>2. n \in Nat /\ \A k \in 1..n : text[k] \in Chars
  OBVIOUS
<1> HIDE DEF n
<1>3. \A k \in 0..n : K[k] \in Seq(Chars) /\ Len(K[k]) \in Nat
  <2>1. \A k \in 0..n : K[k] \in Seq(Chars)
    BY <1>1 DEF ComposedBy, n
  <2> QED
    BY <2>1
<1>4. ASSUME NEW k \in 1..n
      PROVE  /\ Joins(K[k - 1], text[k]) => Len(K[k]) = Len(K[k - 1])
             /\ ~Joins(K[k - 1], text[k]) => Len(K[k]) = Len(K[k - 1]) + 1
             /\ Joins(K[k - 1], text[k]) => Len(K[k - 1]) > 0
  <2>1. k - 1 \in 0..n
    BY <1>2
  <2>2. K[k] = Joined(K[k - 1], text[k]) /\ K[k - 1] \in Seq(Chars) /\ text[k] \in Chars
    BY <1>1, <1>2, <2>1 DEF ComposedBy, n
  <2>3. Joins(K[k - 1], text[k]) => Len(K[k - 1]) > 0
    BY <2>2 DEF Joins
  <2> QED
    BY <2>2, <2>3, JoinedType
<1>5. \A k \in 0..n : Len(K[k]) <= k /\ (k > 0 => Len(K[k]) > 0)
  <2> DEFINE Z == {k \in 0..n : Len(K[k]) <= k /\ (k > 0 => Len(K[k]) > 0)}
  <2>1. 0 \in Z
    <3>1. K[0] = <<>>
      BY <1>1 DEF ComposedBy
    <3> QED
      BY <1>2, <3>1
  <2>2. ASSUME NEW k \in 1..n, k - 1 \in Z PROVE k \in Z
    <3>1. Len(K[k]) \in Nat /\ Len(K[k - 1]) \in Nat /\ Len(K[k - 1]) <= k - 1
      BY <1>2, <1>3, <2>2
    <3> QED
      BY <1>2, <1>4, <3>1
  <2> HIDE DEF Z
  <2>3. \A k \in 0..n : k \in Z
    BY <1>2, <2>1, <2>2, Throughout
  <2> QED
    BY <2>3 DEF Z
<1>6. ASSUME Composed(text) PROVE NFC(text) = text
  <2> DEFINE Z == {k \in 0..n : Copied(K, text, k)}
  <2>1. 0 \in Z
    <3>1. K[0] = <<>>
      BY <1>1 DEF ComposedBy
    <3> QED
      BY <1>2, <3>1 DEF Copied
  <2>2. ASSUME NEW k \in 1..n, k - 1 \in Z PROVE k \in Z
    <3>1. ~Joins(K[k - 1], text[k])
      <4>1. k # 1 => k \in 2..n
        BY <1>2
      <4> QED
        BY <1>1, <1>6, <2>2, <4>1, JoinsAt DEF Composed, n
    <3> QED
      BY <1>1, <1>2, <2>2, <3>1, CopiedStep DEF n
  <2> HIDE DEF Z
  <2>3. \A k \in 0..n : k \in Z
    BY <1>2, <2>1, <2>2, Throughout
  <2>4. Len(K[n]) = n /\ \A i \in 1..n : K[n][i] = text[i]
    BY <1>2, <2>3 DEF Z, Copied
  <2>5. K[n] \in Seq(Chars)
    BY <1>2, <1>3
  <2> QED
    BY <1>1, <2>4, <2>5 DEF n
<1>7. ASSUME ~Composed(text) PROVE Len(NFC(text)) < n
  <2>1. PICK j \in 2..n : text[j] = "accent" /\ text[j - 1] \in {"a", "A"}
    BY <1>7 DEF Composed, n
  <2> DEFINE W == {k \in 1..n : Joins(K[k - 1], text[k])}
  <2>2. W # {}
    <3> SUFFICES ASSUME W = {} PROVE FALSE
      OBVIOUS
    <3> DEFINE Z == {k \in 0..n : Copied(K, text, k)}
    <3>1. 0 \in Z
      <4>1. K[0] = <<>>
        BY <1>1 DEF ComposedBy
      <4> QED
        BY <1>2, <4>1 DEF Copied
    <3>2. ASSUME NEW k \in 1..n, k - 1 \in Z PROVE k \in Z
      BY <1>1, <1>2, <3>2, CopiedStep DEF n
    <3> HIDE DEF Z
    <3>3. \A k \in 0..n : k \in Z
      BY <1>2, <3>1, <3>2, Throughout
    <3>4. j \in 1..n /\ j - 1 \in 0..n /\ j # 1
      BY <1>2, <2>1
    <3>5. Copied(K, text, j - 1)
      BY <3>3, <3>4 DEF Z
    <3>6. Joins(K[j - 1], text[j])
      BY <1>1, <2>1, <3>4, <3>5, JoinsAt DEF n
    <3> QED
      BY <3>4, <3>6
  <2>3. PICK w \in 1..n : Joins(K[w - 1], text[w])
    BY <2>2
  <2> DEFINE Z == {k \in 0..n : k >= w => Len(K[k]) < k}
  <2>4. 0 \in Z
    BY <1>2, <2>3
  <2>5. ASSUME NEW k \in 1..n, k - 1 \in Z PROVE k \in Z
    <3>1. Len(K[k]) \in Nat /\ Len(K[k - 1]) \in Nat /\ Len(K[k - 1]) <= k - 1
      <4>1. k - 1 \in 0..n /\ k \in 0..n
        BY <1>2
      <4> QED
        BY <1>3, <1>5, <4>1
    <3>2. CASE k = w
      BY <1>2, <1>4, <2>3, <3>1, <3>2
    <3>3. CASE k > w
      <4>1. Len(K[k - 1]) < k - 1
        BY <1>2, <2>3, <2>5, <3>3
      <4> QED
        BY <1>2, <1>4, <3>1, <4>1
    <3> QED
      BY <1>2, <2>3, <3>2, <3>3
  <2> HIDE DEF Z
  <2>6. \A k \in 0..n : k \in Z
    BY <1>2, <2>4, <2>5, Throughout
  <2>7. n >= w /\ n \in 0..n
    BY <1>2, <2>3
  <2> QED
    BY <1>1, <2>6, <2>7 DEF Z
<1>8. NFC(text) \in Seq(Chars) /\ (n > 0 => Len(NFC(text)) > 0)
  BY <1>1, <1>2, <1>3, <1>5
<1>9. NFC(text) = text <=> Composed(text)
  <2>1. Len(text) = n
    BY DEF n
  <2> QED
    BY <1>2, <1>6, <1>7, <2>1
<1> QED
  BY <1>8, <1>9 DEF n

-----------------------------------------------------------------------------
(* The spans of composed characters                                        *)

RegionsOf(text, nfc) ==
    [alo : 0..Len(text), ahi : 0..Len(text), blo : 0..Len(nfc), bhi : 0..Len(nfc)]
Filling(text, r) ==
    LET end == IF r.alo = r.ahi /\ r.alo < Len(text) THEN r.alo + 1 ELSE r.ahi
    IN  [n \in 1..(r.bhi - r.blo) |-> <<r.alo, end>>]
Before(r, m) == [r EXCEPT !.ahi = m.i, !.bhi = m.j]
After(r, m) == [r EXCEPT !.alo = m.i + m.k, !.blo = m.j + m.k]
Matched(m) == [n \in 1..m.k |-> <<m.i + n - 1, m.i + n>>]

(* The spans of a region, if f has those of the smaller ones.              *)
SpanStep(text, nfc, f, r) ==
    LET m == Longest(Blocks(text, nfc, r))
    IN  IF Blocks(text, nfc, r) = {} THEN Filling(text, r)
        ELSE f[Before(r, m)] \o Matched(m) \o f[After(r, m)]

Covered(f, text, nfc) == f = [r \in RegionsOf(text, nfc) |-> SpanStep(text, nfc, f, r)]

LEMMA NfcSpansChosen ==
  ASSUME NEW text, NEW nfc
  PROVE  NfcSpans(text, nfc) =
           (CHOOSE f : Covered(f, text, nfc))
              [[alo |-> 0, ahi |-> Len(text), blo |-> 0, bhi |-> Len(nfc)]]
BY DEF NfcSpans, Covered, RegionsOf, SpanStep, Filling, Before, After, Matched

LEMMA BlockFits ==
  ASSUME NEW text \in Seq(Chars), NEW nfc \in Seq(Chars), NEW r \in RegionsOf(text, nfc),
         NEW m \in Blocks(text, nfc, r)
  PROVE  /\ m.i \in Nat /\ m.j \in Nat /\ m.k \in Nat \ {0} /\ m.k <= Len(nfc)
         /\ r.alo <= m.i /\ m.i + m.k <= r.ahi /\ r.blo <= m.j /\ m.j + m.k <= r.bhi
         /\ Before(r, m) \in RegionsOf(text, nfc) /\ After(r, m) \in RegionsOf(text, nfc)
<1>1. r.alo \in Nat /\ r.ahi \in 0..Len(text) /\ r.blo \in Nat /\ r.bhi \in 0..Len(nfc)
  BY DEF RegionsOf
<1>2. /\ m.i \in r.alo..(r.ahi - 1) /\ m.j \in r.blo..(r.bhi - 1) /\ m.k \in 1..Len(nfc)
      /\ m.i + m.k <= r.ahi /\ m.j + m.k <= r.bhi
  BY DEF Blocks
<1>3. Len(text) \in Nat /\ Len(nfc) \in Nat
  OBVIOUS
<1>4. m.i \in 0..Len(text) /\ m.j \in 0..Len(nfc)
      /\ m.i + m.k \in 0..Len(text) /\ m.j + m.k \in 0..Len(nfc)
  <2>1. m.i \in Nat /\ m.j \in Nat /\ m.k \in Nat
    BY <1>1, <1>2, <1>3
  <2>2. m.i + m.k <= Len(text) /\ m.j + m.k <= Len(nfc)
    <3>1. r.ahi <= Len(text) /\ r.bhi <= Len(nfc) /\ r.ahi \in Nat /\ r.bhi \in Nat
      BY <1>1, <1>3
    <3> QED
      BY <1>2, <1>3, <2>1, <3>1
  <2> QED
    BY <1>3, <2>1, <2>2
<1>5. Before(r, m) \in RegionsOf(text, nfc) /\ After(r, m) \in RegionsOf(text, nfc)
  BY <1>4 DEF RegionsOf, Before, After
<1> QED
  BY <1>1, <1>2, <1>3, <1>5

Blocky(blocks, top) == \A m \in blocks :
    m.i \in Nat /\ m.j \in Nat /\ m.k \in Nat /\ m.k <= top

LEMMA LongestExists ==
  ASSUME NEW top \in Nat, NEW blocks, Blocky(blocks, top), blocks # {}
  PROVE  /\ Longest(blocks) \in blocks
         /\ \A n \in blocks : Longest(blocks).k >= n.k
<1> DEFINE Shorts == {top - m.k : m \in blocks}
<1>1. Shorts \in SUBSET Nat /\ Shorts # {}
  BY DEF Blocky
<1>2. PICK s \in Shorts : \A t \in Shorts : s <= t
  BY <1>1, LeastElement
<1>3. PICK a \in blocks : s = top - a.k
  BY <1>2
<1>4. \A n \in blocks : a.k >= n.k
  <2> TAKE n \in blocks
  <2>1. s <= top - n.k
    BY <1>2
  <2> QED
    BY <1>3, <2>1 DEF Blocky
<1> HIDE DEF Shorts
<1> DEFINE Froms == {m.i : m \in {m \in blocks : m.k = a.k}}
<1>5. Froms \in SUBSET Nat /\ Froms # {}
  BY DEF Blocky
<1>6. PICK i \in Froms : \A t \in Froms : i <= t
  BY <1>5, LeastElement
<1>7. PICK b \in blocks : b.k = a.k /\ i = b.i
  BY <1>6
<1>8. \A n \in blocks : n.k = a.k => b.i <= n.i
  BY <1>6, <1>7
<1> HIDE DEF Froms
<1> DEFINE Tos == {m.j : m \in {m \in blocks : m.k = a.k /\ m.i = b.i}}
<1>9. Tos \in SUBSET Nat /\ Tos # {}
  BY <1>7 DEF Blocky
<1>10. PICK j \in Tos : \A t \in Tos : j <= t
  BY <1>9, LeastElement
<1>11. PICK c \in blocks : c.k = a.k /\ c.i = b.i /\ j = c.j
  BY <1>10
<1>12. \A n \in blocks : n.k = a.k /\ n.i = b.i => c.j <= n.j
  BY <1>10, <1>11
<1> HIDE DEF Tos
<1>13. \A n \in blocks : \/ c.k > n.k
                         \/ c.k = n.k /\ (c.i < n.i \/ (c.i = n.i /\ c.j <= n.j))
  <2> TAKE n \in blocks
  <2>1. a.k \in Nat /\ n.k \in Nat /\ n.i \in Nat /\ b.i \in Nat
    BY DEF Blocky
  <2> QED
    BY <1>4, <1>7, <1>8, <1>11, <1>12, <2>1
<1>14. /\ Longest(blocks) \in blocks
       /\ \A n \in blocks : \/ Longest(blocks).k > n.k
                            \/ Longest(blocks).k = n.k
  BY <1>13 DEF Longest
<1>15. \A n \in blocks : n.k \in Nat
  BY DEF Blocky
<1> QED
  BY <1>14, <1>15

LEMMA LongestFits ==
  ASSUME NEW text \in Seq(Chars), NEW nfc \in Seq(Chars), NEW r \in RegionsOf(text, nfc),
         Blocks(text, nfc, r) # {}
  PROVE  /\ Longest(Blocks(text, nfc, r)) \in Blocks(text, nfc, r)
         /\ \A n \in Blocks(text, nfc, r) : Longest(Blocks(text, nfc, r)).k >= n.k
<1>1. PICK blocks : blocks = Blocks(text, nfc, r)
  OBVIOUS
<1>2. Blocky(blocks, Len(nfc))
  BY <1>1, BlockFits DEF Blocky
<1>3. Len(nfc) \in Nat
  OBVIOUS
<1> QED
  BY <1>1, <1>2, <1>3, LongestExists

(* A step looks at smaller regions only.                                   *)
Agree(f, g, text, nfc, n) ==
    \A r \in RegionsOf(text, nfc) : r.ahi - r.alo < n => f[r] = g[r]

LEMMA StepLocal ==
  ASSUME NEW text \in Seq(Chars), NEW nfc \in Seq(Chars), NEW r \in RegionsOf(text, nfc),
         NEW f, NEW g, Agree(f, g, text, nfc, r.ahi - r.alo)
  PROVE  SpanStep(text, nfc, f, r) = SpanStep(text, nfc, g, r)
<1>1. CASE Blocks(text, nfc, r) = {}
  BY <1>1 DEF SpanStep
<1>2. CASE Blocks(text, nfc, r) # {}
  <2>1. PICK m : m = Longest(Blocks(text, nfc, r))
    OBVIOUS
  <2>2. m \in Blocks(text, nfc, r)
    BY <1>2, <2>1, LongestFits
  <2>3. /\ m.i \in Nat /\ m.k \in Nat \ {0} /\ r.alo <= m.i /\ m.i + m.k <= r.ahi
        /\ Before(r, m) \in RegionsOf(text, nfc) /\ After(r, m) \in RegionsOf(text, nfc)
    BY <2>2, BlockFits
  <2>4. r.alo \in Nat /\ r.ahi \in Nat /\ r \in RegionsOf(text, nfc)
    BY DEF RegionsOf
  <2>5. Before(r, m).alo = r.alo /\ Before(r, m).ahi = m.i
        /\ After(r, m).alo = m.i + m.k /\ After(r, m).ahi = r.ahi
    BY DEF RegionsOf, Before, After
  <2>6. f[Before(r, m)] = g[Before(r, m)]
    <3>1. Before(r, m).ahi - Before(r, m).alo < r.ahi - r.alo
      BY <2>3, <2>4, <2>5
    <3> QED
      BY <2>3, <3>1 DEF Agree
  <2>7. f[After(r, m)] = g[After(r, m)]
    <3>1. After(r, m).ahi - After(r, m).alo < r.ahi - r.alo
      BY <2>3, <2>4, <2>5
    <3> QED
      BY <2>3, <3>1 DEF Agree
  <2> QED
    BY <1>2, <2>1, <2>6, <2>7 DEF SpanStep
<1> QED
  BY <1>1, <1>2

LEMMA NoRoom ==
  ASSUME NEW text \in Seq(Chars), NEW nfc \in Seq(Chars), NEW r \in RegionsOf(text, nfc),
         r.ahi - r.alo < 1
  PROVE  Blocks(text, nfc, r) = {}
<1> SUFFICES ASSUME NEW m \in Blocks(text, nfc, r) PROVE FALSE
  OBVIOUS
<1>1. r.alo \in Nat /\ r.ahi \in Nat
  BY DEF RegionsOf
<1>2. m.i \in Nat /\ m.k \in Nat \ {0} /\ r.alo <= m.i /\ m.i + m.k <= r.ahi
  BY BlockFits
<1> QED
  BY <1>1, <1>2

(* f has the spans of the regions of fewer than n characters.              *)
CoveredUpTo(f, text, nfc, n) ==
    /\ f = [r \in RegionsOf(text, nfc) |-> f[r]]
    /\ \A r \in RegionsOf(text, nfc) :
          r.ahi - r.alo < n => f[r] = SpanStep(text, nfc, f, r)

LEMMA CoverGrows ==
  ASSUME NEW text \in Seq(Chars), NEW nfc \in Seq(Chars), NEW n \in Int,
         NEW f, CoveredUpTo(f, text, nfc, n)
  PROVE  \E g : CoveredUpTo(g, text, nfc, n + 1)
<1> DEFINE g == [r \in RegionsOf(text, nfc) |->
                   IF r.ahi - r.alo < n THEN f[r] ELSE SpanStep(text, nfc, f, r)]
<1>1. g = [r \in RegionsOf(text, nfc) |-> g[r]]
  OBVIOUS
<1>2. \A r \in RegionsOf(text, nfc) :
         g[r] = IF r.ahi - r.alo < n THEN f[r] ELSE SpanStep(text, nfc, f, r)
  OBVIOUS
<1> HIDE DEF g
<1>3. ASSUME NEW r \in RegionsOf(text, nfc), r.ahi - r.alo < n + 1
      PROVE  g[r] = SpanStep(text, nfc, g, r)
  <2>1. r.alo \in Int /\ r.ahi \in Int
    BY DEF RegionsOf
  <2>2. g[r] = SpanStep(text, nfc, f, r)
    BY <1>2 DEF CoveredUpTo
  <2>3. Agree(f, g, text, nfc, r.ahi - r.alo)
    <3> SUFFICES ASSUME NEW q \in RegionsOf(text, nfc), q.ahi - q.alo < r.ahi - r.alo
                 PROVE  f[q] = g[q]
      BY DEF Agree
    <3>1. q.alo \in Int /\ q.ahi \in Int
      BY DEF RegionsOf
    <3>2. q.ahi - q.alo < n
      BY <1>3, <2>1, <3>1
    <3> QED
      BY <1>2, <3>2
  <2>4. SpanStep(text, nfc, f, r) = SpanStep(text, nfc, g, r)
    BY <2>3, StepLocal
  <2> QED
    BY <2>2, <2>4
<1>4. CoveredUpTo(g, text, nfc, n + 1)
  BY <1>1, <1>3 DEF CoveredUpTo
<1> QED
  BY <1>4

LEMMA SpansExist ==
  ASSUME NEW text \in Seq(Chars), NEW nfc \in Seq(Chars)
  PROVE  \E f : Covered(f, text, nfc)
<1> DEFINE top == Len(text) + 1
           Z == {n \in 0..top : \E f : CoveredUpTo(f, text, nfc, n)}
<1>1. top \in Nat
  OBVIOUS
<1>2. 0 \in Z
  <2> DEFINE f == [r \in RegionsOf(text, nfc) |-> Filling(text, r)]
  <2>1. f = [r \in RegionsOf(text, nfc) |-> f[r]]
    OBVIOUS
  <2>2. ASSUME NEW r \in RegionsOf(text, nfc), r.ahi - r.alo < 0
        PROVE  f[r] = SpanStep(text, nfc, f, r)
    <3>1. r.ahi - r.alo < 1
      BY <2>2 DEF RegionsOf
    <3> QED
      BY <3>1, NoRoom DEF SpanStep
  <2> HIDE DEF f
  <2>3. CoveredUpTo(f, text, nfc, 0)
    BY <2>1, <2>2 DEF CoveredUpTo
  <2> QED
    BY <1>1, <2>3
<1>3. ASSUME NEW n \in 1..top, n - 1 \in Z PROVE n \in Z
  <2>1. PICK f : CoveredUpTo(f, text, nfc, n - 1)
    BY <1>3
  <2>2. n - 1 \in Int /\ (n - 1) + 1 = n
    OBVIOUS
  <2>3. \E g : CoveredUpTo(g, text, nfc, (n - 1) + 1)
    BY <2>1, <2>2, CoverGrows
  <2>4. \E g : CoveredUpTo(g, text, nfc, n)
    BY <2>2, <2>3
  <2>5. n \in 0..top
    BY <1>1
  <2> QED
    BY <2>4, <2>5
<1> HIDE DEF Z, top
<1>4. top \in Z
  <2>1. \A n \in 0..top : n \in Z
    BY <1>1, <1>2, <1>3, Throughout
  <2> QED
    BY <1>1, <2>1
<1>5. PICK f : CoveredUpTo(f, text, nfc, top)
  BY <1>4 DEF Z
<1>6. ASSUME NEW r \in RegionsOf(text, nfc) PROVE f[r] = SpanStep(text, nfc, f, r)
  <2>1. r.alo \in 0..Len(text) /\ r.ahi \in 0..Len(text) /\ Len(text) \in Nat
    BY DEF RegionsOf
  <2>2. r.ahi - r.alo < top
    BY <2>1 DEF top
  <2> QED
    BY <1>5, <2>2 DEF CoveredUpTo
<1>7. f = [r \in RegionsOf(text, nfc) |-> f[r]]
  BY <1>5 DEF CoveredUpTo
<1>8. Covered(f, text, nfc)
  BY <1>6, <1>7 DEF Covered
<1> QED
  BY <1>8

(* Spans within a text of top characters that start in order between lo    *)
(* and hi.                                                                 *)
Fit(s, lo, hi, top, n) ==
    /\ s \in Seq(Nat \X Nat) /\ Len(s) = n
    /\ \A i \in 1..n : /\ lo <= s[i][1] /\ s[i][1] <= hi
                       /\ s[i][1] <= s[i][2] /\ s[i][2] <= top
    /\ \A i, j \in 1..n : i <= j => s[i][1] <= s[j][1]

LEMMA FitJoined ==
  ASSUME NEW lo \in Nat, NEW x \in Nat, NEW hi \in Nat, NEW top \in Nat,
         NEW p \in Nat, NEW q \in Nat, lo <= x, x <= hi,
         NEW s, Fit(s, lo, x, top, p), NEW t, Fit(t, x, hi, top, q)
  PROVE  Fit(s \o t, lo, hi, top, p + q)
<1>1. PICK a \in Seq(Nat \X Nat) : a = s
  BY DEF Fit
<1>2. PICK b \in Seq(Nat \X Nat) : b = t
  BY DEF Fit
<1>3. PICK c : c = a \o b
  OBVIOUS
<1>4. Len(a) = p /\ Len(b) = q
  BY <1>1, <1>2 DEF Fit
<1>5. /\ c \in Seq(Nat \X Nat) /\ Len(c) = p + q
      /\ \A i \in 1..p : c[i] = a[i]
      /\ \A i \in 1..q : c[p + i] = b[i]
  <2> HIDE DEF Fit
  <2>1. Len(c) = Len(a) + Len(b)
    BY <1>3
  <2>2. c \in Seq(Nat \X Nat)
    BY <1>3
  <2>3. \A i \in 1..Len(a) : c[i] = a[i]
    BY <1>3
  <2>4. \A i \in 1..Len(b) : c[Len(a) + i] = b[i]
    BY <1>3
  <2> QED
    BY <1>4, <2>1, <2>2, <2>3, <2>4
<1>6. \A i \in 1..p : /\ a[i] \in Nat \X Nat /\ lo <= a[i][1] /\ a[i][1] <= x
                      /\ a[i][1] <= a[i][2] /\ a[i][2] <= top
                      /\ a[i][1] \in Nat /\ a[i][2] \in Nat
  <2>1. \A i \in 1..p : a[i] \in Nat \X Nat
    BY <1>4
  <2> QED
    BY <1>1, <2>1 DEF Fit
<1>7. \A i \in 1..q : /\ b[i] \in Nat \X Nat /\ x <= b[i][1] /\ b[i][1] <= hi
                      /\ b[i][1] <= b[i][2] /\ b[i][2] <= top
                      /\ b[i][1] \in Nat /\ b[i][2] \in Nat
  <2>1. \A i \in 1..q : b[i] \in Nat \X Nat
    BY <1>4
  <2> QED
    BY <1>2, <2>1 DEF Fit
<1>8. ASSUME NEW i \in 1..(p + q)
      PROVE  /\ lo <= c[i][1] /\ c[i][1] <= hi /\ c[i][1] <= c[i][2] /\ c[i][2] <= top
             /\ i <= p => c[i][1] <= x
             /\ i > p => x <= c[i][1]
             /\ c[i][1] \in Nat
  <2>1. CASE i <= p
    <3>1. i \in 1..p /\ c[i] = a[i]
      BY <1>5, <2>1
    <3> QED
      BY <1>6, <2>1, <3>1
  <2>2. CASE i > p
    <3>1. PICK l \in 1..q : i = p + l
      BY <2>2
    <3>2. c[i] = b[l]
      BY <1>5, <3>1
    <3>3. lo <= c[i][1] /\ c[i][1] <= hi /\ c[i][1] <= c[i][2] /\ c[i][2] <= top
          /\ x <= c[i][1] /\ c[i][1] \in Nat
      BY <1>7, <3>2
    <3> QED
      BY <2>2, <3>3
  <2> QED
    BY <2>1, <2>2
<1>9. ASSUME NEW i \in 1..(p + q), NEW j \in 1..(p + q), i <= j PROVE c[i][1] <= c[j][1]
  <2>1. CASE j <= p
    <3>1. i \in 1..p /\ j \in 1..p
      BY <1>9, <2>1
    <3>2. c[i] = a[i] /\ c[j] = a[j]
      BY <1>5, <3>1
    <3> QED
      BY <1>1, <1>9, <3>1, <3>2 DEF Fit
  <2>2. CASE i > p
    <3>1. PICK l \in 1..q : i = p + l
      BY <2>2
    <3>2. PICK k \in 1..q : j = p + k
      BY <1>9, <2>2
    <3>3. l <= k /\ c[i] = b[l] /\ c[j] = b[k]
      BY <1>5, <1>9, <3>1, <3>2
    <3> QED
      BY <1>2, <3>3 DEF Fit
  <2>3. CASE i <= p /\ j > p
    BY <1>8, <2>3
  <2> QED
    BY <2>1, <2>2, <2>3
<1> QED
  BY <1>1, <1>2, <1>3, <1>5, <1>8, <1>9 DEF Fit

Straight(text, nfc) == {r \in RegionsOf(text, nfc) : r.alo <= r.ahi /\ r.blo <= r.bhi}

FitRegion(text, r, s) == Fit(s, r.alo, r.ahi, Len(text), r.bhi - r.blo)

LEMMA FillingFits ==
  ASSUME NEW text \in Seq(Chars), NEW nfc \in Seq(Chars), NEW r \in Straight(text, nfc)
  PROVE  FitRegion(text, r, Filling(text, r))
<1>1. /\ r.alo \in Nat /\ r.ahi \in Nat /\ r.blo \in Nat /\ r.bhi \in Nat /\ Len(text) \in Nat
      /\ r.alo <= r.ahi /\ r.ahi <= Len(text) /\ r.blo <= r.bhi
  BY DEF Straight, RegionsOf
<1>2. PICK n \in Nat : n = r.bhi - r.blo
  BY <1>1
<1>3. PICK end : end = IF r.alo = r.ahi /\ r.alo < Len(text) THEN r.alo + 1 ELSE r.ahi
  OBVIOUS
<1>4. end \in Nat /\ r.alo <= end /\ end <= Len(text)
  BY <1>1, <1>3
<1>5. PICK s : s = [i \in 1..n |-> <<r.alo, end>>]
  OBVIOUS
<1>6. s \in Seq(Nat \X Nat) /\ Len(s) = n
      /\ \A i \in 1..n : s[i] = <<r.alo, end>> /\ s[i][1] = r.alo /\ s[i][2] = end
  BY <1>1, <1>4, <1>5
<1>7. Filling(text, r) = s
  BY <1>2, <1>3, <1>5 DEF Filling
<1>8. Fit(s, r.alo, r.ahi, Len(text), n)
  BY <1>1, <1>4, <1>6 DEF Fit
<1> QED
  BY <1>2, <1>7, <1>8 DEF FitRegion

LEMMA MatchedFits ==
  ASSUME NEW m, m.i \in Nat, m.k \in Nat, NEW top \in Nat, m.i + m.k <= top
  PROVE  Fit(Matched(m), m.i, m.i + m.k, top, m.k)
<1>1. PICK i \in Nat, k \in Nat : i = m.i /\ k = m.k
  OBVIOUS
<1>2. PICK s : s = [n \in 1..k |-> <<i + n - 1, i + n>>]
  OBVIOUS
<1>3. ASSUME NEW n \in 1..k
      PROVE  s[n] \in Nat \X Nat /\ s[n][1] = i + n - 1 /\ s[n][2] = i + n
  BY <1>2
<1>4. s \in Seq(Nat \X Nat) /\ Len(s) = k
  <2>1. s = [n \in 1..k |-> s[n]]
    BY <1>2
  <2> QED
    BY <1>3, <2>1
<1>5. \A n \in 1..k : /\ i <= s[n][1] /\ s[n][1] <= i + k
                      /\ s[n][1] <= s[n][2] /\ s[n][2] <= top
  <2> TAKE n \in 1..k
  <2>1. i <= i + n - 1 /\ i + n - 1 <= i + k /\ i + n - 1 <= i + n /\ i + n <= top
    BY <1>1
  <2> QED
    BY <1>3, <2>1
<1>6. \A n, l \in 1..k : n <= l => s[n][1] <= s[l][1]
  <2> TAKE n \in 1..k, l \in 1..k
  <2>1. n <= l => i + n - 1 <= i + l - 1
    OBVIOUS
  <2> QED
    BY <1>3, <2>1
<1>7. Fit(s, i, i + k, top, k)
  BY <1>4, <1>5, <1>6 DEF Fit
<1> QED
  BY <1>1, <1>2, <1>7 DEF Matched

LEMMA SpansFit ==
  ASSUME NEW text \in Seq(Chars), NEW nfc \in Seq(Chars)
  PROVE  Fit(NfcSpans(text, nfc), 0, Len(text), Len(text), Len(nfc))
<1> DEFINE spans == CHOOSE f : Covered(f, text, nfc)
           top == Len(text)
<1>1. /\ Covered(spans, text, nfc)
      /\ \A r \in RegionsOf(text, nfc) : spans[r] = SpanStep(text, nfc, spans, r)
  <2>1. Covered(spans, text, nfc)
    BY SpansExist
  <2> HIDE DEF spans
  <2> QED
    BY <2>1 DEF Covered
<1>2. NfcSpans(text, nfc) = spans[[alo |-> 0, ahi |-> Len(text), blo |-> 0, bhi |-> Len(nfc)]]
  BY NfcSpansChosen
<1> HIDE DEF spans
<1> DEFINE Z == {n \in 0..top : \A r \in Straight(text, nfc) :
                     r.ahi - r.alo <= n => FitRegion(text, r, spans[r])}
<1>3. top \in Nat
  OBVIOUS
<1>4. ASSUME NEW r \in Straight(text, nfc), Blocks(text, nfc, r) = {}
      PROVE  FitRegion(text, r, spans[r])
  <2>1. spans[r] = Filling(text, r)
    BY <1>1, <1>4 DEF SpanStep, Straight
  <2> QED
    BY <2>1, FillingFits
<1>5. 0 \in Z
  <2> SUFFICES ASSUME NEW r \in Straight(text, nfc), r.ahi - r.alo <= 0
               PROVE  FitRegion(text, r, spans[r])
    BY <1>3
  <2>1. r \in RegionsOf(text, nfc) /\ r.ahi - r.alo < 1
    BY DEF Straight, RegionsOf
  <2> QED
    BY <1>4, <2>1, NoRoom
<1>6. ASSUME NEW n \in 1..top, n - 1 \in Z PROVE n \in Z
  <2> SUFFICES ASSUME NEW r \in Straight(text, nfc), r.ahi - r.alo <= n
               PROVE  FitRegion(text, r, spans[r])
    BY <1>3
  <2>1. CASE Blocks(text, nfc, r) = {}
    BY <1>4, <2>1
  <2>2. CASE Blocks(text, nfc, r) # {}
    <3>1. PICK m : m = Longest(Blocks(text, nfc, r))
      OBVIOUS
    <3>2. m \in Blocks(text, nfc, r) /\ r \in RegionsOf(text, nfc)
      BY <2>2, <3>1, LongestFits DEF Straight
    <3>3. /\ m.i \in Nat /\ m.j \in Nat /\ m.k \in Nat \ {0}
          /\ r.alo <= m.i /\ m.i + m.k <= r.ahi /\ r.blo <= m.j /\ m.j + m.k <= r.bhi
          /\ Before(r, m) \in RegionsOf(text, nfc) /\ After(r, m) \in RegionsOf(text, nfc)
      BY <3>2, BlockFits
    <3>4. /\ r.alo \in Nat /\ r.ahi \in Nat /\ r.blo \in Nat /\ r.bhi \in Nat
          /\ r.ahi <= top
      BY <3>2 DEF RegionsOf
    <3>5. /\ Before(r, m).alo = r.alo /\ Before(r, m).ahi = m.i
          /\ Before(r, m).blo = r.blo /\ Before(r, m).bhi = m.j
          /\ After(r, m).alo = m.i + m.k /\ After(r, m).ahi = r.ahi
          /\ After(r, m).blo = m.j + m.k /\ After(r, m).bhi = r.bhi
      BY <3>2 DEF RegionsOf, Before, After
    <3>6. Before(r, m) \in Straight(text, nfc) /\ After(r, m) \in Straight(text, nfc)
      BY <3>3, <3>4, <3>5 DEF Straight
    <3>7. /\ Before(r, m).ahi - Before(r, m).alo <= n - 1
          /\ After(r, m).ahi - After(r, m).alo <= n - 1
      BY <3>3, <3>4, <3>5
    <3>8. FitRegion(text, Before(r, m), spans[Before(r, m)])
      BY <1>6, <3>6, <3>7
    <3>9. FitRegion(text, After(r, m), spans[After(r, m)])
      BY <1>6, <3>6, <3>7
    <3>10. PICK a, b, c : /\ a = spans[Before(r, m)] /\ b = Matched(m)
                          /\ c = spans[After(r, m)]
      OBVIOUS
    <3>11. PICK p \in Nat, x \in Nat, y \in Nat, q \in Nat, k \in Nat :
              /\ p = m.j - r.blo /\ x = m.i /\ y = m.i + m.k /\ q = r.bhi - (m.j + m.k)
              /\ k = m.k
      <4>1. PICK d \in Nat, e \in Nat, g \in Nat, h \in Nat :
                /\ d = m.i /\ e = m.j /\ g = m.k /\ h = m.i + m.k
        BY <3>3
      <4>2. PICK b1 \in Nat, b2 \in Nat : b1 = r.blo /\ b2 = r.bhi
        BY <3>4
      <4>3. e - b1 \in Nat /\ b2 - (e + g) \in Nat
        <5>1. b1 <= e /\ e + g <= b2
          BY <3>3, <4>1, <4>2
        <5> QED
          BY <5>1
      <4> QED
        BY <4>1, <4>2, <4>3
    <3>12. Fit(a, r.alo, x, top, p) /\ Fit(c, y, r.ahi, top, q)
      BY <3>5, <3>8, <3>9, <3>10, <3>11 DEF FitRegion
    <3>13. Fit(b, x, y, top, k)
      BY <1>3, <3>3, <3>4, <3>10, <3>11, MatchedFits
    <3>14. r.alo <= x /\ x <= y /\ y <= r.ahi
      BY <3>3, <3>4, <3>11
    <3>15. Fit(a \o b, r.alo, y, top, p + k)
      BY <1>3, <3>4, <3>11, <3>12, <3>13, <3>14, FitJoined
    <3>16. r.alo <= y /\ p + k \in Nat
      BY <3>4, <3>14
    <3>17. Fit((a \o b) \o c, r.alo, r.ahi, top, (p + k) + q)
      BY <1>3, <3>4, <3>11, <3>12, <3>14, <3>15, <3>16, FitJoined
    <3>18. (p + k) + q = r.bhi - r.blo
      <4>1. PICK e \in Nat, b1 \in Nat, b2 \in Nat : e = m.j /\ b1 = r.blo /\ b2 = r.bhi
        BY <3>3, <3>4
      <4>2. p = e - b1 /\ q = b2 - (e + k)
        BY <3>11, <4>1
      <4>3. (p + k) + q = b2 - b1
        BY <4>2
      <4> QED
        BY <4>1, <4>3
    <3>19. spans[r] = (a \o b) \o c
      BY <1>1, <2>2, <3>1, <3>2, <3>10 DEF SpanStep
    <3> QED
      BY <3>17, <3>18, <3>19 DEF FitRegion
  <2> QED
    BY <2>1, <2>2
<1> HIDE DEF Z, top
<1>7. top \in Z
  <2>1. \A n \in 0..top : n \in Z
    BY <1>3, <1>5, <1>6, Throughout
  <2> QED
    BY <1>3, <2>1
<1>8. PICK r : r = [alo |-> 0, ahi |-> Len(text), blo |-> 0, bhi |-> Len(nfc)]
  OBVIOUS
<1>9. r.alo = 0 /\ r.ahi = Len(text) /\ r.blo = 0 /\ r.bhi = Len(nfc)
  BY <1>8
<1>10. r \in Straight(text, nfc) /\ Len(text) \in Nat /\ Len(nfc) \in Nat
  <2>1. Len(text) \in Nat /\ Len(nfc) \in Nat
    OBVIOUS
  <2> QED
    BY <1>8, <2>1 DEF Straight, RegionsOf
<1>11. FitRegion(text, r, spans[r])
  <2>1. r.ahi - r.alo <= top
    BY <1>9, <1>10 DEF top
  <2> QED
    BY <1>7, <1>10, <2>1 DEF Z
<1>12. Len(nfc) - 0 = Len(nfc)
  BY <1>10
<1> QED
  BY <1>2, <1>8, <1>9, <1>11, <1>12 DEF FitRegion

(* Where nothing is composed, every character has its own span.            *)
LEMMA OwnSpans ==
  ASSUME NEW text \in Seq(Chars)
  PROVE  /\ Len(NfcSpans(text, text)) = Len(text)
         /\ \A n \in 1..Len(text) : NfcSpans(text, text)[n] = <<n - 1, n>>
<1> DEFINE spans == CHOOSE f : Covered(f, text, text)
           n == Len(text)
           r == [alo |-> 0, ahi |-> n, blo |-> 0, bhi |-> n]
<1>1. \A q \in RegionsOf(text, text) : spans[q] = SpanStep(text, text, spans, q)
  <2>1. Covered(spans, text, text)
    BY SpansExist
  <2> HIDE DEF spans
  <2> QED
    BY <2>1 DEF Covered
<1>2. NfcSpans(text, text) = spans[r]
  BY NfcSpansChosen
<1> HIDE DEF spans
<1>3. n \in Nat /\ r \in RegionsOf(text, text)
  BY DEF RegionsOf
<1>4. CASE n = 0
  <2>1. Blocks(text, text, r) = {}
    <3>1. r.ahi - r.alo < 1
      BY <1>4
    <3> QED
      BY <1>3, <3>1, NoRoom
  <2>2. spans[r] = Filling(text, r)
    BY <1>1, <1>3, <2>1 DEF SpanStep
  <2>3. spans[r] = <<>>
    <3>1. 1..(r.bhi - r.blo) = {}
      BY <1>4
    <3> QED
      BY <2>2, <3>1 DEF Filling
  <2> QED
    BY <1>2, <1>4, <2>3
<1>5. CASE n # 0
  <2> DEFINE whole == [i |-> 0, j |-> 0, k |-> n]
  <2>1. whole \in Blocks(text, text, r)
    <3>1. SubSeq(text, 0 + 1, 0 + n) = text
      BY <1>3
    <3> QED
      BY <1>3, <1>5, <3>1 DEF Blocks
  <2>2. PICK m : m = Longest(Blocks(text, text, r))
    OBVIOUS
  <2>3. m \in Blocks(text, text, r) /\ m.k >= whole.k
    BY <1>3, <2>1, <2>2, LongestFits
  <2>4. /\ m.i \in Nat /\ m.j \in Nat /\ m.k \in Nat \ {0} /\ m.k <= n
        /\ r.alo <= m.i /\ m.i + m.k <= r.ahi /\ r.blo <= m.j /\ m.j + m.k <= r.bhi
        /\ Before(r, m) \in RegionsOf(text, text) /\ After(r, m) \in RegionsOf(text, text)
    BY <1>3, <2>3, BlockFits
  <2>5. m.i = 0 /\ m.j = 0 /\ m.k = n
    BY <1>3, <2>3, <2>4
  <2>6. /\ Before(r, m).alo = 0 /\ Before(r, m).ahi = 0
        /\ Before(r, m).blo = 0 /\ Before(r, m).bhi = 0
        /\ After(r, m).alo = n /\ After(r, m).ahi = n
        /\ After(r, m).blo = n /\ After(r, m).bhi = n
    <3>1. PICK q : q = r
      OBVIOUS
    <3>2. q.alo = 0 /\ q.ahi = n /\ q.blo = 0 /\ q.bhi = n
      BY <3>1
    <3>3. q \in RegionsOf(text, text)
      BY <1>3, <3>1
    <3>4. /\ Before(q, m).alo = q.alo /\ Before(q, m).ahi = m.i
          /\ Before(q, m).blo = q.blo /\ Before(q, m).bhi = m.j
          /\ After(q, m).alo = m.i + m.k /\ After(q, m).ahi = q.ahi
          /\ After(q, m).blo = m.j + m.k /\ After(q, m).bhi = q.bhi
      BY <3>3 DEF RegionsOf, Before, After
    <3>5. 0 + n = n
      BY <1>3
    <3> QED
      BY <2>5, <3>1, <3>2, <3>4, <3>5
  <2>7. ASSUME NEW q \in RegionsOf(text, text), q.alo = q.ahi, q.blo = q.bhi
        PROVE  spans[q] = <<>>
    <3>1. q.ahi - q.alo < 1 /\ 1..(q.bhi - q.blo) = {}
      BY <2>7 DEF RegionsOf
    <3>2. Blocks(text, text, q) = {}
      BY <3>1, NoRoom
    <3>3. spans[q] = Filling(text, q)
      BY <1>1, <3>2 DEF SpanStep
    <3> QED
      BY <3>1, <3>3 DEF Filling
  <2>8. spans[Before(r, m)] = <<>> /\ spans[After(r, m)] = <<>>
    <3>1. Before(r, m).alo = Before(r, m).ahi /\ Before(r, m).blo = Before(r, m).bhi
      BY <2>6
    <3>2. After(r, m).alo = After(r, m).ahi /\ After(r, m).blo = After(r, m).bhi
      BY <2>6
    <3> QED
      BY <2>4, <2>7, <3>1, <3>2
  <2>9. PICK b : b = Matched(m)
    OBVIOUS
  <2>10. Fit(b, 0, n, n, n)
    BY <1>3, <2>4, <2>5, <2>9, MatchedFits
  <2>11. b \in Seq(Nat \X Nat) /\ Len(b) = n
    BY <2>10 DEF Fit
  <2>12. \A l \in 1..n : b[l] = <<l - 1, l>>
    <3> TAKE l \in 1..n
    <3>1. b[l] = <<m.i + l - 1, m.i + l>>
      BY <2>5, <2>9 DEF Matched
    <3>2. 0 + l - 1 = l - 1 /\ 0 + l = l
      BY <1>3
    <3> QED
      BY <2>5, <3>1, <3>2
  <2>13. spans[r] = (<<>> \o b) \o <<>>
    BY <1>1, <1>3, <2>2, <2>3, <2>8, <2>9 DEF SpanStep
  <2>14. spans[r] = b
    BY <2>11, <2>13
  <2> HIDE DEF r
  <2> QED
    BY <1>2, <2>11, <2>12, <2>14
<1> QED
  BY <1>4, <1>5

-----------------------------------------------------------------------------
(* The normalised text                                                     *)

Marks == [char : Chars, from : Nat, to : Nat]
Mark(char, span) == [char |-> char, from |-> span[1], to |-> span[2]]
Shown(char) == IF IsSpace(char) THEN "space" ELSE Lower(char)
Extends(done, char) == IsSpace(char) /\ done # <<>> /\ Last(done).char = "space"
Stretched(done, span) == Append(Front(done), [Last(done) EXCEPT !.to = span[2]])
Marked(done, char, span) ==
    IF Extends(done, char) THEN Stretched(done, span)
    ELSE Append(done, Mark(Shown(char), span))

Spanned(nfc, spans) ==
    nfc \in Seq(Chars) /\ spans \in Seq(Nat \X Nat) /\ Len(spans) = Len(nfc)

(* K[k] is the normal form of the first k characters.                      *)
NormalizedBy(K, nfc, spans) ==
    /\ K[0] = <<>> /\ \A k \in 0..Len(nfc) : K[k] \in Seq(Marks)
    /\ \A k \in 1..Len(nfc) : K[k] = Marked(K[k - 1], nfc[k], spans[k])

LEMMA ShownType ==
  ASSUME NEW char \in Chars
  PROVE  Shown(char) \in Chars /\ (Shown(char) = "space" <=> IsSpace(char))
<1>1. Lower(char) = IF char = "A" THEN "a" ELSE IF char = "Aacute" THEN "aacute" ELSE char
  BY DEF Lower
<1> QED
  BY <1>1 DEF Shown, IsSpace, Chars

LEMMA StretchedType ==
  ASSUME NEW done \in Seq(Marks), done # <<>>, NEW span \in Nat \X Nat
  PROVE  /\ Stretched(done, span) \in Seq(Marks)
         /\ Len(Stretched(done, span)) = Len(done)
         /\ \A i \in 1..(Len(done) - 1) : Stretched(done, span)[i] = done[i]
         /\ Stretched(done, span)[Len(done)].char = done[Len(done)].char
         /\ Stretched(done, span)[Len(done)].from = done[Len(done)].from
         /\ Stretched(done, span)[Len(done)].to = span[2]
<1>1. PICK m \in Nat : m = Len(done) - 1 /\ m + 1 = Len(done) /\ m <= Len(done)
  <2>1. PICK n \in Nat : n = Len(done) /\ n # 0
    OBVIOUS
  <2>2. n - 1 \in Nat /\ (n - 1) + 1 = n /\ n - 1 <= n
    BY <2>1
  <2> QED
    BY <2>1, <2>2
<1>2. PICK last : last = [done[Len(done)] EXCEPT !.to = span[2]]
  OBVIOUS
<1>3. done[Len(done)] \in Marks /\ span[2] \in Nat
  BY <1>1
<1>4. /\ last \in Marks /\ last.char = done[Len(done)].char
      /\ last.from = done[Len(done)].from /\ last.to = span[2]
  BY <1>2, <1>3 DEF Marks
<1>5. PICK front : front = SubSeq(done, 1, m)
  OBVIOUS
<1>6. front \in Seq(Marks) /\ Len(front) = m /\ \A i \in 1..m : front[i] = done[i]
  BY <1>1, <1>5
<1>7. Stretched(done, span) = Append(front, last)
  BY <1>1, <1>2, <1>5 DEF Stretched, Front, Last
<1>8. /\ Append(front, last) \in Seq(Marks) /\ Len(Append(front, last)) = m + 1
      /\ Append(front, last)[m + 1] = last
      /\ \A i \in 1..m : Append(front, last)[i] = front[i]
  BY <1>4, <1>6
<1> QED
  BY <1>1, <1>4, <1>6, <1>7, <1>8

LEMMA MarkedType ==
  ASSUME NEW done \in Seq(Marks), NEW char \in Chars, NEW span \in Nat \X Nat
  PROVE  Marked(done, char, span) \in Seq(Marks)
<1>1. CASE Extends(done, char)
  BY <1>1, StretchedType DEF Marked, Extends
<1>2. CASE ~Extends(done, char)
  <2>1. Mark(Shown(char), span) \in Marks
    BY ShownType DEF Mark, Marks
  <2> QED
    BY <1>2, <2>1 DEF Marked
<1> QED
  BY <1>1, <1>2

NormalOf(nfc, spans) ==
    FoldLeftDomain(LAMBDA done, i :
        IF ~IsSpace(nfc[i])
        THEN Append(done, [char |-> Lower(nfc[i]), from |-> spans[i][1], to |-> spans[i][2]])
        ELSE IF done # <<>> /\ Last(done).char = "space"
        THEN Append(Front(done), [Last(done) EXCEPT !.to = spans[i][2]])
        ELSE Append(done, [char |-> "space", from |-> spans[i][1], to |-> spans[i][2]]),
    <<>>, nfc)

LEMMA NormalizedIs ==
  ASSUME NEW text \in Texts
  PROVE  /\ Normalized[text] = NormalOf(NFC(text), NfcSpans(text, NFC(text)))
         /\ Plain[text] = [i \in DOMAIN Normalized[text] |-> Normalized[text][i].char]
BY DEF Normalized, Plain, NormalOf

LEMMA NormalRuns ==
  ASSUME NEW nfc, NEW spans, Spanned(nfc, spans)
  PROVE  \E K : NormalizedBy(K, nfc, spans) /\ K[Len(nfc)] = NormalOf(nfc, spans)
<1> DEFINE T == Seq(Marks)
           n == Len(nfc)
           R == 1..n
           s == [i \in DOMAIN nfc |-> i]
           Op(done, i) ==
               IF ~IsSpace(nfc[i])
               THEN Append(done, [char |-> Lower(nfc[i]), from |-> spans[i][1],
                                  to |-> spans[i][2]])
               ELSE IF done # <<>> /\ Last(done).char = "space"
               THEN Append(Front(done), [Last(done) EXCEPT !.to = spans[i][2]])
               ELSE Append(done, [char |-> "space", from |-> spans[i][1], to |-> spans[i][2]])
           f == [p \in T \X R |-> Op(p[1], p[2])]
           next(g) == [S \in SUBSET DOMAIN s |->
                         IF S = {} THEN <<>> ELSE Op(g[S \ {Max(S)}], s[Max(S)])]
<1>1. NormalOf(nfc, spans) = (CHOOSE g : g = next(g))[DOMAIN s]
  BY DEF NormalOf, FoldLeftDomain, FoldLeft, MapThenFoldSet
<1>2. n \in Nat /\ DOMAIN nfc = 1..n
      /\ \A i \in R : nfc[i] \in Chars /\ spans[i] \in Nat \X Nat
  BY DEF Spanned
<1>3. ASSUME NEW done \in T, NEW i \in R
      PROVE  Op(done, i) \in T /\ Op(done, i) = Marked(done, nfc[i], spans[i])
  <2>1. ASSUME ~IsSpace(nfc[i]) PROVE Op(done, i) = Marked(done, nfc[i], spans[i])
    BY <2>1 DEF Marked, Extends, Mark, Shown
  <2>2. ASSUME IsSpace(nfc[i]) PROVE Op(done, i) = Marked(done, nfc[i], spans[i])
    <3>1. Op(done, i) = IF done # <<>> /\ Last(done).char = "space"
                        THEN Stretched(done, spans[i]) ELSE Append(done, Mark("space", spans[i]))
      BY <2>2 DEF Stretched, Mark
    <3> HIDE DEF Op
    <3> QED
      BY <2>2, <3>1 DEF Marked, Extends, Shown
  <2> HIDE DEF Op
  <2>3. Op(done, i) = Marked(done, nfc[i], spans[i])
    BY <2>1, <2>2
  <2> QED
    BY <1>2, <2>3, MarkedType
<1> HIDE DEF Op
<1>4. f \in [T \X R -> T] /\ <<>> \in T /\ \A done \in T, i \in R : f[<<done, i>>] = Op(done, i)
  <2>1. \A p \in T \X R : p[1] \in T /\ p[2] \in R
    OBVIOUS
  <2>2. \A p \in T \X R : Op(p[1], p[2]) \in T
    BY <1>3, <2>1
  <2>3. \A done \in T, i \in R : <<done, i>> \in T \X R /\ f[<<done, i>>] = Op(done, i)
    OBVIOUS
  <2> QED
    BY <2>2, <2>3
<1>5. s \in Seq(R) /\ Len(s) = n /\ DOMAIN s = 1..n /\ \A i \in R : s[i] = i
  BY <1>2
<1> HIDE DEF f, s, T, R, n
<1>6. \E g : g = next(g)
  <2>1. PICK g \in [SUBSET (1..Len(s)) -> T] : IsIter(g, f, <<>>, s, Len(s))
    BY <1>4, <1>5, IterExists
  <2>2. ASSUME NEW S \in SUBSET (1..n)
        PROVE  g[S] = IF S = {} THEN <<>> ELSE Op(g[S \ {Max(S)}], s[Max(S)])
    <3>1. CASE S = {}
      BY <1>5, <2>1, <3>1 DEF IsIter
    <3>2. CASE S # {}
      <4>1. s[Max(S)] \in R /\ S \ {Max(S)} \in SUBSET (1..n)
        BY <1>5, <3>2, MaxAt
      <4>2. g[S \ {Max(S)}] \in T
        BY <1>5, <2>1, <4>1
      <4> QED
        BY <1>4, <1>5, <2>1, <3>2, <4>1, <4>2 DEF IsIter
    <3> QED
      BY <3>1, <3>2
  <2>3. g = [S \in SUBSET (1..n) |-> g[S]]
    BY <1>5, <2>1
  <2>4. g = next(g)
    BY <1>5, <2>2, <2>3
  <2> QED
    BY <2>4
<1> DEFINE G == CHOOSE g : g = next(g)
<1>7. G = next(G)
  BY <1>6
<1>8. NormalOf(nfc, spans) = G[1..n]
  BY <1>1, <1>5
<1> HIDE DEF G
<1>9. ASSUME NEW S \in SUBSET (1..n)
      PROVE  G[S] = IF S = {} THEN <<>> ELSE Op(G[S \ {Max(S)}], s[Max(S)])
  <2>1. next(G)[S] = IF S = {} THEN <<>> ELSE Op(G[S \ {Max(S)}], s[Max(S)])
    BY <1>5
  <2> HIDE DEF next
  <2> QED
    BY <1>7, <2>1
<1> HIDE DEF next
<1>10. G[{}] = <<>>
  BY <1>9
<1>11. ASSUME NEW S \in SUBSET (1..Len(s)), S # {}, G[S \ {Max(S)}] \in T
       PROVE  G[S] = f[<<G[S \ {Max(S)}], s[Max(S)]>>]
  <2>1. s[Max(S)] \in R
    BY <1>5, <1>11, MaxAt
  <2> QED
    BY <1>4, <1>5, <1>9, <1>11, <2>1
<1>12. PICK K : Runs(K, T, f, <<>>, s) /\ K[Len(s)] = G[1..Len(s)]
  <2>1. PICK base : base = <<>>
    OBVIOUS
  <2>2. RunsOnSets(G, T, f, base, s)
    BY <1>10, <1>11, <2>1 DEF RunsOnSets
  <2>3. \E K : Runs(K, T, f, base, s) /\ K[Len(s)] = G[1..Len(s)]
    <3>1. Foldable(T, R, f, base, s)
      BY <1>4, <1>5, <2>1 DEF Foldable
    <3> QED
      BY <2>2, <3>1, FoldRuns
  <2> QED
    BY <2>1, <2>3
<1>13. ASSUME NEW k \in 1..n PROVE K[k] = Marked(K[k - 1], nfc[k], spans[k])
  <2>1. k \in R /\ k - 1 \in 0..n
    BY <1>2 DEF R
  <2>2. K[k - 1] \in T /\ K[k] = f[<<K[k - 1], s[k]>>] /\ s[k] = k
    BY <1>5, <1>12, <2>1 DEF Runs
  <2> QED
    BY <1>3, <1>4, <2>1, <2>2
<1>14. NormalizedBy(K, nfc, spans)
  BY <1>5, <1>12, <1>13 DEF NormalizedBy, Runs, T, n
<1> QED
  BY <1>5, <1>8, <1>12, <1>14 DEF n

(* The two ways in which a character is added to a normal form of n.       *)
Stretches(next, done, n, char, span) ==
    /\ n > 0 /\ Len(next) = n /\ IsSpace(char) /\ done[n].char = "space"
    /\ \A i \in 1..(n - 1) : next[i] = done[i]
    /\ next[n].char = done[n].char /\ next[n].from = done[n].from /\ next[n].to = span[2]
Grows(next, done, n, char, span) ==
    /\ Len(next) = n + 1 /\ \A i \in 1..n : next[i] = done[i]
    /\ next[n + 1].char = Shown(char)
    /\ next[n + 1].from = span[1] /\ next[n + 1].to = span[2]

LEMMA MarkedStep ==
  ASSUME NEW done \in Seq(Marks), NEW char \in Chars, NEW span \in Nat \X Nat,
         NEW next, next = Marked(done, char, span), NEW n, n = Len(done)
  PROVE  /\ n \in Nat /\ next \in Seq(Marks)
         /\ Extends(done, char) => Stretches(next, done, n, char, span)
         /\ ~Extends(done, char) => Grows(next, done, n, char, span)
<1>1. n \in Nat /\ next \in Seq(Marks)
  BY MarkedType
<1>2. CASE Extends(done, char)
  <2>1. n > 0 /\ done # <<>> /\ IsSpace(char) /\ done[n].char = "space"
    BY <1>2 DEF Extends, Last
  <2>2. next = Stretched(done, span)
    BY <1>2 DEF Marked
  <2>3. /\ Len(next) = Len(done) /\ \A i \in 1..(Len(done) - 1) : next[i] = done[i]
        /\ next[Len(done)].char = done[Len(done)].char
        /\ next[Len(done)].from = done[Len(done)].from
        /\ next[Len(done)].to = span[2]
    BY <2>1, <2>2, StretchedType
  <2>4. Stretches(next, done, n, char, span)
    BY <2>1, <2>3 DEF Stretches
  <2> QED
    BY <1>1, <1>2, <2>4
<1>3. CASE ~Extends(done, char)
  <2>1. PICK mark : mark = Mark(Shown(char), span)
    OBVIOUS
  <2>2. mark.char = Shown(char) /\ mark.from = span[1] /\ mark.to = span[2]
    BY <2>1 DEF Mark
  <2>3. next = Append(done, mark)
    BY <1>3, <2>1 DEF Marked
  <2>4. Len(next) = n + 1 /\ next[n + 1] = mark
    BY <2>3
  <2>5. \A i \in 1..n : next[i] = done[i]
    BY <2>3
  <2> QED
    BY <1>1, <1>3, <2>2, <2>4, <2>5 DEF Grows
<1> QED
  BY <1>2, <1>3

(* The characters of a normal form start in order, none after lo.          *)
Ordered(s, top, lo) ==
    /\ \A m \in 1..Len(s) : s[m].from <= s[m].to /\ s[m].to <= top /\ s[m].from <= lo
    /\ \A m, l \in 1..Len(s) : m <= l => s[m].from <= s[l].from

LEMMA OrderedStep ==
  ASSUME NEW done \in Seq(Marks), NEW char \in Chars, NEW span \in Nat \X Nat,
         NEW top \in Nat, NEW lo \in Nat, lo <= span[1], span[1] <= span[2], span[2] <= top,
         Ordered(done, top, lo)
  PROVE  Ordered(Marked(done, char, span), top, span[1])
<1>1. PICK next : next = Marked(done, char, span)
  OBVIOUS
<1>2. PICK n : n = Len(done)
  OBVIOUS
<1>3. /\ n \in Nat /\ next \in Seq(Marks)
      /\ Extends(done, char) => Stretches(next, done, n, char, span)
      /\ ~Extends(done, char) => Grows(next, done, n, char, span)
  BY <1>1, <1>2, MarkedStep
<1>4. span[1] \in Nat /\ span[2] \in Nat
  OBVIOUS
<1>5. \A m \in 1..n : /\ done[m].from \in Nat /\ done[m].to \in Nat
                      /\ done[m].from <= done[m].to /\ done[m].to <= top
                      /\ done[m].from <= lo
  <2>1. \A m \in 1..n : done[m] \in Marks
    BY <1>2
  <2>2. \A m \in 1..n : done[m].from \in Nat /\ done[m].to \in Nat
    BY <2>1 DEF Marks
  <2> QED
    BY <1>2, <2>2 DEF Ordered
<1>6. \A m, l \in 1..n : m <= l => done[m].from <= done[l].from
  BY <1>2 DEF Ordered
<1>7. CASE Extends(done, char)
  <2>1. n > 0 /\ Len(next) = n /\ n \in 1..n
    BY <1>3, <1>7 DEF Stretches
  <2>2. \A m \in 1..n : next[m].from = done[m].from
    BY <1>3, <1>7 DEF Stretches
  <2>3. \A m \in 1..n : next[m].to = done[m].to \/ (m = n /\ next[m].to = span[2])
    BY <1>3, <1>7 DEF Stretches
  <2>4. ASSUME NEW m \in 1..n
        PROVE  next[m].from <= next[m].to /\ next[m].to <= top /\ next[m].from <= span[1]
    <3>1. next[m].from = done[m].from /\ done[m].from <= span[1]
      BY <1>4, <1>5, <2>2
    <3> QED
      BY <1>4, <1>5, <2>3, <3>1
  <2>5. \A m, l \in 1..n : m <= l => next[m].from <= next[l].from
    BY <1>6, <2>2
  <2> QED
    BY <1>1, <2>1, <2>4, <2>5 DEF Ordered
<1>8. CASE ~Extends(done, char)
  <2>1. Len(next) = n + 1 /\ next[n + 1].from = span[1] /\ next[n + 1].to = span[2]
    BY <1>3, <1>8 DEF Grows
  <2>2. \A m \in 1..n : next[m] = done[m]
    BY <1>3, <1>8 DEF Grows
  <2>3. ASSUME NEW m \in 1..(n + 1)
        PROVE  /\ next[m].from <= next[m].to /\ next[m].to <= top /\ next[m].from <= span[1]
               /\ next[m].from \in Nat
    <3>1. CASE m = n + 1
      BY <1>4, <2>1, <3>1
    <3>2. CASE m \in 1..n
      BY <1>4, <1>5, <2>2, <3>2
    <3> QED
      BY <1>3, <3>1, <3>2
  <2>4. ASSUME NEW m \in 1..(n + 1), NEW l \in 1..(n + 1), m <= l
        PROVE  next[m].from <= next[l].from
    <3>1. CASE l = n + 1
      BY <2>1, <2>3, <3>1
    <3>2. CASE l # n + 1
      <4>1. m \in 1..n /\ l \in 1..n
        BY <1>3, <2>4, <3>2
      <4> QED
        BY <1>6, <2>2, <2>4, <4>1
    <3> QED
      BY <3>1, <3>2
  <2> QED
    BY <1>1, <2>1, <2>3, <2>4 DEF Ordered
<1> QED
  BY <1>7, <1>8

LEMMA NormalOrdered ==
  ASSUME NEW nfc, NEW spans, NEW top \in Nat, Spanned(nfc, spans),
         Fit(spans, 0, top, top, Len(nfc)), NEW K, NormalizedBy(K, nfc, spans)
  PROVE  Ordered(K[Len(nfc)], top, top) /\ (Len(nfc) > 0 => Len(K[Len(nfc)]) > 0)
<1> DEFINE n == Len(nfc)
           Z == {k \in 0..n : k > 0 => Ordered(K[k], top, spans[k][1]) /\ Len(K[k]) > 0}
<1>1. n \in Nat
  BY DEF Spanned
<1>2. 0 \in Z
  BY <1>1
<1>3. ASSUME NEW k \in 1..n, k - 1 \in Z PROVE k \in Z
  <2>1. k - 1 \in 0..n /\ k \in 0..n
    BY <1>1
  <2>2. K[k - 1] \in Seq(Marks) /\ K[k] = Marked(K[k - 1], nfc[k], spans[k])
        /\ nfc[k] \in Chars /\ spans[k] \in Nat \X Nat
    <3>1. k \in 1..Len(nfc) /\ k - 1 \in 0..Len(nfc) /\ k \in 1..Len(spans)
      BY <2>1 DEF Spanned
    <3>2. nfc[k] \in Chars /\ spans[k] \in Nat \X Nat
      BY <3>1 DEF Spanned
    <3>3. K[k - 1] \in Seq(Marks) /\ K[k] = Marked(K[k - 1], nfc[k], spans[k])
      BY <3>1 DEF NormalizedBy
    <3> QED
      BY <3>2, <3>3
  <2>3. spans[k][1] \in Nat /\ spans[k][1] <= spans[k][2] /\ spans[k][2] <= top
    BY <2>2 DEF Fit
  <2>4. PICK lo \in Nat : lo <= spans[k][1] /\ Ordered(K[k - 1], top, lo)
    <3>1. CASE k = 1
      <4>1. K[k - 1] = <<>>
        BY <3>1 DEF NormalizedBy
      <4>2. 0 <= spans[k][1] /\ Ordered(<<>>, top, 0)
        BY <2>3 DEF Ordered
      <4> QED
        BY <4>1, <4>2
    <3>2. CASE k # 1
      <4>1. k - 1 \in 1..n /\ k - 1 > 0 /\ k - 1 <= k
        BY <1>1, <3>2
      <4>2. Ordered(K[k - 1], top, spans[k - 1][1])
        BY <1>3, <4>1
      <4>3. spans[k - 1][1] <= spans[k][1]
        BY <4>1 DEF Fit
      <4>4. spans[k - 1] \in Nat \X Nat
        BY <4>1 DEF Spanned
      <4> QED
        BY <4>2, <4>3, <4>4
    <3> QED
      BY <3>1, <3>2
  <2>5. Ordered(K[k], top, spans[k][1])
    BY <2>2, <2>3, <2>4, OrderedStep
  <2>6. Len(K[k]) > 0
    <3>1. PICK done \in Seq(Marks) : done = K[k - 1]
      BY <2>2
    <3>2. PICK next : next = Marked(done, nfc[k], spans[k])
      OBVIOUS
    <3>3. PICK m : m = Len(done)
      OBVIOUS
    <3>4. /\ m \in Nat
          /\ Extends(done, nfc[k]) => Stretches(next, done, m, nfc[k], spans[k])
          /\ ~Extends(done, nfc[k]) => Grows(next, done, m, nfc[k], spans[k])
      BY <2>2, <3>2, <3>3, MarkedStep
    <3> QED
      BY <2>2, <3>1, <3>2, <3>4 DEF Stretches, Grows
  <2> QED
    BY <2>1, <2>5, <2>6
<1> HIDE DEF Z, n
<1>4. \A k \in 0..n : k \in Z
  BY <1>1, <1>2, <1>3, Throughout
<1>5. CASE n = 0
  <2>1. K[n] = <<>>
    BY <1>5 DEF NormalizedBy
  <2>2. Ordered(<<>>, top, top)
    BY DEF Ordered
  <2> QED
    BY <1>5, <2>1, <2>2 DEF n
<1>6. CASE n # 0
  <2>1. n \in 1..n /\ n \in 0..n /\ n > 0
    BY <1>1, <1>6
  <2>2. Ordered(K[n], top, spans[n][1]) /\ Len(K[n]) > 0
    BY <1>4, <2>1 DEF Z
  <2>3. K[n] \in Seq(Marks)
    BY <2>1 DEF NormalizedBy, n
  <2>4. \A m \in 1..Len(K[n]) : K[n][m].from \in Nat /\ K[n][m].to \in Nat
    <3>1. \A m \in 1..Len(K[n]) : K[n][m] \in Marks
      BY <2>3
    <3> QED
      BY <3>1 DEF Marks
  <2>5. \A m \in 1..Len(K[n]) : K[n][m].from <= top
    BY <2>2, <2>4 DEF Ordered
  <2>6. Ordered(K[n], top, top)
    BY <2>2, <2>5 DEF Ordered
  <2> QED
    BY <2>2, <2>6 DEF n
<1> QED
  BY <1>5, <1>6

(* The normal form of a text in which every character has its own span.    *)
OwnRun(K, text) ==
    /\ K[0] = <<>> /\ \A k \in 0..Len(text) : K[k] \in Seq(Marks)
    /\ \A k \in 1..Len(text) : K[k] = Marked(K[k - 1], text[k], <<k - 1, k>>)

(* Each of its marks is one or more of the first k characters, those after *)
(* which there are as many marks.                                          *)
Placed(K, k) == \A m \in 1..Len(K[k]) :
    /\ K[k][m].from \in 0..(k - 1) /\ K[k][m].to \in 1..k
    /\ K[k][m].from < K[k][m].to
Located(K, k) == \A m \in 1..Len(K[k]), j \in 1..k :
    Len(K[j]) = m <=> K[k][m].from < j /\ j <= K[k][m].to
Shows(K, text, k) == \A j \in 1..k :
    Len(K[j]) \in 1..Len(K[k]) /\ K[k][Len(K[j])].char = Shown(text[j])
Tracks(K, text, k) == Placed(K, k) /\ Located(K, k) /\ Shows(K, text, k)

InRun(text, k) == k > 1 /\ IsSpace(text[k]) /\ IsSpace(text[k - 1])

LEMMA TracksStep ==
  ASSUME NEW text \in Seq(Chars), NEW K, OwnRun(K, text), NEW k \in 1..Len(text),
         Tracks(K, text, k - 1)
  PROVE  /\ Tracks(K, text, k)
         /\ Len(K[k - 1]) \in Nat
         /\ Len(K[k]) = IF InRun(text, k) THEN Len(K[k - 1]) ELSE Len(K[k - 1]) + 1
<1>1. k \in Nat /\ k - 1 \in 0..Len(text) /\ text[k] \in Chars
  OBVIOUS
<1>2. PICK done \in Seq(Marks) : done = K[k - 1]
  BY <1>1 DEF OwnRun
<1>3. PICK next : next = K[k]
  OBVIOUS
<1>4. next = Marked(done, text[k], <<k - 1, k>>)
  BY <1>2, <1>3 DEF OwnRun
<1>5. PICK n : n = Len(done)
  OBVIOUS
<1>6. PICK span : span = <<k - 1, k>>
  OBVIOUS
<1>7. span \in Nat \X Nat /\ span[1] = k - 1 /\ span[2] = k
  BY <1>1, <1>6
<1>8. /\ n \in Nat /\ next \in Seq(Marks)
      /\ Extends(done, text[k]) => Stretches(next, done, n, text[k], span)
      /\ ~Extends(done, text[k]) => Grows(next, done, n, text[k], span)
  BY <1>1, <1>4, <1>5, <1>6, <1>7, MarkedStep
<1>9. /\ \A m \in 1..n : /\ done[m].from \in 0..(k - 2) /\ done[m].to \in 1..(k - 1)
                         /\ done[m].from < done[m].to
      /\ \A m \in 1..n, j \in 1..(k - 1) :
            Len(K[j]) = m <=> done[m].from < j /\ j <= done[m].to
      /\ \A j \in 1..(k - 1) :
            Len(K[j]) \in 1..n /\ done[Len(K[j])].char = Shown(text[j])
  <2>1. (k - 1) - 1 = k - 2
    BY <1>1
  <2> QED
    BY <1>2, <1>5, <2>1 DEF Tracks, Placed, Located, Shows
<1>10. Extends(done, text[k]) <=> InRun(text, k)
  <2>1. CASE k = 1
    <3>1. done = <<>>
      BY <1>2, <2>1 DEF OwnRun
    <3> QED
      BY <2>1, <3>1 DEF Extends, InRun
  <2>2. CASE k > 1
    <3>1. k - 1 \in 1..(k - 1) /\ Len(K[k - 1]) = n /\ text[k - 1] \in Chars
      BY <1>1, <1>2, <1>5, <2>2
    <3>2. n \in 1..n /\ done[n].char = Shown(text[k - 1])
      BY <1>9, <3>1
    <3>3. done # <<>> /\ Last(done) = done[n]
      BY <1>5, <3>2 DEF Last
    <3> QED
      BY <2>2, <3>1, <3>2, <3>3, ShownType DEF Extends, InRun
  <2> QED
    BY <1>1, <2>1, <2>2
<1>11. \A j \in 1..k : j = k \/ j \in 1..(k - 1)
  BY <1>1
<1>12. CASE Extends(done, text[k])
  <2>1. /\ n \in 1..n /\ Len(next) = n /\ \A i \in 1..(n - 1) : next[i] = done[i]
        /\ next[n].char = done[n].char /\ next[n].from = done[n].from /\ next[n].to = k
        /\ IsSpace(text[k]) /\ done[n].char = "space"
    BY <1>7, <1>8, <1>12 DEF Stretches
  <2>2. k > 1 /\ k - 1 \in 1..(k - 1)
    BY <1>1, <1>10, <1>12 DEF InRun
  <2>3. done[n].to = k - 1
    <3>1. Len(K[k - 1]) = n
      BY <1>2, <1>5
    <3>2. k - 1 <= done[n].to /\ done[n].to \in 1..(k - 1)
      BY <1>9, <2>1, <2>2, <3>1
    <3> QED
      BY <1>1, <3>2
  <2>4. \A m \in 1..n : m = n \/ (m \in 1..(n - 1) /\ next[m] = done[m])
    BY <1>8, <2>1
  <2>5. \A m \in 1..n : next[m].from = done[m].from /\ next[m].char = done[m].char
    BY <2>1, <2>4
  <2>6. Len(K[k]) = n
    BY <1>3, <2>1
  <2>7. ASSUME NEW m \in 1..n
        PROVE  next[m].from \in 0..(k - 1) /\ next[m].to \in 1..k /\ next[m].from < next[m].to
    <3>1. next[m].from = done[m].from /\ done[m].from \in 0..(k - 2)
          /\ done[m].to \in 1..(k - 1) /\ done[m].from < done[m].to
      BY <1>9, <2>5
    <3>2. CASE m = n
      BY <1>1, <2>1, <3>1, <3>2
    <3>3. CASE m # n
      <4>1. next[m].to = done[m].to
        BY <2>4, <3>3
      <4> QED
        BY <1>1, <3>1, <4>1
    <3> QED
      BY <3>2, <3>3
  <2>8. ASSUME NEW m \in 1..n, NEW j \in 1..k
        PROVE  Len(K[j]) = m <=> next[m].from < j /\ j <= next[m].to
    <3>1. done[m].from \in 0..(k - 2) /\ done[m].to \in 1..(k - 1)
      BY <1>9
    <3>2. CASE j = k /\ m = n
      BY <1>1, <2>1, <2>5, <2>6, <3>1, <3>2
    <3>3. CASE j = k /\ m # n
      <4>1. next[m].to = done[m].to
        BY <2>4, <3>3
      <4> QED
        BY <1>1, <2>6, <3>1, <3>3, <4>1
    <3>4. CASE j \in 1..(k - 1) /\ m = n
      <4>1. Len(K[j]) = m <=> done[m].from < j /\ j <= done[m].to
        BY <1>9, <3>4
      <4> QED
        BY <1>1, <2>1, <2>3, <3>4, <4>1
    <3>5. CASE j \in 1..(k - 1) /\ m # n
      <4>1. Len(K[j]) = m <=> done[m].from < j /\ j <= done[m].to
        BY <1>9, <3>5
      <4>2. next[m] = done[m]
        BY <2>4, <3>5
      <4> QED
        BY <4>1, <4>2
    <3> QED
      BY <1>11, <3>2, <3>3, <3>4, <3>5
  <2>9. ASSUME NEW j \in 1..k
        PROVE  Len(K[j]) \in 1..n /\ next[Len(K[j])].char = Shown(text[j])
    <3>1. CASE j = k
      <4>1. Shown(text[k]) = "space"
        BY <2>1 DEF Shown
      <4> QED
        BY <2>1, <2>6, <3>1, <4>1
    <3>2. CASE j \in 1..(k - 1)
      <4>1. Len(K[j]) \in 1..n /\ done[Len(K[j])].char = Shown(text[j])
        BY <1>9, <3>2
      <4> QED
        BY <2>5, <4>1
    <3> QED
      BY <1>11, <3>1, <3>2
  <2>10. Placed(K, k) /\ Located(K, k) /\ Shows(K, text, k)
    <3>1. Placed(K, k)
      BY <1>3, <2>1, <2>7 DEF Placed
    <3>2. Located(K, k)
      BY <1>3, <2>1, <2>8 DEF Located
    <3>3. Shows(K, text, k)
      BY <1>3, <2>1, <2>9 DEF Shows
    <3> QED
      BY <3>1, <3>2, <3>3
  <2>11. InRun(text, k) /\ Len(K[k - 1]) = n
    BY <1>2, <1>5, <1>10, <1>12
  <2> QED
    BY <1>8, <2>6, <2>10, <2>11 DEF Tracks
<1>13. CASE ~Extends(done, text[k])
  <2>1. /\ Len(next) = n + 1 /\ \A i \in 1..n : next[i] = done[i]
        /\ next[n + 1].char = Shown(text[k])
        /\ next[n + 1].from = k - 1 /\ next[n + 1].to = k
    BY <1>7, <1>8, <1>13 DEF Grows
  <2>2. Len(K[k]) = n + 1
    BY <1>3, <2>1
  <2>3. \A m \in 1..(n + 1) : m = n + 1 \/ m \in 1..n
    BY <1>8
  <2>4. ASSUME NEW m \in 1..(n + 1)
        PROVE  next[m].from \in 0..(k - 1) /\ next[m].to \in 1..k /\ next[m].from < next[m].to
    <3>1. CASE m = n + 1
      BY <1>1, <2>1, <3>1
    <3>2. CASE m \in 1..n
      <4>1. next[m] = done[m] /\ done[m].from \in 0..(k - 2)
            /\ done[m].to \in 1..(k - 1) /\ done[m].from < done[m].to
        BY <1>9, <2>1, <3>2
      <4> QED
        BY <1>1, <4>1
    <3> QED
      BY <2>3, <3>1, <3>2
  <2>5. ASSUME NEW m \in 1..(n + 1), NEW j \in 1..k
        PROVE  Len(K[j]) = m <=> next[m].from < j /\ j <= next[m].to
    <3>1. CASE j = k /\ m = n + 1
      BY <1>1, <2>1, <2>2, <3>1
    <3>2. CASE j = k /\ m \in 1..n
      <4>1. next[m] = done[m] /\ done[m].to \in 1..(k - 1)
        BY <1>9, <2>1, <3>2
      <4> QED
        BY <1>1, <1>8, <2>2, <3>2, <4>1
    <3>3. CASE j \in 1..(k - 1) /\ m = n + 1
      <4>1. Len(K[j]) \in 1..n
        BY <1>9, <3>3
      <4> QED
        BY <1>1, <1>8, <2>1, <3>3, <4>1
    <3>4. CASE j \in 1..(k - 1) /\ m \in 1..n
      BY <1>9, <2>1, <3>4
    <3> QED
      BY <1>11, <2>3, <3>1, <3>2, <3>3, <3>4
  <2>6. ASSUME NEW j \in 1..k
        PROVE  Len(K[j]) \in 1..(n + 1) /\ next[Len(K[j])].char = Shown(text[j])
    <3>1. CASE j = k
      <4>1. n + 1 \in 1..(n + 1)
        BY <1>8
      <4> QED
        BY <2>1, <2>2, <3>1, <4>1
    <3>2. CASE j \in 1..(k - 1)
      <4>1. PICK m : m = Len(K[j])
        OBVIOUS
      <4>2. m \in 1..n /\ done[m].char = Shown(text[j])
        BY <1>9, <3>2, <4>1
      <4>3. next[m] = done[m] /\ m \in 1..(n + 1)
        BY <1>8, <2>1, <4>2
      <4> QED
        BY <4>1, <4>2, <4>3
    <3> QED
      BY <1>11, <3>1, <3>2
  <2>7. Placed(K, k) /\ Located(K, k) /\ Shows(K, text, k)
    <3>1. Placed(K, k)
      BY <1>3, <2>1, <2>4 DEF Placed
    <3>2. Located(K, k)
      BY <1>3, <2>1, <2>5 DEF Located
    <3>3. Shows(K, text, k)
      BY <1>3, <2>1, <2>6 DEF Shows
    <3> QED
      BY <3>1, <3>2, <3>3
  <2>8. ~InRun(text, k) /\ Len(K[k - 1]) = n
    BY <1>2, <1>5, <1>10, <1>13
  <2> QED
    BY <1>8, <2>2, <2>7, <2>8 DEF Tracks
<1> QED
  BY <1>12, <1>13

LEMMA TracksAll ==
  ASSUME NEW text \in Seq(Chars), NEW K, OwnRun(K, text)
  PROVE  /\ \A k \in 0..Len(text) : Tracks(K, text, k) /\ Len(K[k]) \in Nat
         /\ Len(K[0]) = 0
         /\ \A k \in 1..Len(text) :
               Len(K[k]) = IF InRun(text, k) THEN Len(K[k - 1]) ELSE Len(K[k - 1]) + 1
<1> DEFINE n == Len(text)
           Z == {k \in 0..n : Tracks(K, text, k)}
<1>1. n \in Nat
  OBVIOUS
<1>2. K[0] = <<>> /\ Len(K[0]) = 0
  BY DEF OwnRun
<1>3. 0 \in Z
  BY <1>1, <1>2 DEF Tracks, Placed, Located, Shows
<1>4. ASSUME NEW k \in 1..n, k - 1 \in Z PROVE k \in Z
  BY <1>1, <1>4, TracksStep
<1> HIDE DEF Z, n
<1>5. \A k \in 0..n : k \in Z
  BY <1>1, <1>3, <1>4, Throughout
<1>6. \A k \in 0..n : Tracks(K, text, k)
  BY <1>5 DEF Z
<1>7. ASSUME NEW k \in 1..n
      PROVE  Len(K[k]) = IF InRun(text, k) THEN Len(K[k - 1]) ELSE Len(K[k - 1]) + 1
  <2>1. k - 1 \in 0..n
    BY <1>1
  <2>2. Tracks(K, text, k - 1)
    BY <1>6, <2>1
  <2> QED
    BY <2>2, TracksStep DEF n
<1>8. \A k \in 0..n : Len(K[k]) \in Nat
  <2> TAKE k \in 0..n
  <2>1. K[k] \in Seq(Marks)
    BY DEF OwnRun, n
  <2> QED
    BY <2>1
<1> QED
  BY <1>2, <1>6, <1>7, <1>8 DEF n

(* Later characters do not come in earlier marks.                          *)
LEMMA MarksGrow ==
  ASSUME NEW text \in Seq(Chars), NEW K, OwnRun(K, text), NEW j \in 0..Len(text)
  PROVE  \A k \in j..Len(text) : Len(K[j]) <= Len(K[k])
<1> DEFINE n == Len(text)
           Z == {k \in 0..n : k >= j => Len(K[j]) <= Len(K[k])}
<1>1. n \in Nat /\ j \in 0..n
  OBVIOUS
<1>2. \A k \in 0..n : Len(K[k]) \in Nat
  BY TracksAll
<1>3. \A k \in 1..n :
         Len(K[k]) = IF InRun(text, k) THEN Len(K[k - 1]) ELSE Len(K[k - 1]) + 1
  BY TracksAll
<1> HIDE DEF n
<1>4. 0 \in Z
  BY <1>1, <1>2
<1>5. ASSUME NEW k \in 1..n, k - 1 \in Z PROVE k \in Z
  <2>1. k \in 0..n /\ k - 1 \in 0..n
    BY <1>1
  <2>2. Len(K[k - 1]) <= Len(K[k]) /\ Len(K[k]) \in Nat /\ Len(K[k - 1]) \in Nat
        /\ Len(K[j]) \in Nat
    BY <1>1, <1>2, <1>3, <2>1
  <2>3. CASE k = j
    BY <2>1, <2>2, <2>3
  <2>4. CASE k - 1 >= j
    BY <1>5, <2>1, <2>2, <2>4
  <2>5. CASE k < j
    BY <1>1, <2>1, <2>5
  <2> QED
    BY <1>1, <2>3, <2>4, <2>5
<1> HIDE DEF Z
<1>6. \A k \in 0..n : k \in Z
  BY <1>1, <1>4, <1>5, Throughout
<1>7. \A k \in j..n : k \in 0..n /\ k >= j
  BY <1>1
<1> QED
  BY <1>6, <1>7 DEF Z, n

-----------------------------------------------------------------------------
(* The normal form of a part of a text                                     *)

LEMMA TextType ==
  ASSUME NEW text \in Texts
  PROVE  /\ text \in Seq(Chars) /\ text \in Seq(Alphabet)
         /\ Len(text) \in Nat /\ Len(text) <= MaxText
<1>1. text \in Seq(Alphabet) /\ Len(text) \in Nat
  BY BoundedSeqType DEF Texts
<1>2. Len(text) <= MaxText
  <2>1. PICK m \in 0..MaxText : text \in [1..m -> Alphabet]
    BY DEF Texts, BoundedSeq, SeqOf
  <2>2. m \in Nat
    BY CitationAssumption
  <2>3. Len(text) = m
    BY <1>1, <2>1, <2>2
  <2> QED
    BY <2>1, <2>3, CitationAssumption
<1> QED
  BY <1>1, <1>2, CitationAssumption

(* The q elements of a list after the first p.                             *)
LEMMA SubSeqIs ==
  ASSUME NEW C, NEW a \in Seq(C), NEW p \in Nat, NEW q \in Nat \ {0}, p + q <= Len(a),
         NEW c, c = SubSeq(a, p + 1, p + q)
  PROVE  c \in Seq(C) /\ Len(c) = q /\ \A m \in 1..q : c[m] = a[p + m]
<1>1. p + 1 \in Nat /\ p + q \in Nat /\ p + 1 <= p + q
  OBVIOUS
<1>2. PICK lo \in Nat, hi \in Nat : lo = p + 1 /\ hi = p + q
  BY <1>1
<1>3. c = SubSeq(a, lo, hi) /\ lo <= hi /\ hi <= Len(a)
  BY <1>1, <1>2
<1>4. \A i \in lo..hi : a[i] \in C
  BY <1>1, <1>2
<1>5. c \in Seq(C)
  BY <1>2, <1>3, <1>4
<1>6. Len(c) = hi - lo + 1
  BY <1>2, <1>3
<1>7. hi - lo + 1 = q
  BY <1>2
<1>8. ASSUME NEW m \in 1..q PROVE c[m] = a[p + m]
  <2>1. c[m] = a[lo + m - 1]
    BY <1>2, <1>3, <1>6, <1>7
  <2>2. lo + m - 1 = p + m
    BY <1>2
  <2> QED
    BY <2>1, <2>2
<1> QED
  BY <1>5, <1>6, <1>7, <1>8

LEMMA Difference ==
  ASSUME NEW s \in Nat, NEW e \in Nat, s < e
  PROVE  e - s \in Nat /\ s + (e - s) = e
  OBVIOUS

(* The n characters of a text from its offset s to its offset e.           *)
IsPart(part, text, s, e, n) ==
  part = SubSeq(text, s + 1, e) /\ n = e - s /\ s <= e /\ e <= Len(text)

LEMMA PartIsText ==
  ASSUME NEW text \in Texts, NEW s \in Nat, NEW e \in Nat, NEW part, NEW n,
         IsPart(part, text, s, e, n)
  PROVE  /\ part \in Texts /\ Len(part) = n
         /\ \A i \in 1..n : part[i] = text[s + i]
<1>0. part = SubSeq(text, s + 1, e) /\ n = e - s /\ s <= e /\ e <= Len(text)
  BY DEF IsPart
<1>1. n \in Nat /\ n <= MaxText /\ s + 1 \in Nat
  <2>1. Len(text) \in Nat /\ Len(text) <= MaxText
    BY TextType
  <2> QED
    BY <1>0, <2>1, CitationAssumption
<1>2. text \in Seq(Alphabet)
  BY TextType
<1>3. part \in Seq(Alphabet) /\ Len(part) = n
  <2>1. part \in Seq(Alphabet)
    BY <1>0, <1>1, <1>2
  <2>2. Len(part) = IF s + 1 <= e THEN e - (s + 1) + 1 ELSE 0
    BY <1>0, <1>1, <1>2
  <2> QED
    BY <1>0, <1>1, <2>1, <2>2
<1>4. \A i \in 1..n : part[i] = text[s + i]
  <2> TAKE i \in 1..n
  <2>1. part[i] = text[(s + 1) + i - 1]
    BY <1>0, <1>1, <1>2, <1>3
  <2>2. (s + 1) + i - 1 = s + i
    OBVIOUS
  <2> QED
    BY <2>1, <2>2
<1>5. part \in [1..n -> Alphabet]
  <2>1. PICK f : f = part
    OBVIOUS
  <2>2. f = [i \in 1..Len(f) |-> f[i]] /\ \A i \in 1..Len(f) : f[i] \in Alphabet
    BY <1>3, <2>1
  <2>3. Len(f) = n
    BY <1>3, <2>1
  <2> QED
    BY <2>1, <2>2, <2>3
<1>6. n \in 0..MaxText
  BY <1>1, CitationAssumption
<1> QED
  BY <1>3, <1>4, <1>5, <1>6 DEF Texts, BoundedSeq, SeqOf

(* The normal form of any text: in order, and none of it beyond the end.   *)
LEMMA NormalForm ==
  ASSUME NEW text \in Texts, NEW norm, norm = Normalized[text]
  PROVE  /\ norm \in Seq(Marks) /\ Ordered(norm, Len(text), Len(text))
         /\ Len(text) > 0 => Len(norm) > 0
         /\ Len(Plain[text]) = Len(norm) /\ DOMAIN Plain[text] = 1..Len(norm)
         /\ \A i \in 1..Len(norm) : Plain[text][i] = norm[i].char
         /\ Plain[text] \in Seq(Chars)
<1>1. text \in Seq(Chars) /\ Len(text) \in Nat
  BY TextType
<1>2. PICK nfc \in Seq(Chars) : nfc = NFC(text)
  BY <1>1, ComposedForm
<1>3. PICK spans : spans = NfcSpans(text, nfc)
  OBVIOUS
<1>4. Fit(spans, 0, Len(text), Len(text), Len(nfc))
  BY <1>1, <1>3, SpansFit
<1>5. Spanned(nfc, spans) /\ Len(nfc) \in Nat
  BY <1>4 DEF Fit, Spanned
<1>6. PICK K : NormalizedBy(K, nfc, spans) /\ K[Len(nfc)] = NormalOf(nfc, spans)
  BY <1>5, NormalRuns
<1>7. norm = K[Len(nfc)] /\ Plain[text] = [i \in DOMAIN norm |-> norm[i].char]
  BY <1>2, <1>3, <1>6, NormalizedIs
<1>8. norm \in Seq(Marks)
  BY <1>5, <1>6, <1>7 DEF NormalizedBy
<1>9. Ordered(norm, Len(text), Len(text)) /\ (Len(nfc) > 0 => Len(norm) > 0)
  BY <1>1, <1>4, <1>5, <1>6, <1>7, NormalOrdered
<1>10. Len(text) > 0 => Len(nfc) > 0
  BY <1>1, <1>2, ComposedForm
<1>11. /\ DOMAIN norm = 1..Len(norm) /\ Len(norm) \in Nat
       /\ \A i \in 1..Len(norm) : norm[i].char \in Chars
  <2>1. \A i \in 1..Len(norm) : norm[i] \in Marks
    BY <1>8
  <2> QED
    BY <1>8, <2>1 DEF Marks
<1>12. Plain[text] = [i \in 1..Len(norm) |-> norm[i].char]
  BY <1>7, <1>11
<1>13. Plain[text] \in Seq(Chars) /\ Len(Plain[text]) = Len(norm)
  BY <1>11, <1>12
<1> QED
  BY <1>8, <1>9, <1>10, <1>12, <1>13

(* In composed text every character has its own span.                      *)
LEMMA OwnNormal ==
  ASSUME NEW text \in Texts, Composed(text)
  PROVE  \E K : OwnRun(K, text) /\ K[Len(text)] = Normalized[text]
<1>1. text \in Seq(Chars) /\ Len(text) \in Nat
  BY TextType
<1>2. NFC(text) = text
  BY <1>1, ComposedForm
<1>3. PICK spans : spans = NfcSpans(text, text)
  OBVIOUS
<1>4. Fit(spans, 0, Len(text), Len(text), Len(text))
  BY <1>1, <1>3, SpansFit
<1>5. Spanned(text, spans)
  BY <1>1, <1>4 DEF Fit, Spanned
<1>6. PICK K : NormalizedBy(K, text, spans) /\ K[Len(text)] = NormalOf(text, spans)
  BY <1>5, NormalRuns
<1>7. \A k \in 1..Len(text) : spans[k] = <<k - 1, k>>
  BY <1>1, <1>3, OwnSpans
<1>8. OwnRun(K, text)
  BY <1>6, <1>7 DEF NormalizedBy, OwnRun
<1>9. Normalized[text] = NormalOf(text, spans)
  BY <1>2, <1>3, NormalizedIs
<1> QED
  BY <1>6, <1>8, <1>9

(* The q marks after the first p stand for the text between s and e.       *)
Bounds(norm, p, q, s, e) == norm[p + 1].from = s /\ norm[p + q].to = e

(* The part of a text that stands for q marks after the first p: its own   *)
(* normal form is those marks.                                             *)
LEMMA PartNormal ==
  ASSUME NEW text \in Texts, Composed(text), NEW norm, norm = Normalized[text],
         NEW p \in Nat, NEW q \in Nat \ {0}, p + q <= Len(norm),
         NEW s \in Nat, NEW e \in Nat, Bounds(norm, p, q, s, e)
  PROVE  /\ s \in 0..Len(text) /\ e \in 0..Len(text) /\ s < e
         /\ Plain[SubSeq(text, s + 1, e)] = SubSeq(Plain[text], p + 1, p + q)
<1> DEFINE n == Len(text)
<1>1. text \in Seq(Chars) /\ n \in Nat
  BY TextType
<1>2. PICK K : OwnRun(K, text) /\ K[n] = norm
  BY OwnNormal
<1>3. /\ \A k \in 0..n : Tracks(K, text, k) /\ Len(K[k]) \in Nat
      /\ Len(K[0]) = 0
      /\ \A k \in 1..n :
            Len(K[k]) = IF InRun(text, k) THEN Len(K[k - 1]) ELSE Len(K[k - 1]) + 1
  BY <1>1, <1>2, TracksAll
<1>4. Tracks(K, text, n)
  BY <1>1, <1>3
<1>5. norm \in Seq(Marks) /\ Len(norm) \in Nat
  <2>1. norm \in Seq(Marks)
    BY NormalForm
  <2> QED
    BY <2>1
<1>6. p + 1 \in 1..Len(norm) /\ p + q \in 1..Len(norm)
  BY <1>5
<1>7. s \in 0..(n - 1) /\ norm[p + 1].to \in 1..n /\ s < norm[p + 1].to
      /\ e \in 1..n /\ norm[p + q].from < e
  BY <1>2, <1>4, <1>6 DEF Tracks, Placed, Bounds
<1>8. \A m \in 1..Len(norm), j \in 1..n :
         Len(K[j]) = m <=> norm[m].from < j /\ j <= norm[m].to
  BY <1>2, <1>4 DEF Tracks, Located
<1>9. \A j \in 1..n : Len(K[j]) \in 1..Len(norm) /\ norm[Len(K[j])].char = Shown(text[j])
  BY <1>2, <1>4 DEF Tracks, Shows
<1>10. s \in 0..n /\ e \in 0..n /\ s + 1 \in 1..n /\ s \in Nat /\ e \in Nat
  BY <1>1, <1>7
<1>11. Len(K[s + 1]) = p + 1
  <2>1. PICK t \in Nat : t = norm[p + 1].to
    BY <1>1, <1>7
  <2>2. s < s + 1 /\ s + 1 <= t
    BY <1>7, <1>10, <2>1
  <2>3. norm[p + 1].from < s + 1 /\ s + 1 <= norm[p + 1].to
    <3>1. norm[p + 1].from = s
      BY DEF Bounds
    <3> HIDE DEF n
    <3> QED
      BY <2>1, <2>2, <3>1
  <2> QED
    BY <1>6, <1>8, <1>10, <2>3
<1>12. Len(K[s]) = p
  <2>1. (s + 1) - 1 = s /\ Len(K[s]) \in Nat
    BY <1>3, <1>10
  <2>2. Len(K[s]) # p + 1
    <3>1. CASE s = 0
      BY <1>3, <3>1
    <3>2. CASE s # 0
      <4>1. s \in 1..n /\ ~(norm[p + 1].from < s)
        BY <1>1, <1>10, <3>2 DEF Bounds
      <4> QED
        BY <1>6, <1>8, <4>1
    <3> QED
      BY <3>1, <3>2
  <2>3. Len(K[s + 1]) = Len(K[s]) \/ Len(K[s + 1]) = Len(K[s]) + 1
    BY <1>3, <1>10, <2>1
  <2> QED
    BY <1>11, <2>1, <2>2, <2>3
<1>13. Len(K[e]) = p + q
  <2>1. e <= norm[p + q].to
    BY <1>10 DEF Bounds
  <2> QED
    BY <1>6, <1>7, <1>8, <2>1
<1>14. s < e
  <2> SUFFICES ASSUME e <= s PROVE FALSE
    BY <1>10
  <2>1. s \in e..n
    BY <1>10
  <2>2. Len(K[e]) <= Len(K[s])
    BY <1>1, <1>2, <1>10, <2>1, MarksGrow
  <2> QED
    BY <1>12, <1>13, <2>2
<1>a. PICK part : part = SubSeq(text, s + 1, e)
  OBVIOUS
<1>b. PICK l \in Nat : l = e - s /\ s + l = e
  <2>1. e - s \in Nat /\ s + (e - s) = e
    BY <1>10, <1>14, Difference
  <2> QED
    BY <2>1
<1>15. /\ part \in Texts /\ Len(part) = l /\ l \in Nat
       /\ \A i \in 1..l : part[i] = text[s + i] /\ s + i \in 1..n
  <2>1. s \in Nat /\ e \in Nat /\ s <= e /\ e <= Len(text)
    BY <1>1, <1>10, <1>14
  <2>2. part \in Texts /\ Len(part) = l /\ \A i \in 1..l : part[i] = text[s + i]
    <3>1. IsPart(part, text, s, e, l)
      BY <1>a, <1>b, <2>1 DEF IsPart
    <3> QED
      BY <2>1, <3>1, PartIsText
  <2>3. \A i \in 1..l : s + i \in 1..n
    <3>1. s \in Nat /\ l \in Nat /\ n \in Nat /\ s + l <= n
      BY <1>1, <1>b, <2>1
    <3> HIDE DEF n
    <3> QED
      BY <3>1
  <2> QED
    BY <1>b, <2>2, <2>3
<1>16. Composed(part)
  <2> SUFFICES ASSUME NEW i \in 2..l, part[i] = "accent" PROVE part[i - 1] \notin {"a", "A"}
    BY <1>15 DEF Composed
  <2>1. i \in 1..l /\ i - 1 \in 1..l
    BY <1>15
  <2>2. part[i] = text[s + i] /\ part[i - 1] = text[s + (i - 1)]
        /\ s + i \in 1..n /\ s + (i - 1) \in 1..n
    BY <1>15, <2>1
  <2>3. s + (i - 1) = (s + i) - 1 /\ s + i \in 2..n
    <3>1. i \in Nat /\ i >= 2 /\ s \in Nat /\ n \in Nat
      BY <1>1, <1>10, <1>15, <2>1
    <3>2. s + i <= n
      BY <2>2, <3>1
    <3> HIDE DEF n
    <3> QED
      BY <3>1, <3>2
  <2>4. text[s + i] = "accent" => text[(s + i) - 1] \notin {"a", "A"}
    BY <2>3 DEF Composed
  <2> QED
    BY <2>2, <2>3, <2>4
<1>17. PICK L : OwnRun(L, part) /\ L[l] = Normalized[part]
  BY <1>15, <1>16, OwnNormal
<1>18. part \in Seq(Chars)
  BY <1>15, TextType
<1>19. /\ \A k \in 0..l : Tracks(L, part, k) /\ Len(L[k]) \in Nat
       /\ Len(L[0]) = 0
       /\ \A k \in 1..l :
             Len(L[k]) = IF InRun(part, k) THEN Len(L[k - 1]) ELSE Len(L[k - 1]) + 1
  BY <1>15, <1>17, <1>18, TracksAll
<1>20. \A k \in 0..l : Len(K[s + k]) = p + Len(L[k])
  <2> DEFINE Z == {k \in 0..l : Len(K[s + k]) = p + Len(L[k])}
  <2>1. 0 \in Z
    <3>1. s + 0 = s /\ p + 0 = p /\ 0 \in 0..l
      BY <1>10, <1>15
    <3> QED
      BY <1>12, <1>19, <3>1
  <2>2. ASSUME NEW k \in 1..l, k - 1 \in Z PROVE k \in Z
    <3>1. s + k \in 1..n /\ (s + k) - 1 = s + (k - 1) /\ k \in 0..l /\ k - 1 \in 0..l
          /\ Len(L[k - 1]) \in Nat
      BY <1>10, <1>15, <1>19
    <3>2. Len(K[s + (k - 1)]) = p + Len(L[k - 1])
      BY <2>2
    <3>3. Len(L[k]) = IF InRun(part, k) THEN Len(L[k - 1]) ELSE Len(L[k - 1]) + 1
      BY <1>19
    <3>4. Len(K[s + k]) = IF InRun(text, s + k) THEN Len(K[s + (k - 1)])
                          ELSE Len(K[s + (k - 1)]) + 1
      <4>1. PICK x \in 1..n : x = s + k
        BY <3>1
      <4>2. Len(K[x]) = IF InRun(text, x) THEN Len(K[x - 1]) ELSE Len(K[x - 1]) + 1
        BY <1>3
      <4> QED
        BY <3>1, <4>1, <4>2
    <3>5. CASE k = 1
      <4>1. s + k = s + 1 /\ s + (k - 1) = s
        BY <1>10, <3>5
      <4>2. Len(L[k - 1]) = 0 /\ ~InRun(part, k)
        BY <1>19, <3>5 DEF InRun
      <4>3. Len(L[k]) = 1
        BY <3>3, <4>2
      <4> QED
        BY <1>11, <3>1, <4>1, <4>3
    <3>6. CASE k > 1
      <4>1. k - 1 \in 1..l
        BY <3>1, <3>6
      <4>2. part[k] = text[s + k] /\ part[k - 1] = text[(s + k) - 1]
        BY <1>15, <3>1, <4>1
      <4>3. s + k > 1
        BY <1>10, <3>6
      <4>4. InRun(part, k) <=> InRun(text, s + k)
        BY <3>6, <4>2, <4>3 DEF InRun
      <4>5. PICK u \in Nat : u = Len(L[k - 1])
        BY <3>1
      <4>6. CASE InRun(part, k)
        <5>1. Len(L[k]) = u /\ Len(K[s + k]) = p + u
          BY <3>2, <3>3, <3>4, <4>4, <4>5, <4>6
        <5> QED
          BY <3>1, <5>1
      <4>7. CASE ~InRun(part, k)
        <5>1. Len(L[k]) = u + 1 /\ Len(K[s + k]) = (p + u) + 1
          BY <3>2, <3>3, <3>4, <4>4, <4>5, <4>7
        <5>2. (p + u) + 1 = p + (u + 1)
          OBVIOUS
        <5> QED
          BY <3>1, <5>1, <5>2
      <4> QED
        BY <4>6, <4>7
    <3> QED
      BY <3>5, <3>6
  <2> HIDE DEF Z
  <2>3. \A k \in 0..l : k \in Z
    BY <1>15, <2>1, <2>2, Throughout
  <2> QED
    BY <2>3 DEF Z
<1>21. Len(L[l]) = q
  <2>1. l \in 0..l /\ s + l = e
    BY <1>b
  <2>2. Len(K[e]) = p + Len(L[l]) /\ Len(L[l]) \in Nat
    BY <1>19, <1>20, <2>1
  <2>3. PICK u \in Nat : u = Len(L[l])
    BY <2>2
  <2>4. p + u = p + q
    BY <1>13, <2>2, <2>3
  <2> QED
    BY <2>3, <2>4
<1>22. PICK own : own = Normalized[part]
  OBVIOUS
<1>23. /\ Len(own) = q /\ Plain[part] \in Seq(Chars) /\ Len(Plain[part]) = q
       /\ \A m \in 1..q : Plain[part][m] = own[m].char
  <2>1. Len(own) = q
    BY <1>17, <1>21, <1>22
  <2> QED
    BY <1>15, <1>22, <2>1, NormalForm
<1>24. ASSUME NEW m \in 1..q PROVE own[m].char = norm[p + m].char
  <2>1. Tracks(L, part, l)
    BY <1>15, <1>19
  <2>2. own[m].from \in 0..(l - 1) /\ own[m].to \in 1..l /\ own[m].from < own[m].to
    BY <1>17, <1>22, <1>23, <2>1 DEF Tracks, Placed
  <2>3. PICK j \in 1..l : j = own[m].from + 1
    BY <1>15, <2>2
  <2>4. own[m].from < j /\ j <= own[m].to
    BY <2>2, <2>3
  <2>5. Len(L[j]) = m
    BY <1>17, <1>22, <1>23, <2>1, <2>4 DEF Tracks, Located
  <2>6. own[m].char = Shown(part[j])
    BY <1>17, <1>22, <2>1, <2>5 DEF Tracks, Shows
  <2>7. j \in 0..l /\ s + j \in 1..n /\ part[j] = text[s + j]
    BY <1>15
  <2>8. Len(K[s + j]) = p + m
    BY <1>20, <2>5, <2>7
  <2>9. norm[p + m].char = Shown(text[s + j])
    BY <1>9, <2>7, <2>8
  <2> QED
    BY <2>6, <2>7, <2>9
<1>25. Plain[part] = SubSeq(Plain[text], p + 1, p + q)
  <2>1. PICK a \in Seq(Chars) : a = Plain[text] /\ Len(a) = Len(norm)
                                /\ \A i \in 1..Len(norm) : a[i] = norm[i].char
    BY NormalForm
  <2>2. PICK b \in Seq(Chars) : b = Plain[part] /\ Len(b) = q
    BY <1>23
  <2>3. PICK c : c = SubSeq(a, p + 1, p + q)
    OBVIOUS
  <2>4. c \in Seq(Chars) /\ Len(c) = q /\ \A m \in 1..q : c[m] = a[p + m]
    BY <2>1, <2>3, SubSeqIs
  <2>5. \A m \in 1..q : b[m] = c[m]
    <3> TAKE m \in 1..q
    <3>1. b[m] = own[m].char /\ c[m] = a[p + m] /\ p + m \in 1..Len(norm)
      BY <1>5, <1>23, <2>2, <2>4
    <3> QED
      BY <1>24, <2>1, <3>1
  <2>6. b = c
    BY <2>2, <2>4, <2>5
  <2> QED
    BY <2>1, <2>2, <2>3, <2>6
<1> QED
  BY <1>10, <1>14, <1>25, <1>a

-----------------------------------------------------------------------------
(* The slice of a citation                                                 *)

(* What is found is where the part occurs.                                 *)
LEMMA FindOccurs ==
  ASSUME NEW part, NEW whole, Occurrences(part, whole) # {}
  PROVE  Find(part, whole) \in Occurrences(part, whole)
<1> DEFINE at == Occurrences(part, whole)
<1>1. at \in SUBSET Nat /\ at # {}
  BY DEF Occurrences
<1>2. Find(part, whole) = IF at = {} THEN -1 ELSE CHOOSE n \in at : \A m \in at : n <= m
  BY DEF Find
<1> HIDE DEF at
<1>3. \E n \in at : \A m \in at : n <= m
  BY <1>1, LeastElement
<1>4. Find(part, whole) \in at
  BY <1>1, <1>2, <1>3
<1> QED
  BY <1>4 DEF at

(* A slice lies within its text, and in composed text it is the quote.     *)
SliceSound(text, quote, slice) ==
    /\ 0 <= slice[1] /\ slice[1] <= slice[2] /\ slice[2] <= ByteOffset(text, Len(text))
    /\ NFC(text) = text => slice[1] < slice[2] /\ Plain[Decode(text, slice)] = Plain[quote]

(* The slice of the marks where a quote was found.                         *)
LEMMA FoundSlice ==
  ASSUME NEW text \in Texts, NEW quote \in Texts, Len(quote) > 0,
         Occurrences(Plain[quote], Plain[text]) # {},
         NEW p, p = Find(Plain[quote], Plain[text]),
         NEW q, q = Len(Plain[quote]), NEW slice, slice = Slice(text, p, p + q)
  PROVE  SliceSound(text, quote, slice)
<1>1. text \in Seq(Chars) /\ Len(text) \in Nat
  BY TextType
<1>2. PICK norm : norm = Normalized[text]
  OBVIOUS
<1>3. /\ norm \in Seq(Marks) /\ Ordered(norm, Len(text), Len(text))
      /\ Len(Plain[text]) = Len(norm)
  BY <1>2, NormalForm
<1>4. PICK own : own = Normalized[quote]
  OBVIOUS
<1>5. q \in Nat \ {0}
  <2>1. own \in Seq(Marks) /\ Len(own) > 0 /\ Len(Plain[quote]) = Len(own)
    BY <1>4, NormalForm
  <2> QED
    BY <2>1
<1>6. p \in Nat /\ p + q <= Len(norm) /\ SubSeq(Plain[text], p + 1, p + q) = Plain[quote]
  <2>1. PICK a, b, m : a = Plain[quote] /\ b = Plain[text] /\ m = Len(b)
    OBVIOUS
  <2>5. m \in Nat /\ m = Len(norm)
    BY <1>3, <2>1
  <2>2. p \in Occurrences(a, b)
    BY <2>1, FindOccurs
  <2>3. p \in 0..(m - q) /\ SubSeq(b, p + 1, p + q) = a
    BY <2>1, <2>2 DEF Occurrences
  <2>4. p \in Nat /\ p + q <= m
    BY <1>5, <2>3, <2>5
  <2> QED
    BY <2>1, <2>3, <2>4, <2>5
<1>7. /\ p + 1 \in 1..Len(norm) /\ p + q \in 1..Len(norm) /\ p + 1 <= p + q
      /\ norm[p + 1] \in Marks /\ norm[p + q] \in Marks
  <2>1. p + 1 \in 1..Len(norm) /\ p + q \in 1..Len(norm) /\ p + 1 <= p + q
    BY <1>3, <1>5, <1>6
  <2> QED
    BY <1>3, <2>1
<1>8. PICK s \in Nat, e \in Nat : Bounds(norm, p, q, s, e)
  BY <1>7 DEF Bounds, Marks
<1>9. s <= e /\ e <= Len(text)
  <2>1. PICK f \in Nat : f = norm[p + q].from
    BY <1>7 DEF Marks
  <2>2. s <= f /\ f <= e /\ e <= Len(text)
    BY <1>3, <1>7, <1>8, <2>1 DEF Ordered, Bounds
  <2> QED
    BY <2>2
<1>10. s \in 0..Len(text) /\ e \in 0..Len(text) /\ Len(text) \in 0..Len(text)
  BY <1>1, <1>9
<1>11. slice = <<ByteOffset(text, s), ByteOffset(text, e)>>
  BY <1>2, <1>8 DEF Slice, Bounds
<1>12. PICK x \in Nat, y \in Nat, z \in Nat :
          /\ x = ByteOffset(text, s) /\ y = ByteOffset(text, e)
          /\ z = ByteOffset(text, Len(text))
  BY <1>1, <1>10, OffsetsGrow
<1>13. x <= y /\ y <= z /\ (s < e => x < y)
  <2>1. \A m, n \in 0..Len(text) : m < n => ByteOffset(text, m) < ByteOffset(text, n)
    BY <1>1, OffsetsGrow
  <2>2. s < e => x < y
    BY <1>10, <1>12, <2>1
  <2>3. s = e => x = y
    BY <1>12
  <2>4. e < Len(text) => y < z
    BY <1>10, <1>12, <2>1
  <2>5. e = Len(text) => y = z
    BY <1>12
  <2>6. (s < e \/ s = e) /\ (e < Len(text) \/ e = Len(text))
    BY <1>1, <1>9
  <2> QED
    BY <2>2, <2>3, <2>4, <2>5, <2>6
<1>14. slice[1] = x /\ slice[2] = y
  BY <1>11, <1>12
<1>15. ASSUME NFC(text) = text
       PROVE  x < y /\ Plain[Decode(text, slice)] = Plain[quote]
  <2>1. Composed(text)
    BY <1>1, <1>15, ComposedForm
  <2>2. s < e /\ Plain[SubSeq(text, s + 1, e)] = SubSeq(Plain[text], p + 1, p + q)
    <3>1. p \in Nat /\ p + q <= Len(norm)
      BY <1>6
    <3>2. /\ s \in 0..Len(text) /\ e \in 0..Len(text) /\ s < e
          /\ Plain[SubSeq(text, s + 1, e)] = SubSeq(Plain[text], p + 1, p + q)
      BY <1>2, <1>5, <1>8, <2>1, <3>1, PartNormal
    <3> QED
      BY <3>2
  <2>3. Decode(text, slice) = SubSeq(text, s + 1, e)
    BY <1>1, <1>9, <1>10, <1>11, DecodeAt
  <2> QED
    BY <1>6, <1>13, <2>2, <2>3
<1> QED
  BY <1>12, <1>13, <1>14, <1>15 DEF SliceSound

(* The quotes and the documents of the items are texts.                    *)
TextItems(raw, docs) == \A n \in DOMAIN raw :
    /\ raw[n].quote \in Texts
    /\ raw[n].hash \in DOMAIN docs => docs[raw[n].hash].text \in Texts

(* So are the slices of all valid citations.                               *)
LEMMA Sliced ==
  ASSUME NEW R, NEW answer, NEW docs, Citable(R, answer, docs), NEW raw \in Seq(R),
         TextItems(raw, docs),
         NEW judged, judged = Judged(answer, raw, docs),
         NEW cited, cited = Cited(raw, docs, judged),
         NEW result, result = [valid |-> Sorted(answer, cited), rejected |-> Rejected(judged)]
  PROVE  OffsetsSound(raw, docs, result)
<1> DEFINE N == DOMAIN raw
           J == {judged[n] : n \in N}
           Good == {n \in N : judged[n].reason = "none" <=> TRUE}
<1>1. /\ N = 1..Len(raw) /\ Len(raw) \in Nat /\ \A n \in N : raw[n] \in R
      /\ DOMAIN judged = N /\ judged = [n \in N |-> judged[n]]
      /\ \A n \in N : /\ judged[n].raw = n /\ judged[n].start = Match(raw[n], docs)
                      /\ judged[n].reason = Reason(answer, raw[n], docs)
  BY DEF Judged
<1>2. judged \in Seq(J) /\ Len(judged) = Len(raw)
  BY <1>1
<1>3. \A n \in N : judged[n].reason = "none" <=> SoundItem(answer, raw[n], docs)
  BY <1>1, ReasonSound
<1> HIDE DEF J
<1>4. PICK good, e : /\ good = Filed(judged, TRUE) /\ good \in Seq(J)
                     /\ Lists(e, judged, good, Good)
  <2>1. Good = {k \in DOMAIN judged : judged[k].reason = "none" <=> TRUE}
    BY <1>1
  <2> HIDE DEF Good
  <2> QED
    BY <1>2, <2>1, FiledExact
<1>5. DOMAIN good = 1..Len(good) /\ Len(good) \in Nat
  <2>1. good \in Seq(J)
    BY <1>4
  <2> QED
    BY <2>1
<1>6. /\ DOMAIN cited = DOMAIN good
      /\ \A i \in DOMAIN good : cited[i] = Cite(good[i].raw, good[i].start, raw, docs)
  BY <1>4 DEF Cited
<1>7. \A i \in DOMAIN good : e[i] \in Good /\ e[i] \in N /\ good[i].raw = e[i]
                             /\ good[i].start = Match(raw[e[i]], docs)
  <2> TAKE i \in DOMAIN good
  <2>1. e[i] \in Good /\ good[i] = judged[e[i]]
    BY <1>4 DEF Lists
  <2>2. e[i] \in N
    BY <2>1
  <2> QED
    BY <1>1, <2>1, <2>2
<1> DEFINE Text(c) == docs[c.hash].text
           Span(c) == <<c.byte_start, c.byte_end>>
<1>8. ASSUME NEW i \in DOMAIN good
      PROVE  /\ SliceSound(Text(cited[i]), raw[cited[i].raw].quote, Span(cited[i]))
             /\ Keyed(answer, cited[i])
  <2>1. PICK n \in N, x \in R : n = e[i] /\ x = raw[n] /\ SoundItem(answer, x, docs)
    BY <1>1, <1>3, <1>7
  <2>2. PICK text \in Texts, quote \in Texts : text = docs[x.hash].text /\ quote = x.quote
    BY <2>1 DEF TextItems, SoundItem
  <2>3. PICK p : p = Find(Plain[quote], Plain[text])
    OBVIOUS
  <2>4. PICK q : q = Len(Plain[quote])
    OBVIOUS
  <2>5. PICK slice : slice = Slice(text, p, p + q)
    OBVIOUS
  <2>6. good[i].start = p
    BY <1>7, <2>1, <2>2, <2>3 DEF Match, SoundItem
  <2>7. Len(quote) > 0 /\ Occurrences(Plain[quote], Plain[text]) # {}
    BY <2>1, <2>2, CitationAssumption DEF SoundItem
  <2>8. SliceSound(text, quote, slice)
    BY <2>3, <2>4, <2>5, <2>7, FoundSlice
  <2>9. slice = <<slice[1], slice[2]>>
    BY <2>5 DEF Slice
  <2>10. PICK c : c = cited[i]
    OBVIOUS
  <2>11. c = [hash |-> x.hash, byte_start |-> slice[1], byte_end |-> slice[2],
              quote |-> Decode(text, slice), claim |-> x.claim, raw |-> n]
    BY <1>6, <1>7, <2>1, <2>2, <2>4, <2>5, <2>6, <2>10 DEF Cite
  <2>12. /\ c.hash = x.hash /\ c.raw = n /\ c.claim = x.claim
         /\ c.byte_start = slice[1] /\ c.byte_end = slice[2] /\ c.quote = Decode(text, slice)
    BY <2>11
  <2>13. Text(c) = text /\ raw[c.raw].quote = quote /\ Span(c) = slice
    BY <2>1, <2>2, <2>9, <2>12
  <2>14. Len(c.quote) \in Nat
    BY <2>12, DecodeType, TextType
  <2>15. Keyed(answer, c)
    BY <2>12, <2>14 DEF Keyed, Citable
  <2> QED
    BY <2>8, <2>10, <2>13, <2>15
<1>9. PICK order : Orders(order, answer, cited, Len(good))
  <2>1. /\ Len(good) \in Nat /\ DOMAIN cited = 1..Len(good)
        /\ \A i \in 1..Len(good) : Keyed(answer, cited[i])
    BY <1>5, <1>6, <1>8
  <2> QED
    BY <2>1, SortedSorts
<1>10. order \in [1..Len(good) -> 1..Len(good)]
  BY <1>9 DEF Orders, Bijection, Injection
<1>11. ASSUME NEW n \in DOMAIN result.valid, NEW c, c = result.valid[n]
       PROVE  SliceSound(Text(c), raw[c.raw].quote, Span(c))
  <2>1. n \in 1..Len(good) /\ c = cited[order[n]]
    BY <1>9, <1>11 DEF Orders
  <2>2. order[n] \in DOMAIN good
    BY <1>5, <1>10, <2>1
  <2> QED
    BY <1>8, <2>1, <2>2
<1>12. ASSUME NEW n \in DOMAIN result.valid, NEW c, c = result.valid[n]
       PROVE  /\ 0 <= c.byte_start /\ c.byte_start <= c.byte_end
              /\ c.byte_end <= ByteOffset(Text(c), Len(Text(c)))
              /\ NFC(Text(c)) = Text(c) =>
                    c.byte_start < c.byte_end /\ Covers(Text(c), raw[c.raw].quote, c)
  <2>1. Span(c)[1] = c.byte_start /\ Span(c)[2] = c.byte_end
    OBVIOUS
  <2>2. SliceSound(Text(c), raw[c.raw].quote, Span(c))
    BY <1>11, <1>12
  <2> QED
    BY <2>1, <2>2 DEF SliceSound, Covers
<1> QED
  BY <1>12 DEF OffsetsSound

LEMMA ShortTexts ==
  ASSUME NEW n \in 0..MaxText, NEW t \in [1..n -> Alphabet]
  PROVE  t \in Texts
BY DEF Texts, BoundedSeq, SeqOf

(* The instance keeps its quotes and documents within Texts.               *)
LEMMA ValidationsTexts ==
  ASSUME NEW x \in Validations
  PROVE  TextItems(x.raw, x.docs)
<1>1. CASE x \in OneCitation
  <2> DEFINE c == CHOOSE c \in Claims : TRUE
  <2>1. PICK text \in Texts, quote \in BoundedSeq(Alphabet, MaxQuoted) :
           x = [answer |-> [d \in Claims |-> 0],
                raw |-> <<[hash |-> 1, quote |-> quote, claim |-> c]>>,
                docs |-> <<Document(text, <<>>)>>]
    BY <1>1 DEF OneCitation
  <2> HIDE DEF c
  <2>2. PICK item, doc : /\ item = [hash |-> 1, quote |-> quote, claim |-> c]
                         /\ doc = Document(text, <<>>)
    OBVIOUS
  <2>3. item.hash = 1 /\ item.quote = quote /\ doc.text = text
    BY <2>2 DEF Document
  <2>4. x.raw = <<item>> /\ x.docs = <<doc>>
    BY <2>1, <2>2
  <2>5. quote \in Texts
    <3>1. PICK m \in 0..MaxQuoted : quote \in [1..m -> Alphabet]
      BY DEF BoundedSeq, SeqOf
    <3>2. m \in 0..MaxText
      BY CitationAssumption, GroundingAssumption
    <3> QED
      BY <3>1, <3>2, ShortTexts
  <2> QED
    BY <2>3, <2>4, <2>5 DEF TextItems
<1>2. CASE x \in TwoCitations
  <2> DEFINE Quotes == {<<"a">>, <<"A", "a">>, <<"a", "a", "a">>}
             R == [hash : 1..3, quote : Quotes, claim : Claims]
             Docs == {<<Document(<<"a", "A">>, <<>>), Document(<<"a", "a", "a">>, tags)>> :
                         tags \in {<<>>, <<"a">>}}
  <2>1. x \in [answer : [Claims -> -1..1], raw : [1..2 -> R], docs : Docs]
    BY <1>2 DEF TwoCitations
  <2>2. /\ <<"a">> \in Texts /\ <<"A", "a">> \in Texts
        /\ <<"a", "A">> \in Texts /\ <<"a", "a", "a">> \in Texts
    <3>1. "a" \in Alphabet /\ "A" \in Alphabet
          /\ 1 \in 0..MaxText /\ 2 \in 0..MaxText /\ 3 \in 0..MaxText
      BY CitationAssumption, GroundingAssumption
    <3>2. /\ <<"a">> \in [1..1 -> Alphabet] /\ <<"A", "a">> \in [1..2 -> Alphabet]
          /\ <<"a", "A">> \in [1..2 -> Alphabet] /\ <<"a", "a", "a">> \in [1..3 -> Alphabet]
      BY <3>1
    <3> QED
      BY <3>1, <3>2, ShortTexts
  <2>3. ASSUME NEW d \in Docs, NEW n \in DOMAIN d PROVE d[n].text \in Texts
    <3>1. \A text, tags : Document(text, tags).text = text
      BY DEF Document
    <3>2. PICK tags \in {<<>>, <<"a">>} :
             d = <<Document(<<"a", "A">>, <<>>), Document(<<"a", "a", "a">>, tags)>>
      OBVIOUS
    <3>3. PICK one, two : one = Document(<<"a", "A">>, <<>>)
                          /\ two = Document(<<"a", "a", "a">>, tags)
      OBVIOUS
    <3>4. one.text \in Texts /\ two.text \in Texts
      BY <2>2, <3>1, <3>3
    <3>5. d = <<one, two>>
      BY <3>2, <3>3
    <3>6. d[n] = one \/ d[n] = two
      BY <3>5
    <3> QED
      BY <3>4, <3>6
  <2>4. \A q \in Quotes : q \in Texts
    BY <2>2
  <2> HIDE DEF Quotes, Docs
  <2> QED
    BY <2>1, <2>3, <2>4 DEF TextItems
<1> QED
  BY <1>1, <1>2 DEF Validations

(* Whatever the answer, the items and the documents: the offsets of every  *)
(* valid citation lie within its document, and where the text of the       *)
(* document is in composed form the slice is not empty and normalises to   *)
(* what the model quoted.                                                  *)
THEOREM SlicesCorrect == Spec => []CitationsSliced
<1>1. CitationsInv => CitationsSliced
  <2> SUFFICES ASSUME CitationsInv, job = "cite", out.done PROVE CitationsSliced
    BY DEF CitationsSliced, Returned
  <2>1. PICK R : in.raw \in Seq(R) /\ Citable(R, in.answer, in.docs)
    BY ValidationsCitable DEF CitationsInv
  <2>2. TextItems(in.raw, in.docs)
    BY ValidationsTexts DEF CitationsInv
  <2>3. PICK judged : judged = Judged(in.answer, in.raw, in.docs)
    OBVIOUS
  <2>4. PICK cited : cited = Cited(in.raw, in.docs, judged)
    OBVIOUS
  <2>5. out.value = [valid |-> Sorted(in.answer, cited), rejected |-> Rejected(judged)]
    BY <2>3, <2>4 DEF CitationsInv
  <2>6. OffsetsSound(in.raw, in.docs, out.value)
    BY <2>1, <2>2, <2>3, <2>4, <2>5, Sliced
  <2> QED
    BY <2>6 DEF CitationsSliced
<1> QED
  BY <1>1, CitationsInvAlways, PTL
=============================================================================
