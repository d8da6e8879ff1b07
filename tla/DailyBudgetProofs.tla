-------------------------- MODULE DailyBudgetProofs --------------------------
(***************************************************************************)
(* Proofs about DailyBudget: for any number of concurrent callers, roles,  *)
(* days and costs, with a durable ledger or not, the daily cap is          *)
(* overshot by at most the calls in flight.                                *)
(***************************************************************************)
EXTENDS DailyBudget, FiniteSetTheorems, TLAPS

(* The variables of the ledger keep their types.                           *)
THEOREM BudgetTypeCorrect == Spec => []BudgetTypeOK
<1>1. Init => BudgetTypeOK
  BY BudgetAssumption DEF Init, BudgetTypeOK, EmptyLedger, Days
<1>2. BudgetTypeOK /\ [Next]_budgetVars => BudgetTypeOK'
  <2> SUFFICES ASSUME BudgetTypeOK, [Next]_budgetVars
               PROVE  BudgetTypeOK'
    OBVIOUS
  <2> USE BudgetAssumption DEF BudgetTypeOK, Days
  <2>1. ASSUME NEW c \in Callers, NEW r \in Roles, Admit(c, r)
        PROVE  BudgetTypeOK'
    BY <2>1 DEF Admit
  <2>2. ASSUME NEW c \in Callers, NEW cost \in 0..MaxCost, AddSpend(c, cost)
        PROVE  BudgetTypeOK'
    <3>1. spend[day][holder[c]] + cost \in Nat
      BY <2>2 DEF AddSpend
    <3>2. spend' \in [Days -> [Roles -> Nat]]
      BY <2>2, <3>1 DEF AddSpend
    <3> QED
      BY <2>2, <3>2 DEF AddSpend
  <2>3. ASSUME NEW c \in Callers, Abandon(c)
        PROVE  BudgetTypeOK'
    BY <2>3 DEF Abandon
  <2>4. CASE Midnight
    BY <2>4 DEF Midnight
  <2>5. CASE Restart
    BY <2>5 DEF Restart, EmptyLedger
  <2>6. CASE UNCHANGED budgetVars
    BY <2>6 DEF budgetVars
  <2> QED
    BY <2>1, <2>2, <2>3, <2>4, <2>5, <2>6 DEF Next
<1> QED
  BY <1>1, <1>2, PTL DEF Spec

-----------------------------------------------------------------------------
LEMMA MulSucc ==
  ASSUME NEW k \in Nat, NEW n \in Nat
  PROVE  k * (n + 1) = k * n + k
  OBVIOUS

LEMMA MulMono ==
  ASSUME NEW k \in Nat, NEW m \in Nat, NEW n \in Nat, m <= n
  PROVE  k * m <= k * n
<1>1. PICK j \in Nat : n = m + j
  <2>1. n - m \in Nat /\ n = m + (n - m)
    OBVIOUS
  <2> QED
    BY <2>1
<1>2. k * (m + j) = k * m + k * j
  OBVIOUS
<1>3. k * j \in Nat /\ k * m \in Nat
  OBVIOUS
<1> QED
  BY <1>1, <1>2, <1>3

(* A set of callers is finite and can book at most MaxCost each.           *)
LEMMA CallersBound ==
  ASSUME NEW S \in SUBSET Callers
  PROVE  /\ IsFiniteSet(S)
         /\ Cardinality(S) \in Nat
         /\ MaxCost * Cardinality(S) \in Nat
         /\ MaxCost * Cardinality(S) <= MaxCost * Cardinality(Callers)
         /\ MaxCost * Cardinality(Callers) \in Nat
<1>1. /\ IsFiniteSet(S)
      /\ Cardinality(S) <= Cardinality(Callers)
  BY FS_Subset, BudgetAssumption
<1>2. Cardinality(S) \in Nat /\ Cardinality(Callers) \in Nat
  BY <1>1, FS_CardinalityType, BudgetAssumption
<1>3. MaxCost * Cardinality(S) <= MaxCost * Cardinality(Callers)
  BY <1>1, <1>2, MulMono, BudgetAssumption
<1>4. MaxCost * Cardinality(S) \in Nat /\ MaxCost * Cardinality(Callers) \in Nat
  BY <1>2, BudgetAssumption
<1> QED
  BY <1>1, <1>2, <1>3, <1>4

LEMMA CapType == Cap \in Nat
  BY CallersBound, BudgetAssumption DEF Cap

LEMMA PendingBound ==
  ASSUME NEW r \in Roles
  PROVE  Pending(r) \in Nat /\ Pending(r) <= Cap
<1>1. Holding(r) \in SUBSET Callers
  BY DEF Holding
<1> QED
  BY <1>1, CallersBound, BudgetAssumption DEF Pending, Cap

(* When a caller leaves, what its role may still book shrinks by MaxCost.  *)
LEMMA PendingLeave ==
  ASSUME BudgetTypeOK,
         NEW c \in Callers, NEW r \in Roles, holder[c] = r,
         holder' = [holder EXCEPT ![c] = NoRole]
  PROVE  Pending(r) = Pending(r)' + MaxCost /\ Pending(r)' \in Nat
<1>1. /\ Holding(r) \in SUBSET Callers
      /\ c \in Holding(r)
      /\ Holding(r)' = Holding(r) \ {c}
  BY BudgetAssumption DEF Holding, BudgetTypeOK
<1>2. Cardinality(Holding(r)') = Cardinality(Holding(r)) - 1
  BY <1>1, CallersBound, FS_RemoveElement
<1>3. Cardinality(Holding(r)') \in Nat /\ Cardinality(Holding(r)) \in Nat
  BY <1>1, CallersBound
<1>4. Cardinality(Holding(r)) = Cardinality(Holding(r)') + 1
  BY <1>2, <1>3
<1>5. MaxCost * Cardinality(Holding(r)')  \in Nat
  BY <1>3, BudgetAssumption
<1> QED
  BY <1>3, <1>4, <1>5, MulSucc, BudgetAssumption DEF Pending

-----------------------------------------------------------------------------
LEMMA ReservedInit == Init => Reserved
<1> SUFFICES ASSUME Init PROVE Reserved
  OBVIOUS
<1>1. day \in Days /\ \A d \in Days, r \in Roles : spend[d][r] = 0
  BY BudgetAssumption DEF Init, EmptyLedger, Days
<1>2. ASSUME NEW r \in Roles
      PROVE  Pending(r) \in Nat /\ Pending(r) <= Cap
  BY PendingBound
<1>3. Cap \in Nat
  BY CapType
<1> QED
  BY <1>1, <1>2, <1>3 DEF Reserved, SpendBounded

LEMMA ReservedStep ==
  BudgetTypeOK /\ Reserved /\ [Next]_budgetVars => Reserved'
<1> SUFFICES ASSUME BudgetTypeOK, Reserved, [Next]_budgetVars
             PROVE  Reserved'
  OBVIOUS
<1> USE BudgetAssumption DEF BudgetTypeOK
<1>0. /\ Cap' = Cap
      /\ Cap \in Nat
      /\ \A r \in Roles : Pending(r) \in Nat
  BY CapType, PendingBound DEF Cap
<1>a. ASSUME NEW r \in Roles
      PROVE  /\ (\A c \in Callers : (holder'[c] = r <=> holder[c] = r))
                   => Pending(r)' = Pending(r)
             /\ (\A c \in Callers : holder'[c] # r) => Pending(r)' = 0
  <2>1. (\A c \in Callers : (holder'[c] = r <=> holder[c] = r))
           => Holding(r)' = Holding(r)
    BY DEF Holding
  <2>2. (\A c \in Callers : holder'[c] # r) => Holding(r)' = {}
    BY DEF Holding
  <2>3. MaxCost * Cardinality({}) = 0
    BY FS_EmptySet
  <2> QED
    BY <2>1, <2>2, <2>3 DEF Pending
<1>1. ASSUME NEW c \in Callers, NEW r \in Roles, Admit(c, r)
      PROVE  Reserved'
  <2>1. holder' = [holder EXCEPT ![c] = r] /\ holder[c] = NoRole
    BY <1>1 DEF Admit
  <2>2. \A q \in Roles \ {r} : Pending(q)' = Pending(q)
    BY <1>a, <2>1
  <2>3. spend[day][r] + Pending(r)' <= Cap
    <3>1. Holding(r)' \in SUBSET Callers
      BY DEF Holding
    <3>2. /\ Pending(r)' <= MaxCost * Cardinality(Callers)
          /\ Pending(r)' \in Nat
          /\ MaxCost * Cardinality(Callers) \in Nat
      BY <3>1, CallersBound DEF Pending
    <3>3. spend[day][r] \in Nat /\ spend[day][r] <= Budget - 1
      BY <1>1 DEF Admit
    <3> QED
      BY <3>2, <3>3 DEF Cap
  <2>4. spend' = spend /\ day' = day
    BY <1>1 DEF Admit
  <2> QED
    BY <1>0, <2>2, <2>3, <2>4 DEF Reserved, SpendBounded
<1>2. ASSUME NEW c \in Callers, NEW cost \in 0..MaxCost, AddSpend(c, cost)
      PROVE  Reserved'
  <2>1. PICK r \in Roles : r = holder[c]
    BY <1>2 DEF AddSpend
  <2>2. \A q \in Roles \ {r} : Pending(q)' = Pending(q)
    BY <1>2, <1>a, <2>1 DEF AddSpend
  <2>3. Pending(r) = Pending(r)' + MaxCost /\ Pending(r)' \in Nat
    BY <1>2, <2>1, PendingLeave DEF AddSpend
  <2>4. /\ day' = day
        /\ spend'[day][r] = spend[day][r] + cost
        /\ \A d \in Days, q \in Roles :
              d # day \/ q # r => spend'[d][q] = spend[d][q]
    BY <1>2, <2>1 DEF AddSpend
  <2>5. spend[day][r] \in Nat /\ spend[day][r] + Pending(r) <= Cap
    BY DEF Reserved
  <2>6. spend'[day][r] + Pending(r)' <= Cap /\ spend'[day][r] <= Cap
    BY <1>0, <2>3, <2>4, <2>5
  <2>7. ASSUME NEW q \in Roles
        PROVE  spend'[day][q] + Pending(q)' <= Cap
    BY <2>2, <2>4, <2>6 DEF Reserved
  <2>8. ASSUME NEW d \in Days, NEW q \in Roles
        PROVE  spend'[d][q] <= Cap /\ (d > day => spend'[d][q] = 0)
    <3>1. CASE d = day /\ q = r
      BY <2>6, <3>1 DEF Days
    <3>2. CASE d # day \/ q # r
      BY <2>4, <3>2 DEF Reserved, SpendBounded
    <3> QED
      BY <3>1, <3>2
  <2> QED
    BY <1>0, <2>4, <2>7, <2>8 DEF Reserved, SpendBounded
<1>3. ASSUME NEW c \in Callers, Abandon(c)
      PROVE  Reserved'
  <2>1. PICK r \in Roles : r = holder[c]
    BY <1>3 DEF Abandon
  <2>2. \A q \in Roles \ {r} : Pending(q)' = Pending(q)
    BY <1>3, <1>a, <2>1 DEF Abandon
  <2>3. Pending(r) = Pending(r)' + MaxCost /\ Pending(r)' \in Nat
    BY <1>3, <2>1, PendingLeave DEF Abandon
  <2>4. day' = day /\ spend' = spend
    BY <1>3 DEF Abandon
  <2>5. ASSUME NEW q \in Roles
        PROVE  spend[day][q] + Pending(q)' <= Cap
    <3>1. spend[day][q] \in Nat /\ spend[day][q] + Pending(q) <= Cap
      BY DEF Reserved
    <3> QED
      BY <1>0, <2>2, <2>3, <3>1
  <2> QED
    BY <1>0, <2>4, <2>5 DEF Reserved, SpendBounded
<1>4. CASE Midnight
  <2>1. day' = day + 1 /\ day' \in Days /\ spend' = spend /\ holder' = holder
    BY <1>4 DEF Midnight, Days
  <2>2. \A r \in Roles : spend'[day'][r] = 0
    BY <2>1 DEF Reserved, Days
  <2>3. \A r \in Roles : Pending(r)' = Pending(r) /\ Pending(r) <= Cap
    BY <1>a, <2>1, PendingBound
  <2>4. \A d \in Days : d > day' => d > day
    BY <2>1 DEF Days
  <2>5. ASSUME NEW q \in Roles
        PROVE  spend'[day'][q] + Pending(q)' <= Cap
    BY <1>0, <2>2, <2>3
  <2> QED
    BY <1>0, <2>1, <2>4, <2>5 DEF Reserved, SpendBounded
<1>5. CASE Restart
  <2>1. \A r \in Roles : Pending(r)' = 0
    BY <1>5, <1>a DEF Restart
  <2>2. \/ spend' = spend
        \/ \A d \in Days, r \in Roles : spend'[d][r] = 0
    BY <1>5 DEF Restart, EmptyLedger
  <2>3. day' = day /\ day \in Days
    BY <1>5 DEF Restart
  <2>4. SpendBounded'
    BY <1>0, <2>2 DEF Reserved, SpendBounded
  <2>5. ASSUME NEW q \in Roles
        PROVE  spend'[day][q] + Pending(q)' <= Cap
    <3>1. spend'[day][q] \in Nat /\ spend'[day][q] <= Cap
      BY <1>0, <2>2, <2>3, <2>4 DEF SpendBounded
    <3> QED
      BY <2>1, <3>1
  <2> QED
    BY <2>2, <2>3, <2>4, <2>5, <1>0 DEF Reserved
<1>6. CASE UNCHANGED budgetVars
  <2>1. spend' = spend /\ day' = day /\ holder' = holder
    BY <1>6 DEF budgetVars
  <2>2. \A r \in Roles : Pending(r)' = Pending(r)
    BY <1>a, <2>1
  <2> QED
    BY <1>0, <2>1, <2>2 DEF Reserved, SpendBounded
<1> QED
  BY <1>1, <1>2, <1>3, <1>4, <1>5, <1>6 DEF Next

(* At every moment the cap has room for what the calls in flight may still *)
(* book today, and no day is booked ahead of time.                         *)
THEOREM BookingsReserved == Spec => []Reserved
  BY BudgetTypeCorrect, ReservedInit, ReservedStep, PTL DEF Spec

(* The ledger of every day and role stays below the cap plus what the      *)
(* calls in flight may book, for every number of callers and every         *)
(* interleaving of admissions, bookings, midnights and restarts.           *)
THEOREM OvershootBounded == Spec => []SpendBounded
<1>1. Reserved => SpendBounded
  BY DEF Reserved
<1> QED
  BY <1>1, BookingsReserved, PTL

(* A durable ledger only grows, and only in the row of the current day.    *)
THEOREM LedgerAppendOnly == Spec => AppendOnly
<1>1. BudgetTypeOK /\ [Next]_budgetVars => [Durable => LedgerStep]_budgetVars
  <2> SUFFICES ASSUME BudgetTypeOK, Next, Durable,
                      NEW d \in Days, NEW r \in Roles
               PROVE  /\ spend[d][r] <= spend'[d][r]
                      /\ d # day => spend'[d][r] = spend[d][r]
    BY DEF LedgerStep
  <2> USE BudgetAssumption DEF BudgetTypeOK
  <2>1. spend[d][r] \in Nat
    OBVIOUS
  <2>2. ASSUME NEW c \in Callers, NEW cost \in 0..MaxCost, AddSpend(c, cost)
        PROVE  /\ spend[d][r] <= spend'[d][r]
               /\ d # day => spend'[d][r] = spend[d][r]
    BY <2>1, <2>2 DEF AddSpend
  <2>3. CASE \E c \in Callers, q \in Roles : Admit(c, q)
    BY <2>1, <2>3 DEF Admit
  <2>4. CASE \E c \in Callers : Abandon(c)
    BY <2>1, <2>4 DEF Abandon
  <2>5. CASE Midnight
    BY <2>1, <2>5 DEF Midnight
  <2>6. CASE Restart
    BY <2>1, <2>6 DEF Restart
  <2> QED
    BY <2>2, <2>3, <2>4, <2>5, <2>6 DEF Next
<1> QED
  BY <1>1, BudgetTypeCorrect, PTL DEF Spec, AppendOnly
=============================================================================
