----------------------------- MODULE DailyBudget -----------------------------
(***************************************************************************)
(* What the LLM gateway promises about money, and nothing else: the daily  *)
(* ledger of nexus/llm/budget.py, keyed by (UTC date, role), and the       *)
(* admission check of LiteLLMClient._ensure_budget.  A caller is admitted  *)
(* while the role's spend of the current day is below the budget; much     *)
(* later, and possibly on a later day, it books the cost of its call or    *)
(* goes away without booking.  The check and the booking are separated by  *)
(* the await of the provider, so several callers can be admitted on the    *)
(* same balance.                                                           *)
(*                                                                         *)
(* LLMGateway implements this specification (LLMGateway!LedgerSpec).       *)
(***************************************************************************)
EXTENDS Integers, FiniteSets

CONSTANTS
    Callers,   \* concurrent callers of the gateway
    Roles,     \* roles of the LLM configuration
    NoRole,    \* a caller that has no call in flight
    Budget,    \* daily_usd_budget, in units of the smallest cost
    MaxCost,   \* the most one provider response can cost
    MaxDay,    \* bound: days observed
    Durable    \* the ledger is a file; FALSE for the default ":memory:"

ASSUME BudgetAssumption ==
    /\ IsFiniteSet(Callers)
    /\ NoRole \notin Roles
    /\ Budget \in Nat \ {0}
    /\ MaxCost \in Nat
    /\ MaxDay \in Nat
    /\ Durable \in BOOLEAN

VARIABLES
    day,      \* the UTC date
    spend,    \* llm_daily_budget: spend[date][role], 0 for a missing row
    holder    \* the role of each caller's admitted call, or NoRole

budgetVars == <<day, spend, holder>>

Days == 0..MaxDay
EmptyLedger == [d \in Days |-> [r \in Roles |-> 0]]
Holding(r) == {c \in Callers : holder[c] = r}

(* What the calls of a role in flight may still book.                      *)
Pending(r) == MaxCost * Cardinality(Holding(r))

BudgetTypeOK ==
    /\ day \in Days
    /\ spend \in [Days -> [Roles -> Nat]]
    /\ holder \in [Callers -> Roles \cup {NoRole}]

Init ==
    /\ day = 0
    /\ spend = EmptyLedger
    /\ holder = [c \in Callers |-> NoRole]

(* Mutant: nobody looks at the ledger.                                     *)
AdmitUnchecked(c, r) ==
    /\ holder[c] = NoRole
    /\ holder' = [holder EXCEPT ![c] = r]
    /\ UNCHANGED <<day, spend>>

(* _ensure_budget lets the call through: the row of (today, role) is read  *)
(* once, before any await.                                                 *)
Admit(c, r) ==
    /\ holder[c] = NoRole
    /\ spend[day][r] < Budget
    /\ holder' = [holder EXCEPT ![c] = r]
    /\ UNCHANGED <<day, spend>>

(* Mutants: the amount subtracted, the call booked more than once, and the *)
(* row replaced instead of increased.                                      *)
AddSpendNegated(c, cost) ==
    /\ holder[c] # NoRole
    /\ spend' = [spend EXCEPT ![day][holder[c]] = @ - cost]
    /\ holder' = [holder EXCEPT ![c] = NoRole]
    /\ UNCHANGED day
AddSpendAgain(c, cost) ==
    /\ holder[c] # NoRole
    /\ spend' = [spend EXCEPT ![day][holder[c]] = @ + cost]
    /\ UNCHANGED <<day, holder>>
AddSpendReplaces(c, cost) ==
    /\ holder[c] # NoRole
    /\ spend' = [spend EXCEPT ![day][holder[c]] = cost]
    /\ holder' = [holder EXCEPT ![c] = NoRole]
    /\ UNCHANGED day

(* add_spend: the upsert uses the date of the booking, not of the          *)
(* admission.                                                              *)
AddSpend(c, cost) ==
    /\ holder[c] # NoRole
    /\ spend' = [spend EXCEPT ![day][holder[c]] = @ + cost]
    /\ holder' = [holder EXCEPT ![c] = NoRole]
    /\ UNCHANGED day

(* The call ends without booking: every provider failed, or the caller     *)
(* cancelled it.                                                           *)
Abandon(c) ==
    /\ holder[c] # NoRole
    /\ holder' = [holder EXCEPT ![c] = NoRole]
    /\ UNCHANGED <<day, spend>>

Midnight ==
    /\ day < MaxDay
    /\ day' = day + 1
    /\ UNCHANGED <<spend, holder>>

(* The process restarts: calls in flight vanish, and so does the ledger    *)
(* unless it is a file.                                                    *)
Restart ==
    /\ holder' = [c \in Callers |-> NoRole]
    /\ spend' = IF Durable THEN spend ELSE EmptyLedger
    /\ UNCHANGED day

Next ==
    \/ \E c \in Callers, r \in Roles : Admit(c, r)
    \/ \E c \in Callers, cost \in 0..MaxCost : AddSpend(c, cost)
    \/ \E c \in Callers : Abandon(c)
    \/ Midnight
    \/ Restart

Spec == Init /\ [][Next]_budgetVars

-----------------------------------------------------------------------------
(* The most a role can be charged in a day: the last admission happens     *)
(* below the budget, and then every caller in flight may still book.       *)
Cap == (Budget - 1) + MaxCost * Cardinality(Callers)

(* No interleaving of admissions and bookings, across midnights and        *)
(* restarts, takes the ledger of any day and role above Cap: the overshoot *)
(* of the hard cap is limited to the calls in flight.                      *)
SpendBounded == \A d \in Days, r \in Roles : spend[d][r] <= Cap

(* The strengthening that makes SpendBounded inductive: what is spent      *)
(* today plus what the calls in flight may still book never exceeds Cap,   *)
(* and nothing is booked ahead of time.                                    *)
Reserved ==
    /\ SpendBounded
    /\ \A r \in Roles : spend[day][r] + Pending(r) <= Cap
    /\ \A d \in Days, r \in Roles : d > day => spend[d][r] = 0

(* A durable ledger is append-only: a step never lowers a row and never    *)
(* touches the row of a day that is over, whatever call was admitted then. *)
LedgerStep ==
    \A d \in Days, r \in Roles :
        /\ spend[d][r] <= spend'[d][r]
        /\ d # day => spend'[d][r] = spend[d][r]
AppendOnly == [][Durable => LedgerStep]_budgetVars
=============================================================================
