-------------------------- MODULE LLMGatewayProofs --------------------------
(***************************************************************************)
(* Proofs about LLMGateway, for every set of callers and roles, every      *)
(* chain of providers and every cost: types, the order and completeness of *)
(* failover, and that the gateway implements DailyBudget.                  *)
(***************************************************************************)
EXTENDS LLMGateway, TLAPS

(* The strengthening that makes FailoverInOrder inductive: it also covers  *)
(* the calls still resolving their chain, whose available providers all    *)
(* lie before the local one being probed.                                  *)
WellFormed(k) ==
    /\ k.pc # "idle" =>
          /\ k.out = "none"
          /\ k.role \in Roles
          /\ k.at \in DOMAIN Chain[k.role]
          /\ k.avail \subseteq DOMAIN Chain[k.role]
    /\ k.pc = "probe" =>
          /\ Chain[k.role][k.at] \in Local
          /\ k.failed = {}
          /\ \A i \in k.avail : i < k.at
    /\ k.pc \in {"request", "repair", "stream"} \/ k.out = "ok" =>
          /\ k.at \in k.avail
          /\ k.failed = {i \in k.avail : i < k.at}
    /\ k.out = "unavailable" => k.failed = k.avail
CallsWellFormed == \A c \in Callers : WellFormed(call[c])

(* The inductive invariant.                                                *)
Inv == TypeOK /\ CallsWellFormed

LEMMA ChainPositions ==
  ASSUME NEW r \in Roles
  PROVE  /\ DOMAIN Chain[r] = 1..Len(Chain[r])
         /\ Len(Chain[r]) \in Nat
         /\ DOMAIN Chain[r] \subseteq Positions
         /\ \A i \in DOMAIN Chain[r] : i \in Nat /\ Chain[r][i] \in Models
<1>1. Chain[r] \in Seq(Models)
  BY GatewayAssumption
<1>2. DOMAIN Chain[r] \subseteq Positions
  BY DEF Positions
<1> QED
  BY <1>1, <1>2

(* What replacing one caller's call does to the invariant on calls.        *)
LEMMA ReplaceCall ==
  ASSUME Inv, NEW c \in Callers, NEW k \in CallType, WellFormed(k),
         call' = [call EXCEPT ![c] = k]
  PROVE  /\ call' \in [Callers -> CallType]
         /\ CallsWellFormed'
  BY DEF Inv, TypeOK, CallsWellFormed, WellFormed

LEMMA FreshCall ==
  ASSUME NEW kind \in Kinds, NEW r \in Roles
  PROVE  LET n == [Fresh EXCEPT !.kind = kind, !.role = r]
         IN  /\ n \in CallType
             /\ n.role = r /\ n.out = "none"
             /\ n.avail = {} /\ n.failed = {}
<1>1. 0 \in Costs /\ 0 \in Positions \cup {0}
  BY GatewayAssumption DEF Costs
<1>2. {} \in SUBSET Positions
  OBVIOUS
<1>3. /\ Fresh \in CallType
      /\ Fresh.out = "none" /\ Fresh.avail = {} /\ Fresh.failed = {}
  BY <1>1, <1>2 DEF Fresh, CallType, Kinds, Outcomes
<1> QED
  BY <1>3 DEF CallType

(* Ending a call keeps the other fields.                                   *)
LEMMA FinishCall ==
  ASSUME NEW k \in CallType, NEW why \in Outcomes
  PROVE  /\ Finish(k, why) \in CallType
         /\ Finish(k, why).pc = "idle"
         /\ Finish(k, why).out = why
         /\ Finish(k, why).role = k.role
         /\ Finish(k, why).at = k.at
         /\ Finish(k, why).avail = k.avail
         /\ Finish(k, why).failed = k.failed
<1>1. 0 \in Costs
  BY GatewayAssumption DEF Costs
<1>2. Finish(k, why) \in CallType
  BY <1>1 DEF Finish, CallType
<1> QED
  BY <1>2 DEF Finish, CallType

(* Resolving from a position past the one just probed.                     *)
LEMMA ResolveStep ==
  ASSUME Inv, NEW c \in Callers, NEW k \in CallType, NEW from, NEW ca,
         from \in Nat, k.role \in Roles, k.out = "none", k.failed = {},
         k.avail \subseteq DOMAIN Chain[k.role],
         \A i \in k.avail : i < from,
         Resolve(c, k, from, ca)
  PROVE  /\ call' \in [Callers -> CallType]
         /\ CallsWellFormed'
<1> DEFINE pending == Unprobed(k.role, from, ca)
           found(to) == k.avail \cup UsableIn(k.role, from, to, ca)
           all == found(Len(Chain[k.role]) + 1)
           dom == DOMAIN Chain[k.role]
<1>0. dom \subseteq Positions /\ \A i \in dom : i \in Nat
  BY ChainPositions
<1>1. ASSUME NEW to
      PROVE  found(to) \subseteq dom
  BY DEF UsableIn
<1>2. /\ pending \subseteq dom
      /\ \A i \in pending : i >= from /\ Chain[k.role][i] \in Local
  BY DEF Unprobed
<1>3. ASSUME NEW i \in pending, First(i, pending),
             call' = [call EXCEPT ![c] =
                        [k EXCEPT !.pc = "probe", !.at = i, !.avail = found(i)]]
      PROVE  /\ call' \in [Callers -> CallType]
             /\ CallsWellFormed'
  <2> DEFINE n == [k EXCEPT !.pc = "probe", !.at = i, !.avail = found(i)]
  <2>1. n \in CallType
    BY <1>0, <1>1, <1>2, <1>3 DEF CallType
  <2>2. /\ n.pc = "probe" /\ n.at = i /\ n.avail = found(i)
        /\ n.out = "none" /\ n.role = k.role /\ n.failed = {}
    BY DEF CallType
  <2>3. \A j \in found(i) : j < i
    BY <1>0, <1>2 DEF UsableIn
  <2>4. WellFormed(n)
    BY <1>1, <1>2, <2>2, <2>3 DEF WellFormed
  <2> QED
    BY <1>3, <2>1, <2>4, ReplaceCall
<1>4. ASSUME all = {}, call' = [call EXCEPT ![c] = Finish(k, "unavailable")]
      PROVE  /\ call' \in [Callers -> CallType]
             /\ CallsWellFormed'
  <2>1. k.avail = {}
    BY <1>4
  <2> DEFINE n == Finish(k, "unavailable")
  <2>2. /\ n \in CallType /\ n.pc = "idle" /\ n.out = "unavailable"
        /\ n.failed = k.failed /\ n.avail = k.avail
    BY FinishCall DEF Outcomes
  <2> HIDE DEF n
  <2>3. WellFormed(n)
    BY <2>1, <2>2 DEF WellFormed
  <2> QED
    BY <1>4, <2>2, <2>3, ReplaceCall DEF n
<1>5. ASSUME NEW i \in all, First(i, all),
             call' = [call EXCEPT ![c] =
                        [k EXCEPT !.pc = "request", !.at = i, !.avail = all]]
      PROVE  /\ call' \in [Callers -> CallType]
             /\ CallsWellFormed'
  <2> DEFINE n == [k EXCEPT !.pc = "request", !.at = i, !.avail = all]
  <2>1. n \in CallType
    BY <1>0, <1>1, <1>5 DEF CallType
  <2>2. /\ n.pc = "request" /\ n.at = i /\ n.avail = all
        /\ n.out = "none" /\ n.role = k.role /\ n.failed = {}
    BY DEF CallType
  <2>3. {j \in all : j < i} = {}
    BY <1>0, <1>1, <1>5 DEF First
  <2>4. WellFormed(n)
    BY <1>1, <1>5, <2>2, <2>3 DEF WellFormed
  <2> QED
    BY <1>5, <2>1, <2>4, ReplaceCall
<1> QED
  BY <1>3, <1>4, <1>5 DEF Resolve

(* Moving on after a failed attempt.                                       *)
LEMMA NextProviderStep ==
  ASSUME Inv, NEW c \in Callers,
         call[c].pc \in {"request", "repair", "stream"},
         NextProvider(c, call[c])
  PROVE  /\ call' \in [Callers -> CallType]
         /\ CallsWellFormed'
<1> DEFINE k == call[c]
           dom == DOMAIN Chain[k.role]
           rest == {i \in k.avail : i > k.at}
           dropped == [k EXCEPT !.failed = @ \cup {k.at}, !.live = 0]
<1>0. k \in CallType /\ WellFormed(k)
  BY DEF Inv, TypeOK, CallsWellFormed
<1>1. /\ k.role \in Roles /\ k.avail \subseteq dom /\ k.at \in k.avail
      /\ k.out = "none"
      /\ k.failed = {i \in k.avail : i < k.at}
      /\ dom \subseteq Positions /\ \A i \in dom : i \in Nat
  BY <1>0, ChainPositions DEF WellFormed
<1>2. 0 \in Costs
  BY GatewayAssumption DEF Costs
<1>3. /\ dropped \in CallType
      /\ dropped.failed = {i \in k.avail : i <= k.at}
      /\ dropped.avail = k.avail
      /\ dropped.role = k.role
      /\ dropped.out = "none"
  <2>1. k.failed \cup {k.at} = {i \in k.avail : i <= k.at}
    BY <1>1
  <2>2. dropped \in CallType
    BY <1>0, <1>1, <1>2 DEF CallType
  <2> QED
    BY <1>0, <1>1, <2>1, <2>2 DEF CallType
<1>4. ASSUME NEW i \in rest, First(i, rest),
             call' = [call EXCEPT ![c] =
                        [dropped EXCEPT !.pc = "request", !.at = i]]
      PROVE  /\ call' \in [Callers -> CallType]
             /\ CallsWellFormed'
  <2> DEFINE n == [dropped EXCEPT !.pc = "request", !.at = i]
  <2>1. n \in CallType
    BY <1>1, <1>3, <1>4 DEF CallType
  <2>2. /\ n.pc = "request" /\ n.at = i /\ n.avail = k.avail
        /\ n.out = "none" /\ n.role = k.role
        /\ n.failed = {j \in k.avail : j <= k.at}
    BY <1>3 DEF CallType
  <2>3. {j \in k.avail : j <= k.at} = {j \in k.avail : j < i}
    BY <1>1, <1>4 DEF First
  <2>4. WellFormed(n)
    BY <1>1, <1>4, <2>2, <2>3 DEF WellFormed
  <2> QED
    BY <1>4, <2>1, <2>4, ReplaceCall
<1>5. ASSUME rest = {},
             call' = [call EXCEPT ![c] = Finish(dropped, "unavailable")]
      PROVE  /\ call' \in [Callers -> CallType]
             /\ CallsWellFormed'
  <2> DEFINE n == Finish(dropped, "unavailable")
  <2>1. /\ n \in CallType /\ n.pc = "idle" /\ n.out = "unavailable"
        /\ n.failed = dropped.failed /\ n.avail = k.avail
    BY <1>3, FinishCall DEF Outcomes
  <2>2. {i \in k.avail : i <= k.at} = k.avail
    BY <1>1, <1>5
  <2>3. WellFormed(n)
    BY <1>3, <2>1, <2>2 DEF WellFormed
  <2> HIDE DEF n
  <2> QED
    BY <1>5, <2>1, <2>3, ReplaceCall DEF n
<1> QED
  BY <1>4, <1>5 DEF NextProvider
(* A booking ends the call well.                                           *)
LEMMA BookStep ==
  ASSUME Inv, NEW c \in Callers, NEW cost \in Nat,
         call[c].pc \in {"request", "repair", "stream"},
         Book(c, cost)
  PROVE  /\ spend' \in [Ledger!Days -> [Roles -> Nat]]
         /\ call' \in [Callers -> CallType]
         /\ CallsWellFormed'
<1> DEFINE k == call[c]
           n == Finish(k, "ok")
<1>0. k \in CallType /\ WellFormed(k)
  BY DEF Inv, TypeOK, CallsWellFormed
<1>1. spend[day][k.role] + cost \in Nat
  BY <1>0 DEF Inv, TypeOK, WellFormed
<1>2. spend' \in [Ledger!Days -> [Roles -> Nat]]
  BY <1>1 DEF Book, Inv, TypeOK
<1>3. /\ n \in CallType
      /\ n.pc = "idle" /\ n.out = "ok" /\ n.at = k.at
      /\ n.avail = k.avail /\ n.failed = k.failed
  BY <1>0, FinishCall DEF Outcomes
<1>4. WellFormed(n)
  BY <1>0, <1>3 DEF WellFormed
<1>5. call' = [call EXCEPT ![c] = n]
  BY DEF Book, Inv, TypeOK
<1> HIDE DEF n
<1> QED
  BY <1>2, <1>3, <1>4, <1>5, ReplaceCall

(* Entering the client, refused or admitted.                               *)
LEMMA EnterStep ==
  ASSUME Inv, NEW c \in Callers, Enter(c)
  PROVE  Inv'
<1>1. ASSUME NEW kind \in Kinds, NEW r \in Roles, NEW why \in Refusals,
             EndEarly(c, kind, r, why)
      PROVE  Inv'
  <2> DEFINE n == Finish([Fresh EXCEPT !.kind = kind, !.role = r], why)
  <2>1. n \in CallType /\ n.pc = "idle" /\ n.out = why
    <3> DEFINE f == [Fresh EXCEPT !.kind = kind, !.role = r]
    <3>1. f \in CallType
      BY FreshCall
    <3>2. why \in Outcomes
      BY DEF Outcomes
    <3> HIDE DEF f
    <3> QED
      BY <3>1, <3>2, FinishCall DEF f
  <2>2. why # "ok" /\ why # "unavailable"
    BY DEF Refusals
  <2>3. WellFormed(n)
    BY <2>1, <2>2 DEF WellFormed
  <2>4. call' = [call EXCEPT ![c] = n]
    BY <1>1 DEF EndEarly
  <2> HIDE DEF n
  <2> QED
    BY <1>1, <2>1, <2>3, <2>4, ReplaceCall DEF EndEarly, Inv, TypeOK
<1>2. ASSUME NEW kind \in Kinds, NEW r \in Roles, Admit(c, kind, r)
      PROVE  Inv'
  <2>1. /\ call' \in [Callers -> CallType]
        /\ CallsWellFormed'
    BY <1>2, FreshCall, ResolveStep DEF Admit
  <2> QED
    BY <1>2, <2>1 DEF Admit, Inv, TypeOK
<1> QED
  BY <1>1, <1>2, GatewayAssumption
     DEF Enter, RefuseTools, RefuseBudget, RefuseInput, Kinds, Refusals

(* Every answer from outside.                                              *)
LEMMA ReplyStep ==
  ASSUME Inv, NEW c \in Callers, Reply(c)
  PROVE  Inv'
<1>0. call[c] \in CallType /\ WellFormed(call[c])
  BY DEF Inv, TypeOK, CallsWellFormed
<1>1. ASSUME NEW status \in {"up", "down"}, ProbeAnswer(c, status)
      PROVE  Inv'
  <2> DEFINE k == call[c]
             ca == [cache EXCEPT ![Chain[k.role][k.at]] = status]
             known == IF status = "up" THEN k.avail \cup {k.at} ELSE k.avail
             n == [k EXCEPT !.avail = known]
  <2>1. /\ k.role \in Roles /\ k.out = "none" /\ k.failed = {}
        /\ k.at \in DOMAIN Chain[k.role]
        /\ k.avail \subseteq DOMAIN Chain[k.role]
        /\ \A i \in k.avail : i < k.at
    BY <1>0, <1>1 DEF ProbeAnswer, WellFormed
  <2>2. /\ known \subseteq DOMAIN Chain[k.role]
        /\ DOMAIN Chain[k.role] \subseteq Positions
        /\ k.at \in Nat
        /\ \A i \in known : i \in Nat /\ i < k.at + 1
    BY <2>1, ChainPositions
  <2>3. /\ n \in CallType /\ n.role = k.role /\ n.out = "none"
        /\ n.failed = {} /\ n.avail = known
    BY <1>0, <2>1, <2>2 DEF CallType
  <2>4. Resolve(c, n, k.at + 1, ca)
    BY <1>1 DEF ProbeAnswer
  <2> HIDE DEF n, known, ca
  <2>5. /\ call' \in [Callers -> CallType]
        /\ CallsWellFormed'
    BY <2>1, <2>2, <2>3, <2>4, ResolveStep
  <2>6. cache' \in [Local -> {"unknown", "up", "down"}]
    BY <1>1 DEF ProbeAnswer, Inv, TypeOK
  <2> QED
    BY <1>1, <2>5, <2>6 DEF ProbeAnswer, Inv, TypeOK
<1>2. CASE ProbeCrash(c)
  <2>1. /\ Finish(call[c], "crashed") \in CallType
        /\ WellFormed(Finish(call[c], "crashed"))
    BY <1>0, FinishCall DEF WellFormed, Outcomes
  <2> QED
    BY <1>2, <2>1, ReplaceCall DEF ProbeCrash, Inv, TypeOK
<1>3. CASE ProviderFails(c)
  BY <1>3, NextProviderStep DEF ProviderFails, Inv, TypeOK
<1>4. ASSUME NEW cost \in Costs, Answer(c, cost) \/ Repaired(c, cost)
      PROVE  Inv'
  <2>1. cost \in Nat /\ Book(c, cost)
        /\ call[c].pc \in {"request", "repair", "stream"}
    BY <1>4, GatewayAssumption DEF Answer, Repaired, Costs
  <2> QED
    BY <2>1, BookStep DEF Book, Inv, TypeOK
<1>5. CASE Malformed(c)
  <2> DEFINE n == [call[c] EXCEPT !.pc = "repair"]
  <2>1. n \in CallType
    BY <1>0 DEF CallType
  <2>2. WellFormed(n)
    BY <1>0, <1>5 DEF Malformed, WellFormed, CallType
  <2>3. call' = [call EXCEPT ![c] = n]
    BY <1>5 DEF Malformed, Inv, TypeOK
  <2> HIDE DEF n
  <2> QED
    BY <1>5, <2>1, <2>2, <2>3, ReplaceCall DEF Malformed, Inv, TypeOK
<1>6. CASE OpenStream(c)
  <2> DEFINE n == [call[c] EXCEPT !.pc = "stream"]
  <2>1. n \in CallType
    BY <1>0 DEF CallType
  <2>2. WellFormed(n)
    BY <1>0, <1>6 DEF OpenStream, WellFormed, CallType
  <2>3. call' = [call EXCEPT ![c] = n]
    BY <1>6 DEF OpenStream, Inv, TypeOK
  <2> HIDE DEF n
  <2> QED
    BY <1>6, <2>1, <2>2, <2>3, ReplaceCall DEF OpenStream, Inv, TypeOK
<1>7. CASE StreamEnd(c)
  <2>1. call[c].live \in Nat /\ call[c].pc \in {"request", "repair", "stream"}
    BY <1>0, <1>7, GatewayAssumption DEF StreamEnd, CallType, Costs
  <2> QED
    BY <1>7, <2>1, BookStep DEF StreamEnd, Book, Inv, TypeOK
<1> QED
  BY <1>1, <1>2, <1>3, <1>4, <1>5, <1>6, <1>7 DEF Reply
LEMMA InvInit == Init => Inv
<1> SUFFICES ASSUME Init PROVE Inv
  OBVIOUS
<1>1. Fresh \in CallType /\ WellFormed(Fresh)
  <2>1. 0 \in Costs
    BY GatewayAssumption DEF Costs
  <2> QED
    BY <2>1 DEF Fresh, CallType, Kinds, Outcomes, WellFormed
<1>2. day \in Ledger!Days /\ spend \in [Ledger!Days -> [Roles -> Nat]]
  BY GatewayAssumption DEF Init, Ledger!Days, Ledger!EmptyLedger
<1> QED
  BY <1>1, <1>2 DEF Init, Inv, TypeOK, CallsWellFormed

LEMMA InvStep == Inv /\ [Next]_vars => Inv'
<1> SUFFICES ASSUME Inv, [Next]_vars PROVE Inv'
  OBVIOUS
<1>1. ASSUME NEW c \in Callers, NEW cost \in Costs, Chunk(c, cost)
      PROVE  Inv'
  <2> DEFINE n == [call[c] EXCEPT !.live = cost]
  <2>0. call[c] \in CallType /\ WellFormed(call[c])
    BY DEF Inv, TypeOK, CallsWellFormed
  <2>1. /\ call[c].role \in Roles
        /\ call[c].at \in DOMAIN Chain[call[c].role]
    BY <1>1, <2>0 DEF Chunk, WellFormed
  <2>2. n \in CallType
    BY <2>0, <2>1, ChainPositions DEF CallType
  <2>3. WellFormed(n)
    BY <2>0 DEF WellFormed, CallType
  <2>4. call' = [call EXCEPT ![c] = n]
    BY <1>1 DEF Chunk, Inv, TypeOK
  <2> HIDE DEF n
  <2> QED
    BY <1>1, <2>2, <2>3, <2>4, ReplaceCall DEF Chunk, Inv, TypeOK
<1>2. ASSUME NEW c \in Callers, Cancel(c)
      PROVE  Inv'
  <2> DEFINE n == Finish(call[c], "cancelled")
  <2>1. n \in CallType /\ n.pc = "idle" /\ n.out = "cancelled"
    BY FinishCall DEF Inv, TypeOK, Outcomes
  <2>2. WellFormed(n)
    BY <2>1 DEF WellFormed
  <2>3. call' = [call EXCEPT ![c] = n]
    BY <1>2 DEF Cancel, Inv, TypeOK
  <2> HIDE DEF n
  <2> QED
    BY <1>2, <2>1, <2>2, <2>3, ReplaceCall DEF Cancel, Inv, TypeOK
<1>3. CASE Midnight
  <2>1. day' \in Ledger!Days
    BY <1>3, GatewayAssumption
       DEF Midnight, Ledger!Midnight, Ledger!Days, Inv, TypeOK
  <2> QED
    BY <1>3, <2>1
       DEF Midnight, Ledger!Midnight, Inv, TypeOK, CallsWellFormed, WellFormed
<1>4. CASE Restart
  <2>1. Fresh \in CallType /\ WellFormed(Fresh)
    <3>1. 0 \in Costs
      BY GatewayAssumption DEF Costs
    <3> QED
      BY <3>1 DEF Fresh, CallType, Kinds, Outcomes, WellFormed
  <2>2. spend' \in [Ledger!Days -> [Roles -> Nat]]
    BY <1>4 DEF Restart, Ledger!EmptyLedger, Inv, TypeOK
  <2>3. /\ call' \in [Callers -> CallType]
        /\ \A c \in Callers : WellFormed(call'[c])
    BY <1>4, <2>1 DEF Restart
  <2>4. CallsWellFormed'
    BY <2>3 DEF CallsWellFormed, WellFormed
  <2> QED
    BY <1>4, <2>2, <2>3, <2>4 DEF Restart, Inv, TypeOK
<1>5. CASE UNCHANGED vars
  BY <1>5 DEF vars, Inv, TypeOK, CallsWellFormed, WellFormed
<1> QED
  BY <1>1, <1>2, <1>3, <1>4, <1>5, EnterStep, ReplyStep DEF Next

LEMMA InvAlways == Spec => []Inv
BY InvInit, InvStep, PTL DEF Spec

(* Every variable of the gateway keeps its type.                           *)
THEOREM TypeCorrect == Spec => []TypeOK
<1>1. Inv => TypeOK
  BY DEF Inv
<1> QED
  BY <1>1, InvAlways, PTL

(* For chains of any length and any number of concurrent calls, failover   *)
(* asks the available providers in order and gives up only after all.      *)
THEOREM FailoverCorrect == Spec => []FailoverInOrder
<1>1. Inv => FailoverInOrder
  BY DEF Inv, CallsWellFormed, WellFormed, FailoverInOrder
<1> QED
  BY <1>1, InvAlways, PTL
-----------------------------------------------------------------------------
(* The refinement.  A caller holds a role exactly while its call is        *)
(* pending, so admitting, booking and abandoning are the steps that change *)
(* holder; every other step of a call stutters.                            *)

LEMMA HolderOf ==
  ASSUME NEW c \in Callers
  PROVE  holder[c] = IF Idle(c) THEN NoRole ELSE call[c].role
  BY DEF holder

(* A step that replaces the pending call of c by another pending call of   *)
(* the same role leaves the ledger's view alone.                           *)
LEMMA KeepHolder ==
  ASSUME Inv, NEW c \in Callers, NEW k,
         call' = [call EXCEPT ![c] = k],
         (k.pc = "idle") <=> Idle(c),
         Idle(c) \/ k.role = call[c].role
  PROVE  holder' = holder
<1>1. \A d \in Callers : call'[d] = IF d = c THEN k ELSE call[d]
  BY DEF Inv, TypeOK
<1>2. ASSUME NEW d \in Callers
      PROVE  (IF Idle(d) THEN NoRole ELSE call[d].role)'
                = (IF Idle(d) THEN NoRole ELSE call[d].role)
  BY <1>1 DEF Idle
<1> QED
  BY <1>2 DEF holder

(* A step that ends the pending call of c gives its role back.             *)
LEMMA DropHolder ==
  ASSUME Inv, NEW c \in Callers, NEW k,
         call' = [call EXCEPT ![c] = k],
         ~Idle(c), k.pc = "idle"
  PROVE  /\ holder[c] # NoRole
         /\ holder[c] = call[c].role
         /\ holder' = [holder EXCEPT ![c] = NoRole]
<1>1. \A d \in Callers : call'[d] = IF d = c THEN k ELSE call[d]
  BY DEF Inv, TypeOK
<1>2. holder[c] = call[c].role /\ call[c].role \in Roles
  BY DEF holder, Idle, Inv, CallsWellFormed, WellFormed
<1>3. ASSUME NEW d \in Callers
      PROVE  (IF Idle(d) THEN NoRole ELSE call[d].role)'
                = [holder EXCEPT ![c] = NoRole][d]
  BY <1>1 DEF Idle, holder
<1>4. holder' = [d \in Callers |-> (IF Idle(d) THEN NoRole ELSE call[d].role)']
  BY DEF holder
<1> QED
  BY <1>2, <1>3, <1>4, GatewayAssumption DEF holder

(* A step that starts a call of c takes the role.                          *)
LEMMA TakeHolder ==
  ASSUME Inv, NEW c \in Callers, NEW k,
         call' = [call EXCEPT ![c] = k],
         Idle(c), k.pc # "idle"
  PROVE  /\ holder[c] = NoRole
         /\ holder' = [holder EXCEPT ![c] = k.role]
<1>1. \A d \in Callers : call'[d] = IF d = c THEN k ELSE call[d]
  BY DEF Inv, TypeOK
<1>2. ASSUME NEW d \in Callers
      PROVE  (IF Idle(d) THEN NoRole ELSE call[d].role)'
                = [holder EXCEPT ![c] = k.role][d]
  BY <1>1 DEF Idle, holder
<1>3. holder' = [d \in Callers |-> (IF Idle(d) THEN NoRole ELSE call[d].role)']
  BY DEF holder
<1> QED
  BY <1>2, <1>3 DEF holder
(* What resolving does to the ledger's view: the call goes on pending      *)
(* under its role, or it is over.                                          *)
LEMMA ResolveShape ==
  ASSUME Inv, NEW c \in Callers, NEW k \in CallType, NEW from, NEW ca,
         Resolve(c, k, from, ca)
  PROVE  \E n : /\ call' = [call EXCEPT ![c] = n]
                /\ n.role = k.role
                /\ n.pc \in {"probe", "request", "idle"}
<1> DEFINE P(n) == /\ call' = [call EXCEPT ![c] = n]
                   /\ n.role = k.role
                   /\ n.pc \in {"probe", "request", "idle"}
           found(to) == k.avail \cup UsableIn(k.role, from, to, ca)
           all == found(Len(Chain[k.role]) + 1)
<1>1. ASSUME NEW i, call' = [call EXCEPT ![c] =
               [k EXCEPT !.pc = "probe", !.at = i, !.avail = found(i)]]
      PROVE  \E n : P(n)
  <2> DEFINE n == [k EXCEPT !.pc = "probe", !.at = i, !.avail = found(i)]
  <2>1. n.role = k.role /\ n.pc = "probe"
    BY DEF CallType
  <2>2. P(n)
    BY <1>1, <2>1
  <2> QED
    BY <2>2
<1>2. ASSUME call' = [call EXCEPT ![c] = Finish(k, "unavailable")]
      PROVE  \E n : P(n)
  <2>1. P(Finish(k, "unavailable"))
    BY <1>2, FinishCall DEF Outcomes
  <2> QED
    BY <2>1
<1>3. ASSUME NEW i, call' = [call EXCEPT ![c] =
               [k EXCEPT !.pc = "request", !.at = i, !.avail = all]]
      PROVE  \E n : P(n)
  <2> DEFINE n == [k EXCEPT !.pc = "request", !.at = i, !.avail = all]
  <2>1. n.role = k.role /\ n.pc = "request"
    BY DEF CallType
  <2>2. P(n)
    BY <1>3, <2>1
  <2> QED
    BY <2>2
<1> QED
  BY <1>1, <1>2, <1>3 DEF Resolve

LEMMA NextProviderShape ==
  ASSUME Inv, NEW c \in Callers, NextProvider(c, call[c])
  PROVE  \E n : /\ call' = [call EXCEPT ![c] = n]
                /\ n.role = call[c].role
                /\ n.avail = call[c].avail
                /\ n.pc \in {"request", "idle"}
<1> DEFINE k == call[c]
           P(n) == /\ call' = [call EXCEPT ![c] = n]
                   /\ n.role = call[c].role
                   /\ n.avail = call[c].avail
                   /\ n.pc \in {"request", "idle"}
           dropped == [k EXCEPT !.failed = @ \cup {k.at}, !.live = 0]
           rest == {i \in k.avail : i > k.at}
<1>0. k \in CallType
  BY DEF Inv, TypeOK
<1>1. dropped.role = k.role /\ dropped.avail = k.avail
  BY <1>0 DEF CallType
<1>2. ASSUME NEW i, call' = [call EXCEPT ![c] =
               [dropped EXCEPT !.pc = "request", !.at = i]]
      PROVE  \E n : P(n)
  <2> DEFINE n == [dropped EXCEPT !.pc = "request", !.at = i]
  <2>1. n.role = k.role /\ n.avail = k.avail /\ n.pc = "request"
    BY <1>0 DEF CallType
  <2>2. P(n)
    BY <1>2, <2>1
  <2> QED
    BY <2>2
<1>3. ASSUME call' = [call EXCEPT ![c] = Finish(dropped, "unavailable")]
      PROVE  \E n : P(n)
  <2>1. /\ Finish(dropped, "unavailable").role = k.role
        /\ Finish(dropped, "unavailable").avail = k.avail
        /\ Finish(dropped, "unavailable").pc = "idle"
    BY <1>0 DEF Finish, CallType
  <2>2. P(Finish(dropped, "unavailable"))
    BY <1>3, <2>1
  <2> QED
    BY <2>2
<1> QED
  BY <1>2, <1>3 DEF NextProvider

(* A pending call that goes on, or ends without a booking.                 *)
LEMMA PendingStep ==
  ASSUME Inv, NEW c \in Callers, ~Idle(c), NEW n,
         call' = [call EXCEPT ![c] = n], n.role = call[c].role,
         UNCHANGED <<day, spend>>
  PROVE  [Ledger!Next]_(Ledger!budgetVars)
<1>1. CASE n.pc = "idle"
  BY <1>1, DropHolder DEF Ledger!Next, Ledger!Abandon
<1>2. CASE n.pc # "idle"
  <2>1. holder' = holder
    BY <1>2, KeepHolder
  <2> QED
    BY <2>1 DEF Ledger!budgetVars
<1> QED
  BY <1>1, <1>2

LEMMA BookingStep ==
  ASSUME Inv, NEW c \in Callers, ~Idle(c), NEW cost \in Costs, Book(c, cost)
  PROVE  Ledger!Next
<1> DEFINE k == call[c]
           n == Finish(k, "ok")
<1>2. call' = [call EXCEPT ![c] = n]
  BY DEF Book, Inv, TypeOK
<1>3. n.pc = "idle"
  BY FinishCall DEF Inv, TypeOK, Outcomes
<1> HIDE DEF n
<1>4. /\ holder[c] # NoRole /\ holder[c] = k.role
      /\ holder' = [holder EXCEPT ![c] = NoRole]
  BY <1>2, <1>3, DropHolder
<1>5. spend' = [spend EXCEPT ![day][holder[c]] = @ + cost] /\ day' = day
  BY <1>4 DEF Book
<1>6. Ledger!AddSpend(c, cost)
  BY <1>4, <1>5 DEF Ledger!AddSpend
<1> QED
  BY <1>6 DEF Ledger!Next, Costs

LEMMA EnterRefines ==
  ASSUME Inv, NEW c \in Callers, Enter(c)
  PROVE  [Ledger!Next]_(Ledger!budgetVars)
<1>1. ASSUME NEW kind \in Kinds, NEW r \in Roles, NEW why \in Outcomes,
             Idle(c), EndEarly(c, kind, r, why)
      PROVE  [Ledger!Next]_(Ledger!budgetVars)
  <2> DEFINE f == [Fresh EXCEPT !.kind = kind, !.role = r]
             n == Finish(f, why)
  <2>1. f \in CallType
    BY FreshCall
  <2>2. call' = [call EXCEPT ![c] = n] /\ UNCHANGED <<day, spend>>
    BY <1>1 DEF EndEarly
  <2> HIDE DEF f
  <2>3. n.pc = "idle"
    BY <2>1, FinishCall
  <2> HIDE DEF n
  <2>4. holder' = holder
    BY <1>1, <2>2, <2>3, KeepHolder
  <2> QED
    BY <2>2, <2>4 DEF Ledger!budgetVars
<1>2. ASSUME NEW kind \in Kinds, NEW r \in Roles, Admit(c, kind, r)
      PROVE  [Ledger!Next]_(Ledger!budgetVars)
  <2> DEFINE f == [Fresh EXCEPT !.kind = kind, !.role = r]
  <2>1. f \in CallType /\ f.role = r
    BY FreshCall
  <2>2. /\ Idle(c) /\ spend[day][r] < Budget
        /\ Resolve(c, f, 1, cache) /\ UNCHANGED <<day, spend>>
    BY <1>2 DEF Admit
  <2> HIDE DEF f
  <2>3. PICK n : /\ call' = [call EXCEPT ![c] = n]
                 /\ n.role = r
    BY <2>1, <2>2, ResolveShape
  <2>4. CASE n.pc = "idle"
    <3>1. holder' = holder
      BY <2>2, <2>3, <2>4, KeepHolder
    <3> QED
      BY <2>2, <3>1 DEF Ledger!budgetVars
  <2>5. CASE n.pc # "idle"
    <3>1. Ledger!Admit(c, r)
      BY <2>2, <2>3, <2>5, TakeHolder DEF Ledger!Admit
    <3> QED
      BY <3>1 DEF Ledger!Next
  <2> QED
    BY <2>4, <2>5
<1> QED
  BY <1>1, <1>2, GatewayAssumption
     DEF Enter, RefuseTools, RefuseBudget, RefuseInput, Kinds, Outcomes, Refusals
LEMMA ReplyRefines ==
  ASSUME Inv, NEW c \in Callers, Reply(c)
  PROVE  [Ledger!Next]_(Ledger!budgetVars)
<1>0. call[c] \in CallType
  BY DEF Inv, TypeOK
<1>1. ASSUME NEW status \in {"up", "down"}, ProbeAnswer(c, status)
      PROVE  [Ledger!Next]_(Ledger!budgetVars)
  <2> DEFINE k == call[c]
             ca == [cache EXCEPT ![Chain[k.role][k.at]] = status]
             known == IF status = "up" THEN k.avail \cup {k.at} ELSE k.avail
             n == [k EXCEPT !.avail = known]
  <2>1. /\ k.role \in Roles /\ k.avail \subseteq Positions
        /\ k.at \in Positions /\ ~Idle(c)
    BY <1>0, <1>1, ChainPositions
       DEF ProbeAnswer, Inv, CallsWellFormed, WellFormed, CallType, Idle
  <2>2. n \in CallType /\ n.role = k.role
    BY <1>0, <2>1 DEF CallType
  <2>3. Resolve(c, n, k.at + 1, ca) /\ UNCHANGED <<day, spend>>
    BY <1>1 DEF ProbeAnswer
  <2> HIDE DEF n, ca
  <2> QED
    BY <2>1, <2>2, <2>3, ResolveShape, PendingStep
<1>2. CASE ProbeCrash(c)
  <2>1. ~Idle(c) /\ UNCHANGED <<day, spend>>
    BY <1>2 DEF ProbeCrash, Idle
  <2>2. /\ call' = [call EXCEPT ![c] = Finish(call[c], "crashed")]
        /\ Finish(call[c], "crashed").role = call[c].role
    BY <1>0, <1>2, FinishCall DEF ProbeCrash, Outcomes
  <2> QED
    BY <2>1, <2>2, PendingStep
<1>3. CASE ProviderFails(c)
  <2>1. ~Idle(c) /\ UNCHANGED <<day, spend>> /\ NextProvider(c, call[c])
    BY <1>3 DEF ProviderFails, Idle
  <2> QED
    BY <2>1, NextProviderShape, PendingStep
<1>4. ASSUME NEW cost \in Costs, Answer(c, cost) \/ Repaired(c, cost)
      PROVE  [Ledger!Next]_(Ledger!budgetVars)
  <2>1. ~Idle(c) /\ Book(c, cost)
    BY <1>4 DEF Answer, Repaired, Idle
  <2> QED
    BY <2>1, BookingStep
<1>5. CASE Malformed(c)
  <2> DEFINE n == [call[c] EXCEPT !.pc = "repair"]
  <2>1. ~Idle(c) /\ UNCHANGED <<day, spend>> /\ call' = [call EXCEPT ![c] = n]
    BY <1>5 DEF Malformed, Idle, Inv, TypeOK
  <2>2. n.role = call[c].role
    BY <1>0 DEF CallType
  <2> HIDE DEF n
  <2> QED
    BY <2>1, <2>2, PendingStep
<1>6. CASE OpenStream(c)
  <2> DEFINE n == [call[c] EXCEPT !.pc = "stream"]
  <2>1. ~Idle(c) /\ UNCHANGED <<day, spend>> /\ call' = [call EXCEPT ![c] = n]
    BY <1>6 DEF OpenStream, Idle, Inv, TypeOK
  <2>2. n.role = call[c].role
    BY <1>0 DEF CallType
  <2> HIDE DEF n
  <2> QED
    BY <2>1, <2>2, PendingStep
<1>7. CASE StreamEnd(c)
  <2>1. ~Idle(c) /\ call[c].live \in Costs /\ Book(c, call[c].live)
    BY <1>0, <1>7 DEF StreamEnd, Idle, CallType
  <2> QED
    BY <2>1, BookingStep
<1> QED
  BY <1>1, <1>2, <1>3, <1>4, <1>5, <1>6, <1>7 DEF Reply

LEMMA StepRefines ==
  Inv /\ [Next]_vars => [Ledger!Next]_(Ledger!budgetVars)
<1> SUFFICES ASSUME Inv, [Next]_vars
             PROVE  [Ledger!Next]_(Ledger!budgetVars)
  OBVIOUS
<1>1. ASSUME NEW c \in Callers, NEW cost \in Costs, Chunk(c, cost)
      PROVE  [Ledger!Next]_(Ledger!budgetVars)
  <2> DEFINE n == [call[c] EXCEPT !.live = cost]
  <2>1. ~Idle(c) /\ UNCHANGED <<day, spend>> /\ call' = [call EXCEPT ![c] = n]
    BY <1>1 DEF Chunk, Idle, Inv, TypeOK
  <2>2. n.role = call[c].role
    BY DEF Inv, TypeOK, CallType
  <2> HIDE DEF n
  <2> QED
    BY <2>1, <2>2, PendingStep
<1>2. ASSUME NEW c \in Callers, Cancel(c)
      PROVE  [Ledger!Next]_(Ledger!budgetVars)
  <2> DEFINE n == Finish(call[c], "cancelled")
  <2>1. n \in CallType /\ n.role = call[c].role
    BY FinishCall DEF Inv, TypeOK, Outcomes
  <2>2. ~Idle(c) /\ UNCHANGED <<day, spend>> /\ call' = [call EXCEPT ![c] = n]
    BY <1>2 DEF Cancel, Inv, TypeOK
  <2> HIDE DEF n
  <2> QED
    BY <2>1, <2>2, PendingStep
<1>3. CASE Midnight
  BY <1>3 DEF Midnight, Ledger!Next
<1>4. CASE Restart
  <2>1. holder' = [c \in Callers |-> NoRole]
    BY <1>4 DEF Restart, holder, Idle, Fresh
  <2>2. Ledger!Restart
    BY <1>4, <2>1 DEF Restart, Ledger!Restart
  <2> QED
    BY <2>2 DEF Ledger!Next
<1>5. CASE UNCHANGED vars
  <2>1. holder' = holder
    BY <1>5 DEF vars, holder, Idle
  <2> QED
    BY <1>5, <2>1 DEF vars, Ledger!budgetVars
<1> QED
  BY <1>1, <1>2, <1>3, <1>4, <1>5, EnterRefines, ReplyRefines DEF Next

(* LLMGateway implements DailyBudget: whatever the probes, failovers,      *)
(* repairs and streams in between, a call is admitted below the budget and *)
(* booked at most once, on the day of the booking.                         *)
THEOREM GatewayImplementsBudget == Spec => LedgerSpec
<1>1. Init => Ledger!Init
  BY DEF Init, Ledger!Init, holder, Idle, Fresh
<1> QED
  BY <1>1, InvAlways, StepRefines, PTL DEF Spec, LedgerSpec, Ledger!Spec
-----------------------------------------------------------------------------
(* A provider that resolving adds to the list is usable by the cache.      *)
LEMMA ResolveUsable ==
  ASSUME Inv, NEW c \in Callers, NEW k \in CallType, NEW from, NEW ca,
         Resolve(c, k, from, ca)
  PROVE  /\ call'[c].role = k.role
         /\ \A i \in call'[c].avail \ k.avail : Usable(Chain[k.role][i], ca)
<1> DEFINE found(to) == k.avail \cup UsableIn(k.role, from, to, ca)
<1>0. \A n : call' = [call EXCEPT ![c] = n] => call'[c] = n
  BY DEF Inv, TypeOK
<1>1. ASSUME NEW to, NEW i \in found(to) \ k.avail
      PROVE  Usable(Chain[k.role][i], ca)
  BY <1>1 DEF UsableIn
<1>2. CASE call' = [call EXCEPT ![c] = Finish(k, "unavailable")]
  BY <1>0, <1>2, FinishCall DEF Outcomes
<1> HIDE DEF found
<1>3. ASSUME NEW i, NEW to, NEW pc,
             call' = [call EXCEPT ![c] =
                        [k EXCEPT !.pc = pc, !.at = i, !.avail = found(to)]]
      PROVE  call'[c].role = k.role /\ call'[c].avail = found(to)
  <2> DEFINE n == [k EXCEPT !.pc = pc, !.at = i, !.avail = found(to)]
  <2>1. n.role = k.role /\ n.avail = found(to)
    BY DEF CallType
  <2>2. call'[c] = n
    BY <1>0, <1>3
  <2> QED
    BY <2>1, <2>2
<1> QED
  BY <1>1, <1>2, <1>3 DEF Resolve, found

(* A provider that c adds to its list in a step is usable after the step.  *)
JoinsUsable(c) ==
    \A i \in Joined(c) : Usable(Chain[call'[c].role][i], cache')

(* A step that keeps a pending call's list, or leaves an empty one behind. *)
LEMMA NoneJoined ==
  ASSUME Inv, NEW c \in Callers, NEW n, call' = [call EXCEPT ![c] = n],
         n.avail = {} \/ (~Idle(c) /\ n.avail = call[c].avail)
  PROVE  JoinsUsable(c)
<1>1. call'[c] = n
  BY DEF Inv, TypeOK
<1> QED
  BY <1>1 DEF JoinsUsable, Joined

LEMMA EnterJoins ==
  ASSUME Inv, NEW c \in Callers, Enter(c)
  PROVE  JoinsUsable(c) /\ \E n : call' = [call EXCEPT ![c] = n]
<1>1. ASSUME NEW kind \in Kinds, NEW r \in Roles, NEW why \in Outcomes,
             EndEarly(c, kind, r, why)
      PROVE  JoinsUsable(c) /\ \E n : call' = [call EXCEPT ![c] = n]
  <2> DEFINE f == [Fresh EXCEPT !.kind = kind, !.role = r]
             n == Finish(f, why)
  <2>1. f \in CallType /\ f.avail = {}
    BY FreshCall
  <2>2. call' = [call EXCEPT ![c] = n]
    BY <1>1 DEF EndEarly
  <2> HIDE DEF f
  <2>3. n.avail = {}
    BY <2>1, FinishCall
  <2> HIDE DEF n
  <2> QED
    BY <2>2, <2>3, NoneJoined
<1>2. ASSUME NEW kind \in Kinds, NEW r \in Roles, Admit(c, kind, r)
      PROVE  JoinsUsable(c) /\ \E n : call' = [call EXCEPT ![c] = n]
  <2> DEFINE f == [Fresh EXCEPT !.kind = kind, !.role = r]
  <2>1. f \in CallType /\ f.role = r /\ f.avail = {}
    BY FreshCall
  <2>2. Idle(c) /\ Resolve(c, f, 1, cache) /\ cache' = cache
    BY <1>2 DEF Admit
  <2> HIDE DEF f
  <2>3. /\ call'[c].role = r
        /\ \A i \in call'[c].avail : Usable(Chain[r][i], cache')
    BY <2>1, <2>2, ResolveUsable
  <2>4. \E n : call' = [call EXCEPT ![c] = n]
    BY <2>1, <2>2, ResolveShape
  <2> QED
    BY <2>2, <2>3, <2>4 DEF JoinsUsable, Joined
<1> QED
  BY <1>1, <1>2, GatewayAssumption
     DEF Enter, RefuseTools, RefuseBudget, RefuseInput, Kinds, Outcomes, Refusals

LEMMA ProbeJoins ==
  ASSUME Inv, NEW c \in Callers, NEW status \in {"up", "down"},
         ProbeAnswer(c, status)
  PROVE  JoinsUsable(c) /\ \E n : call' = [call EXCEPT ![c] = n]
<1> DEFINE k == call[c]
           m == Chain[k.role][k.at]
           known == IF status = "up" THEN k.avail \cup {k.at} ELSE k.avail
           n == [k EXCEPT !.avail = known]
<1>0. k \in CallType /\ WellFormed(k) /\ k.pc = "probe"
  BY DEF Inv, TypeOK, CallsWellFormed, ProbeAnswer
<1>1. /\ k.role \in Roles /\ k.at \in Positions /\ k.avail \subseteq Positions
      /\ m \in Local
  BY <1>0, ChainPositions DEF WellFormed, CallType
<1>2. n \in CallType /\ n.role = k.role /\ n.avail = known
  BY <1>0, <1>1 DEF CallType
<1>3. Resolve(c, n, k.at + 1, cache') /\ cache' = [cache EXCEPT ![m] = status]
  BY DEF ProbeAnswer
<1>4. status = "up" => Usable(m, cache')
  BY <1>1, <1>3 DEF Usable, Inv, TypeOK
<1> HIDE DEF n, m
<1>5. /\ call'[c].role = k.role
      /\ \A i \in call'[c].avail \ known : Usable(Chain[k.role][i], cache')
  BY <1>2, <1>3, ResolveUsable
<1>6. \E l : call' = [call EXCEPT ![c] = l]
  BY <1>2, <1>3, ResolveShape
<1>7. \A i \in known \ k.avail : Usable(Chain[k.role][i], cache')
  BY <1>4 DEF m
<1>8. \A i \in call'[c].avail \ k.avail : Usable(Chain[k.role][i], cache')
  BY <1>5, <1>7
<1> QED
  BY <1>0, <1>5, <1>6, <1>8 DEF JoinsUsable, Joined, Idle

(* Whatever else happens to a pending call, its list stays.                *)
LEMMA PendingJoins ==
  ASSUME Inv, NEW c \in Callers,
         \/ ProbeCrash(c)
         \/ ProviderFails(c)
         \/ \E cost \in Costs : Answer(c, cost) \/ Repaired(c, cost) \/ Chunk(c, cost)
         \/ Malformed(c)
         \/ OpenStream(c)
         \/ StreamEnd(c)
         \/ Cancel(c)
  PROVE  JoinsUsable(c) /\ \E n : call' = [call EXCEPT ![c] = n]
<1>0. call[c] \in CallType /\ ~Idle(c)
  BY DEF Inv, TypeOK, Idle, ProbeCrash, ProviderFails, Answer, Repaired, Chunk,
         Malformed, OpenStream, StreamEnd, Cancel
<1>1. ASSUME NEW n, call' = [call EXCEPT ![c] = n], n.avail = call[c].avail
      PROVE  JoinsUsable(c) /\ \E m : call' = [call EXCEPT ![c] = m]
  BY <1>0, <1>1, NoneJoined
<1>2. ASSUME NEW why \in Outcomes, call' = [call EXCEPT ![c] = Finish(call[c], why)]
      PROVE  JoinsUsable(c) /\ \E m : call' = [call EXCEPT ![c] = m]
  BY <1>0, <1>1, <1>2, FinishCall
<1>3. CASE ProviderFails(c)
  BY <1>1, <1>3, NextProviderShape DEF ProviderFails
<1>4. ASSUME NEW cost, Book(c, cost)
      PROVE  JoinsUsable(c) /\ \E m : call' = [call EXCEPT ![c] = m]
  <2>1. call' = [call EXCEPT ![c] = Finish(call[c], "ok")]
    BY <1>4 DEF Book, Inv, TypeOK
  <2> QED
    BY <1>2, <2>1 DEF Outcomes
<1>5. ASSUME NEW pc, call' = [call EXCEPT ![c].pc = pc]
      PROVE  JoinsUsable(c) /\ \E m : call' = [call EXCEPT ![c] = m]
  <2>1. /\ call' = [call EXCEPT ![c] = [call[c] EXCEPT !.pc = pc]]
        /\ [call[c] EXCEPT !.pc = pc].avail = call[c].avail
    BY <1>0, <1>5 DEF CallType
  <2> QED
    BY <1>1, <2>1
<1>6. ASSUME NEW cost \in Costs, Chunk(c, cost)
      PROVE  JoinsUsable(c) /\ \E m : call' = [call EXCEPT ![c] = m]
  <2>1. /\ call' = [call EXCEPT ![c] = [call[c] EXCEPT !.live = cost]]
        /\ [call[c] EXCEPT !.live = cost].avail = call[c].avail
    BY <1>0, <1>6 DEF Chunk, CallType
  <2> QED
    BY <1>1, <2>1
<1>7. CASE ProbeCrash(c) \/ Cancel(c)
  <2>1. \E why \in {"crashed", "cancelled"} :
           call' = [call EXCEPT ![c] = Finish(call[c], why)]
    BY <1>7 DEF ProbeCrash, Cancel
  <2> QED
    BY <1>2, <2>1 DEF Outcomes
<1> QED
  BY <1>3, <1>4, <1>5, <1>6, <1>7
     DEF Answer, Repaired, StreamEnd, Malformed, OpenStream

(* A provider is asked only if its key is configured or the last probe of  *)
(* its model, by whichever call, was answered.                             *)
THEOREM AskedUsable == Spec => AskedOnlyIfUsable
<1>1. ASSUME Inv, Next, NEW c \in Callers, call'[c] # call[c]
      PROVE  JoinsUsable(c)
  <2>0. \A d \in Callers : \A n : call' = [call EXCEPT ![d] = n] => d = c
    BY <1>1 DEF Inv, TypeOK
  <2>1. CASE \E d \in Callers : Enter(d)
    BY <1>1, <2>0, <2>1, EnterJoins
  <2>2. CASE \E d \in Callers, status \in {"up", "down"} : ProbeAnswer(d, status)
    BY <1>1, <2>0, <2>2, ProbeJoins
  <2>3. ASSUME NEW d \in Callers,
               \/ ProbeCrash(d)
               \/ ProviderFails(d)
               \/ \E cost \in Costs :
                     Answer(d, cost) \/ Repaired(d, cost) \/ Chunk(d, cost)
               \/ Malformed(d)
               \/ OpenStream(d)
               \/ StreamEnd(d)
               \/ Cancel(d)
        PROVE  JoinsUsable(c)
    BY <1>1, <2>0, <2>3, PendingJoins
  <2>4. CASE Midnight
    BY <1>1, <2>4 DEF Midnight
  <2>5. CASE Restart
    <3>1. call'[c].avail = {}
      BY <2>5 DEF Restart, Fresh
    <3> QED
      BY <3>1 DEF JoinsUsable, Joined
  <2> QED
    BY <1>1, <2>1, <2>2, <2>3, <2>4, <2>5 DEF Next, Reply
<1>2. Inv /\ [Next]_vars =>
         [\A c \in Callers : call'[c] # call[c] => \A i \in Joined(c) :
             LET m == Chain[call'[c].role][i]
             IN  m \in Configured \/ (m \in Local /\ cache'[m] = "up")]_vars
  BY <1>1 DEF JoinsUsable, Usable
<1> QED
  BY <1>2, InvAlways, PTL DEF Spec, AskedOnlyIfUsable
=============================================================================
