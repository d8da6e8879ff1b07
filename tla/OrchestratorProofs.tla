------------------------- MODULE OrchestratorProofs -------------------------
(***************************************************************************)
(* Proofs about Orchestrator, for any number of requests, pages and crawl  *)
(* slots: types, one span per terminal event, no task left behind, answers *)
(* grounded in announced pages, and that the generator implements the      *)
(* stage contract of AnswerStream.                                         *)
(***************************************************************************)
EXTENDS Orchestrator, FiniteSetTheorems, TLAPS

(* The inductive invariant.                                                *)
Inv == TypeOK /\ AllConsistent

(* A step that replaces the generator, tasks and spans of one request by   *)
(* consistent ones preserves the invariant.                                *)
LEMMA ReplaceRequest ==
  ASSUME Inv, NEW q \in Requests,
         NEW r \in RequestType, NEW t \in [Rows -> TaskStates],
         NEW n \in [Terminal -> Nat],
         Consistent(r, t, n),
         req' = [req EXCEPT ![q] = r],
         crawl' = [crawl EXCEPT ![q] = t],
         spans' = [spans EXCEPT ![q] = n],
         late' \in [Requests -> BOOLEAN]
  PROVE  Inv'
<1>1. TypeOK'
  BY DEF Inv, TypeOK
<1>2. ASSUME NEW p \in Requests
      PROVE  Consistent(req'[p], crawl'[p], spans'[p])
  <2>1. CASE p = q
    BY <2>1 DEF Inv, TypeOK
  <2>2. CASE p # q
    BY <2>2 DEF Inv, TypeOK, AllConsistent
  <2> QED
    BY <2>1, <2>2
<1>3. AllConsistent'
  BY <1>2 DEF AllConsistent, Consistent, Oks, Rows
<1> QED
  BY <1>1, <1>3 DEF Inv

LEMMA UnpackRequest ==
  ASSUME Inv, NEW q \in Requests
  PROVE  /\ req[q] \in RequestType
         /\ crawl[q] \in [Rows -> TaskStates]
         /\ spans[q] \in [Terminal -> Nat]
         /\ Consistent(req[q], crawl[q], spans[q])
         /\ req = [req EXCEPT ![q] = req[q]]
         /\ crawl = [crawl EXCEPT ![q] = crawl[q]]
         /\ spans = [spans EXCEPT ![q] = spans[q]]
         /\ late \in [Requests -> BOOLEAN]
  BY DEF Inv, TypeOK, AllConsistent

(* The successful documents of a request: at most one per kept row.        *)
LEMMA OksBound ==
  ASSUME NEW r \in RequestType, NEW t \in [Rows -> TaskStates],
         \A i \in Rows : i > r.kept => t[i] = "none"
  PROVE  /\ IsFiniteSet(Oks(t))
         /\ Cardinality(Oks(t)) \in Nat
         /\ Cardinality(Oks(t)) <= r.kept
         /\ Oks(t) # {} <=> Cardinality(Oks(t)) > 0
<1>1. r.kept \in Nat /\ r.kept <= PagesMax
  BY OrchestratorAssumption DEF RequestType
<1>2. Oks(t) \in SUBSET (1..r.kept)
  BY <1>1, OrchestratorAssumption DEF Oks, Rows
<1>3. IsFiniteSet(1..r.kept) /\ Cardinality(1..r.kept) = r.kept
  BY <1>1, FS_Interval
<1>4. IsFiniteSet(Oks(t)) /\ Cardinality(Oks(t)) <= r.kept
  BY <1>2, <1>3, FS_Subset
<1>5. Cardinality(Oks(t)) \in Nat /\ (Cardinality(Oks(t)) = 0 <=> Oks(t) = {})
  BY <1>4, FS_CardinalityType, FS_EmptySet
<1> QED
  BY <1>4, <1>5

-----------------------------------------------------------------------------
LEMMA InvInit == Init => Inv
<1> SUFFICES ASSUME Init PROVE Inv
  OBVIOUS
<1> DEFINE r == [pc |-> "new", emitted |-> "none", kept |-> 0, pages |-> 0,
                 valid |-> FALSE, reason |-> "none"]
           t == [i \in Rows |-> "none"]
           n == [s \in Terminal |-> 0]
<1>1. r \in RequestType /\ t \in [Rows -> TaskStates] /\ n \in [Terminal -> Nat]
  BY OrchestratorAssumption DEF RequestType, TaskStates, Reasons, AtYield
<1>2. Consistent(r, t, n)
  BY DEF Consistent, LastStage, BeforeCrawl, Terminal, Rows
<1>3. TypeOK
  BY <1>1 DEF Init, TypeOK
<1>4. AllConsistent
  BY <1>2 DEF Init, AllConsistent
<1> QED
  BY <1>3, <1>4 DEF Inv

(* The pulls that only move the generator.                                 *)
LEMMA PlainPullStep ==
  ASSUME Inv, NEW q \in Requests,
         \/ Accept(q)
         \/ Expand(q)
         \/ Search(q)
         \/ Rank(q)
         \/ NextPage(q)
  PROVE  Inv'
<1> DEFINE r == req[q]
           t == crawl[q]
           n == spans[q]
<1>0. /\ r \in RequestType /\ t \in [Rows -> TaskStates]
      /\ n \in [Terminal -> Nat] /\ Consistent(r, t, n)
  BY UnpackRequest
<1>a. ASSUME NEW m \in RequestType, Consistent(m, t, n),
             req' = [req EXCEPT ![q] = m], UNCHANGED <<late, crawl, spans>>
      PROVE  Inv'
  BY <1>0, <1>a, ReplaceRequest, UnpackRequest
<1>1. CASE Accept(q)
  <2> DEFINE m == [r EXCEPT !.pc = "accepted", !.emitted = "accepted"]
  <2>1. req' = [req EXCEPT ![q] = m] /\ UNCHANGED <<late, crawl, spans>>
    BY <1>1 DEF Accept, Yield, Inv, TypeOK
  <2>2. m \in RequestType
    BY <1>0 DEF RequestType, AtYield
  <2>3. Consistent(m, t, n)
    BY <1>0, <1>1
       DEF Accept, Consistent, LastStage, BeforeCrawl, Terminal, RequestType
  <2> HIDE DEF m
  <2> QED
    BY <1>a, <2>1, <2>2, <2>3
<1>2. CASE Expand(q)
  <2> DEFINE m == [r EXCEPT !.pc = "expanded", !.emitted = "expanded"]
  <2>1. req' = [req EXCEPT ![q] = m] /\ UNCHANGED <<late, crawl, spans>>
    BY <1>2 DEF Expand, Yield, Inv, TypeOK
  <2>2. m \in RequestType
    BY <1>0 DEF RequestType, AtYield
  <2>3. Consistent(m, t, n)
    BY <1>0, <1>2
       DEF Expand, Consistent, LastStage, BeforeCrawl, Terminal, RequestType
  <2> HIDE DEF m
  <2> QED
    BY <1>a, <2>1, <2>2, <2>3
<1>3. CASE Search(q)
  <2> DEFINE m == [r EXCEPT !.pc = "search"]
  <2>1. req' = [req EXCEPT ![q] = m] /\ UNCHANGED <<late, crawl, spans>>
    BY <1>3 DEF Search, Await, Inv, TypeOK
  <2>2. m \in RequestType
    BY <1>0 DEF RequestType, AtAwait
  <2>3. Consistent(m, t, n)
    BY <1>0, <1>3
       DEF Search, Consistent, LastStage, BeforeCrawl, Terminal, RequestType
  <2> HIDE DEF m
  <2> QED
    BY <1>a, <2>1, <2>2, <2>3
<1>4. ASSUME NEW k \in 0..PagesMax, r.pc = "searched",
             req' = [req EXCEPT ![q].pc = "ranked", ![q].emitted = "ranked",
                                ![q].kept = k],
             UNCHANGED <<late, crawl, spans>>
      PROVE  Inv'
  <2> DEFINE m == [r EXCEPT !.pc = "ranked", !.emitted = "ranked", !.kept = k]
  <2>1. req' = [req EXCEPT ![q] = m]
    BY <1>4 DEF Inv, TypeOK
  <2>2. m \in RequestType
    BY <1>0 DEF RequestType, AtYield
  <2>3. Consistent(m, t, n)
    BY <1>0, <1>4
       DEF Consistent, LastStage, BeforeCrawl, Terminal, RequestType
  <2> HIDE DEF m
  <2> QED
    BY <1>a, <1>4, <2>1, <2>2, <2>3
<1>5. CASE NextPage(q)
  <2> DEFINE m == [r EXCEPT !.pages = @ + 1]
  <2>1. req' = [req EXCEPT ![q] = m] /\ UNCHANGED <<late, crawl, spans>>
    BY <1>5 DEF NextPage, Inv, TypeOK
  <2>2. /\ r.pages \in Nat /\ r.pages < Cardinality(Oks(t))
        /\ Cardinality(Oks(t)) \in Nat /\ Cardinality(Oks(t)) <= r.kept
        /\ r.kept \in 0..PagesMax
    BY <1>0, <1>5, OksBound DEF NextPage, OkDocs, Consistent, RequestType
  <2>3. r.pages + 1 \in 0..PagesMax
    BY <2>2, OrchestratorAssumption
  <2>4. m \in RequestType
    BY <1>0, <2>3 DEF RequestType
  <2>5. Consistent(m, t, n)
    BY <1>0, <1>5, <2>2
       DEF NextPage, Consistent, LastStage, BeforeCrawl, Terminal, RequestType
  <2> HIDE DEF m
  <2> QED
    BY <1>a, <2>1, <2>4, <2>5
<1> QED
  BY <1>1, <1>2, <1>3, <1>4, <1>5 DEF Rank
-----------------------------------------------------------------------------
(* Ending a request that has no valid citation with an error.              *)
LEMMA ErrorStep ==
  ASSUME Inv, NEW q \in Requests, NEW why \in Reasons,
         NEW t \in [Rows -> TaskStates],
         req[q].pc \in {"search", "ranked", "page_ready", "crawl", "llm"},
         YieldError(q, why),
         crawl' = [crawl EXCEPT ![q] = t],
         \A i \in Rows : t[i] \notin {"waiting", "running"},
         \A i \in Rows : i > req[q].kept => t[i] = "none",
         UNCHANGED late
  PROVE  Inv'
<1> DEFINE r == req[q]
           n == spans[q]
           m == [r EXCEPT !.pc = "error", !.emitted = "error", !.reason = why]
           n2 == [n EXCEPT !["error"] = @ + 1]
<1>0. /\ r \in RequestType /\ n \in [Terminal -> Nat]
      /\ Consistent(r, crawl[q], n) /\ late \in [Requests -> BOOLEAN]
  BY UnpackRequest
<1>1. req' = [req EXCEPT ![q] = m] /\ spans' = [spans EXCEPT ![q] = n2]
  BY DEF YieldError, Record, Inv, TypeOK
<1>2. m \in RequestType
  BY <1>0 DEF RequestType, Ended, Terminal
<1>3. n2 \in [Terminal -> Nat] /\ n2["error"] = 1 /\ n2["answer"] = 0
  BY <1>0 DEF Consistent, Terminal
<1>4. ~m.valid /\ m.pc = "error" /\ m.emitted = "error" /\ m.kept = r.kept
  BY <1>0 DEF Consistent, RequestType
<1>5. Consistent(m, t, n2)
  BY <1>3, <1>4 DEF Consistent, LastStage, BeforeCrawl, Terminal
<1> HIDE DEF m, n2
<1> QED
  BY <1>0, <1>1, <1>2, <1>3, <1>5, ReplaceRequest

(* Ending a request with an answer: validated, or without any page.        *)
LEMMA AnswerStep ==
  ASSUME Inv, NEW q \in Requests,
         \/ req[q].pc = "validated"
         \/ /\ req[q].pc = "crawl"
            /\ OkDocs(q) = {}
            /\ \A i \in 1..req[q].kept : crawl[q][i] \in Fetched,
         YieldAnswer(q), UNCHANGED <<late, crawl>>
  PROVE  Inv'
<1> DEFINE r == req[q]
           t == crawl[q]
           n == spans[q]
           m == [r EXCEPT !.pc = "answer", !.emitted = "answer"]
           n2 == [n EXCEPT !["answer"] = @ + 1]
<1>0. /\ r \in RequestType /\ n \in [Terminal -> Nat]
      /\ t \in [Rows -> TaskStates]
      /\ Consistent(r, t, n) /\ late \in [Requests -> BOOLEAN]
  BY UnpackRequest
<1>1. req' = [req EXCEPT ![q] = m] /\ spans' = [spans EXCEPT ![q] = n2]
  BY DEF YieldAnswer, Yield, Record, Inv, TypeOK
<1>2. m \in RequestType
  BY <1>0 DEF RequestType, Ended, Terminal
<1>3. n2 \in [Terminal -> Nat] /\ n2["answer"] = 1 /\ n2["error"] = 0
  BY <1>0 DEF Consistent, Terminal
<1>4. /\ m.pc = "answer" /\ m.emitted = "answer" /\ m.kept = r.kept
      /\ m.pages = r.pages /\ m.valid = r.valid
  BY <1>0 DEF RequestType
<1>5. \A i \in Rows : t[i] \notin {"waiting", "running"}
  <2>1. \A i \in Rows : i <= r.kept => i \in 1..r.kept
    BY <1>0, OrchestratorAssumption DEF RequestType, Rows
  <2>2. \A i \in Rows : i > r.kept \/ i <= r.kept
    BY <1>0, OrchestratorAssumption DEF RequestType, Rows
  <2> QED
    BY <1>0, <2>1, <2>2 DEF Consistent, Fetched
<1>6. /\ r.valid => r.pages > 0 /\ r.pages = Cardinality(Oks(t))
      /\ r.pages = 0 => Oks(t) = {} /\ ~r.valid
      /\ r.pages \in Nat
  BY <1>0 DEF Consistent, OkDocs, RequestType
<1>7. Consistent(m, t, n2)
  BY <1>0, <1>3, <1>4, <1>5, <1>6 DEF Consistent, LastStage, BeforeCrawl, Terminal
<1> HIDE DEF m, n2
<1>8. crawl' = [crawl EXCEPT ![q] = t]
  BY UnpackRequest
<1> QED
  BY <1>0, <1>1, <1>2, <1>3, <1>7, <1>8, ReplaceRequest

(* Ending a request by an exception or because its consumer left.          *)
LEMMA BreakStep ==
  ASSUME Inv, NEW q \in Requests, NEW how \in {"raised", "closed"},
         NEW t \in [Rows -> TaskStates],
         req[q].pc \in AtYield \cup AtAwait,
         how = "raised" =>
            req[q].pc \in {"search", "crawl", "page_ready", "llm",
                              "synthesized"},
         how = "closed" => \A i \in Rows : t[i] \notin {"waiting", "running"},
         \A i \in Rows : i > req[q].kept => t[i] = "none",
         req[q].valid => t = crawl[q],
         req' = [req EXCEPT ![q].pc = how],
         crawl' = [crawl EXCEPT ![q] = t],
         UNCHANGED spans, late' \in [Requests -> BOOLEAN]
  PROVE  Inv'
<1> DEFINE r == req[q]
           n == spans[q]
           m == [r EXCEPT !.pc = how]
<1>0. /\ r \in RequestType /\ n \in [Terminal -> Nat]
      /\ Consistent(r, crawl[q], n)
  BY UnpackRequest
<1>1. req' = [req EXCEPT ![q] = m] /\ spans' = [spans EXCEPT ![q] = n]
  BY UnpackRequest DEF Inv, TypeOK
<1>2. m \in RequestType
  BY <1>0 DEF RequestType, Ended, Terminal
<1>3. /\ m.pc = how /\ m.emitted = r.emitted /\ m.kept = r.kept
      /\ m.pages = r.pages /\ m.valid = r.valid
  BY <1>0 DEF RequestType
<1>4. r.emitted \notin Terminal
  BY <1>0 DEF Consistent, LastStage, Terminal, AtYield, AtAwait
<1>5. r.pc \notin Terminal /\ how \notin Terminal
  BY DEF Terminal, AtYield, AtAwait
<1>6. \A s \in Terminal : n[s] = 0
  BY <1>0, <1>5 DEF Consistent
<1>7. how = "raised" => ~r.valid
  BY <1>0 DEF Consistent
<1>8. Consistent(m, t, n)
  BY <1>0, <1>3, <1>4, <1>5, <1>6, <1>7 DEF Consistent, LastStage, BeforeCrawl
<1> HIDE DEF m
<1> QED
  BY <1>0, <1>1, <1>2, <1>8, ReplaceRequest

(* Citations are validated, or a quote breaks the validation.              *)
LEMMA ValidateStep ==
  ASSUME Inv, NEW q \in Requests, Validate(q)
  PROVE  Inv'
<1> DEFINE r == req[q]
           t == crawl[q]
           n == spans[q]
<1>0. /\ r \in RequestType /\ t \in [Rows -> TaskStates]
      /\ n \in [Terminal -> Nat] /\ Consistent(r, t, n)
      /\ late \in [Requests -> BOOLEAN] /\ late' = late
      /\ r.pc = "synthesized" /\ crawl' = [crawl EXCEPT ![q] = t]
  BY UnpackRequest DEF Validate
<1>1. CASE Raise(q)
  <2>1. req' = [req EXCEPT ![q].pc = "raised"] /\ UNCHANGED spans
    BY <1>1 DEF Raise
  <2>2. r.pc \in AtYield \cup AtAwait
    BY <1>0 DEF AtYield
  <2>3. /\ \A i \in Rows : i > r.kept => t[i] = "none"
        /\ r.pc \in {"search", "crawl", "page_ready", "llm", "synthesized"}
    BY <1>0 DEF Consistent
  <2> QED
    BY <1>0, <2>1, <2>2, <2>3, BreakStep
<1>2. ASSUME NEW v \in BOOLEAN,
             req' = [req EXCEPT ![q].pc = "validated",
                                ![q].emitted = "validated", ![q].valid = v],
             UNCHANGED spans
      PROVE  Inv'
  <2> DEFINE m == [r EXCEPT !.pc = "validated", !.emitted = "validated",
                            !.valid = v]
  <2>1. req' = [req EXCEPT ![q] = m] /\ spans' = [spans EXCEPT ![q] = n]
    BY <1>2, UnpackRequest DEF Inv, TypeOK
  <2>2. m \in RequestType
    BY <1>0 DEF RequestType, AtYield
  <2>3. Consistent(m, t, n)
    BY <1>0
       DEF Consistent, LastStage, BeforeCrawl, Terminal, RequestType
  <2> HIDE DEF m
  <2> QED
    BY <1>0, <2>1, <2>2, <2>3, ReplaceRequest
<1> QED
  BY <1>1, <1>2 DEF Validate

(* The crawl tasks: while the gather is awaited or after it broke, a task  *)
(* of a kept row moves on.                                                 *)
LEMMA TaskStep ==
  ASSUME Inv, NEW q \in Requests, NEW i \in Rows, NEW s \in TaskStates,
         crawl[q][i] \in {"waiting", "running"},
         crawl' = [crawl EXCEPT ![q][i] = s],
         UNCHANGED <<req, late, spans>>
  PROVE  Inv'
<1> DEFINE r == req[q]
           t == crawl[q]
           t2 == [t EXCEPT ![i] = s]
           n == spans[q]
<1>0. /\ r \in RequestType /\ t \in [Rows -> TaskStates]
      /\ n \in [Terminal -> Nat] /\ Consistent(r, t, n)
      /\ late \in [Requests -> BOOLEAN]
  BY UnpackRequest
<1>1. t2 \in [Rows -> TaskStates] /\ crawl' = [crawl EXCEPT ![q] = t2]
  BY <1>0 DEF Inv, TypeOK
<1>2. r.pc \in {"crawl", "raised"} /\ ~(i > r.kept)
  BY <1>0 DEF Consistent, BeforeCrawl
<1>3. \A j \in Rows : j > r.kept => t2[j] = "none"
  BY <1>0, <1>2 DEF Consistent
<1>4. ~r.valid
  BY <1>0, <1>2 DEF Consistent
<1>5. Consistent(r, t2, n)
  BY <1>0, <1>2, <1>3, <1>4 DEF Consistent, LastStage, BeforeCrawl, Terminal
<1>6. /\ req' = [req EXCEPT ![q] = r]
      /\ spans' = [spans EXCEPT ![q] = n]
      /\ late' \in [Requests -> BOOLEAN]
  BY UnpackRequest
<1> HIDE DEF r, t2, n
<1> QED
  BY <1>0, <1>1, <1>5, <1>6, ReplaceRequest

LEMMA StartCrawlStep ==
  ASSUME Inv, NEW q \in Requests, StartCrawl(q)
  PROVE  Inv'
<1> DEFINE r == req[q]
           t == crawl[q]
           n == spans[q]
           m == [r EXCEPT !.pc = "crawl"]
           t2 == [i \in Rows |-> IF i <= r.kept THEN "waiting" ELSE "none"]
<1>0. /\ r \in RequestType /\ t \in [Rows -> TaskStates]
      /\ n \in [Terminal -> Nat] /\ Consistent(r, t, n)
      /\ late \in [Requests -> BOOLEAN] /\ r.pc = "ranked"
  BY UnpackRequest DEF StartCrawl
<1>1. CASE YieldError(q, "timeout") /\ UNCHANGED crawl
  <2>1. \A i \in Rows : t[i] = "none"
    BY <1>0 DEF Consistent, BeforeCrawl
  <2>2. crawl' = [crawl EXCEPT ![q] = t]
    BY <1>1, UnpackRequest
  <2> QED
    BY <1>0, <1>1, <2>1, <2>2, ErrorStep DEF StartCrawl, Reasons
<1>2. CASE /\ Await(q, "crawl")
           /\ crawl' = [crawl EXCEPT ![q] = t2]
           /\ UNCHANGED spans
  <2>1. req' = [req EXCEPT ![q] = m]
    BY <1>2 DEF Await, Inv, TypeOK
  <2>2. m \in RequestType
    BY <1>0 DEF RequestType, AtAwait
  <2>3. t2 \in [Rows -> TaskStates]
    BY DEF TaskStates
  <2>4. /\ m.pc = "crawl" /\ m.emitted = "ranked" /\ m.kept = r.kept
        /\ m.pages = 0 /\ ~m.valid
    BY <1>0 DEF Consistent, LastStage, RequestType, BeforeCrawl
  <2>5. \A i \in Rows : i > r.kept => t2[i] = "none"
    BY <1>0, OrchestratorAssumption DEF RequestType, Rows
  <2>6. \A s \in Terminal : n[s] = 0
    BY <1>0 DEF Consistent, Terminal
  <2> HIDE DEF t2
  <2>7. Consistent(m, t2, n)
    BY <2>4, <2>5, <2>6 DEF Consistent, LastStage, BeforeCrawl, Terminal
  <2> HIDE DEF m
  <2> QED
    BY <1>0, <1>2, <2>1, <2>2, <2>3, <2>7, ReplaceRequest, UnpackRequest
       DEF StartCrawl
<1> QED
  BY <1>1, <1>2 DEF StartCrawl

(* All the generator does after the last page_ready.                       *)
LEMMA StartLLMStep ==
  ASSUME Inv, NEW q \in Requests, StartLLM(q)
  PROVE  Inv'
<1> DEFINE r == req[q]
           t == crawl[q]
           n == spans[q]
           m == [r EXCEPT !.pc = "llm"]
<1>0. /\ r \in RequestType /\ t \in [Rows -> TaskStates]
      /\ n \in [Terminal -> Nat] /\ Consistent(r, t, n)
      /\ late \in [Requests -> BOOLEAN] /\ late' = late
      /\ r.pc = "page_ready" /\ crawl' = [crawl EXCEPT ![q] = t]
      /\ r.pages = Cardinality(Oks(t))
  BY UnpackRequest DEF StartLLM, OkDocs
<1>1. /\ \A i \in Rows : t[i] \notin {"waiting", "running"}
      /\ \A i \in Rows : i > r.kept => t[i] = "none"
  BY <1>0 DEF Consistent
<1>2. CASE Raise(q)
  <2>1. req' = [req EXCEPT ![q].pc = "raised"] /\ UNCHANGED spans
    BY <1>2 DEF Raise
  <2>2. r.pc \in AtYield \cup AtAwait
    BY <1>0 DEF AtYield
  <2> QED
    BY <1>0, <1>1, <2>1, <2>2, BreakStep
<1>3. CASE YieldError(q, "timeout")
  BY <1>0, <1>1, <1>3, ErrorStep DEF Reasons
<1>4. CASE Await(q, "llm") /\ UNCHANGED spans
  <2>1. req' = [req EXCEPT ![q] = m]
    BY <1>4 DEF Await, Inv, TypeOK
  <2>2. m \in RequestType
    BY <1>0 DEF RequestType, AtAwait
  <2>3. /\ m.pc = "llm" /\ m.emitted = "page_ready" /\ m.kept = r.kept
        /\ m.pages = r.pages /\ m.valid = r.valid /\ ~r.valid
    BY <1>0 DEF Consistent, LastStage, RequestType
  <2>4. Consistent(m, t, n)
    BY <1>0, <2>3 DEF Consistent, LastStage, BeforeCrawl, Terminal
  <2> HIDE DEF m
  <2> QED
    BY <1>0, <1>4, <2>1, <2>2, <2>4, ReplaceRequest, UnpackRequest
<1> QED
  BY <1>2, <1>3, <1>4 DEF StartLLM

(* Replies to the search and to the model call.                            *)
LEMMA ReplyStep ==
  ASSUME Inv, NEW q \in Requests, SearchReply(q) \/ LLMReply(q)
  PROVE  Inv'
<1> DEFINE r == req[q]
           t == crawl[q]
           n == spans[q]
<1>0. /\ r \in RequestType /\ t \in [Rows -> TaskStates]
      /\ n \in [Terminal -> Nat] /\ Consistent(r, t, n)
      /\ late \in [Requests -> BOOLEAN] /\ late' = late
      /\ r.pc \in {"search", "llm"} /\ crawl' = [crawl EXCEPT ![q] = t]
  BY UnpackRequest DEF SearchReply, LLMReply
<1>1. /\ \A i \in Rows : t[i] \notin {"waiting", "running"}
      /\ \A i \in Rows : i > r.kept => t[i] = "none"
  BY <1>0 DEF Consistent
<1>2. CASE Raise(q)
  <2>1. req' = [req EXCEPT ![q].pc = "raised"] /\ UNCHANGED spans
    BY <1>2 DEF Raise
  <2>2. r.pc \in AtYield \cup AtAwait
    BY <1>0 DEF AtAwait
  <2> QED
    BY <1>0, <1>1, <2>1, <2>2, BreakStep
<1>3. ASSUME NEW why \in Reasons, YieldError(q, why)
      PROVE  Inv'
  BY <1>0, <1>1, <1>3, ErrorStep
<1>4. ASSUME NEW s \in {"searched", "synthesized"}, Yield(q, s),
             UNCHANGED spans,
             s = IF r.pc = "search" THEN "searched" ELSE "synthesized"
      PROVE  Inv'
  <2> DEFINE m == [r EXCEPT !.pc = s, !.emitted = s]
  <2>1. req' = [req EXCEPT ![q] = m]
    BY <1>4 DEF Yield, Inv, TypeOK
  <2>2. m \in RequestType
    BY <1>0, <1>4 DEF RequestType, AtYield
  <2>3. /\ m.pc = s /\ m.emitted = s /\ m.kept = r.kept
        /\ m.pages = r.pages /\ m.valid = r.valid
    BY <1>0 DEF RequestType
  <2>4. Consistent(m, t, n)
    BY <1>0, <1>4, <2>3 DEF Consistent, LastStage, BeforeCrawl, Terminal
  <2> HIDE DEF m
  <2> QED
    BY <1>0, <1>4, <2>1, <2>2, <2>4, ReplaceRequest, UnpackRequest
<1>5. CASE SearchReply(q)
  BY <1>2, <1>3, <1>4, <1>5 DEF SearchReply, Reasons
<1>6. CASE LLMReply(q)
  <2>1. /\ r.pc = "llm"
        /\ {"budget_exhausted", "llm_unavailable"} \subseteq Reasons
    BY <1>6 DEF LLMReply, Reasons
  <2> QED
    BY <1>2, <1>3, <1>4, <1>6, <2>1 DEF LLMReply
<1> QED
  BY <1>5, <1>6

(* The gather returns: the first page, or the answer without sources.      *)
LEMMA CrawlDoneStep ==
  ASSUME Inv, NEW q \in Requests, CrawlDone(q)
  PROVE  Inv'
<1> DEFINE r == req[q]
           t == crawl[q]
           n == spans[q]
           m == [r EXCEPT !.pc = "page_ready", !.emitted = "page_ready",
                          !.pages = 1]
<1>0. /\ r \in RequestType /\ t \in [Rows -> TaskStates]
      /\ n \in [Terminal -> Nat] /\ Consistent(r, t, n)
      /\ late \in [Requests -> BOOLEAN] /\ late' = late
      /\ r.pc = "crawl" /\ crawl' = [crawl EXCEPT ![q] = t]
      /\ \A i \in 1..r.kept : t[i] \in Fetched
  BY UnpackRequest DEF CrawlDone
<1>1. CASE OkDocs(q) = {} /\ YieldAnswer(q)
  BY <1>0, <1>1, AnswerStep DEF CrawlDone
<1>2. CASE /\ OkDocs(q) # {}
           /\ req' = [req EXCEPT ![q].pc = "page_ready",
                                 ![q].emitted = "page_ready", ![q].pages = 1]
           /\ UNCHANGED spans
  <2>1. req' = [req EXCEPT ![q] = m]
    BY <1>2 DEF Inv, TypeOK
  <2>2. /\ Cardinality(Oks(t)) \in Nat /\ 1 <= Cardinality(Oks(t))
        /\ Cardinality(Oks(t)) <= r.kept /\ r.kept \in 0..PagesMax
    BY <1>0, <1>2, OksBound DEF OkDocs, Consistent, RequestType
  <2>a. 1 \in 0..PagesMax
    BY <2>2, OrchestratorAssumption
  <2>3. m \in RequestType
    BY <1>0, <2>a DEF RequestType, AtYield
  <2>4. \A i \in Rows : t[i] \notin {"waiting", "running"}
    <3>1. \A i \in Rows : i <= r.kept => i \in 1..r.kept
      BY <2>2, OrchestratorAssumption DEF Rows
    <3>2. \A i \in Rows : i > r.kept \/ i <= r.kept
      BY <2>2, OrchestratorAssumption DEF Rows
    <3> QED
      BY <1>0, <3>1, <3>2 DEF Consistent, Fetched
  <2>5. /\ m.pc = "page_ready" /\ m.emitted = "page_ready" /\ m.pages = 1
        /\ m.kept = r.kept /\ m.valid = r.valid /\ ~r.valid
    BY <1>0 DEF Consistent, RequestType
  <2>6. Consistent(m, t, n)
    BY <1>0, <2>2, <2>4, <2>5
       DEF Consistent, LastStage, BeforeCrawl, Terminal
  <2>7. spans' = [spans EXCEPT ![q] = n]
    BY <1>2, UnpackRequest
  <2> HIDE DEF r, t, m, n
  <2> QED
    BY <1>0, <2>1, <2>3, <2>6, <2>7, ReplaceRequest
<1> QED
  BY <1>1, <1>2 DEF CrawlDone

(* What cancelling the gather leaves: no live task.                        *)
LEMMA CancelledTasks ==
  ASSUME Inv, NEW q \in Requests
  PROVE  LET t2 == [i \in Rows |-> IF i \in Busy(q) THEN "cancelled"
                                                   ELSE crawl[q][i]]
         IN  /\ t2 \in [Rows -> TaskStates]
             /\ \A i \in Rows : t2[i] \notin {"waiting", "running"}
             /\ \A i \in Rows : i > req[q].kept => t2[i] = "none"
  BY UnpackRequest DEF Busy, TaskStates, Consistent

LEMMA TimeoutStep ==
  ASSUME Inv, NEW q \in Requests, Timeout(q)
  PROVE  Inv'
<1> DEFINE t2 == [i \in Rows |-> IF i \in Busy(q) THEN "cancelled"
                                                 ELSE crawl[q][i]]
<1>1. /\ req[q].pc \in {"crawl", "llm"} /\ YieldError(q, "timeout")
      /\ UNCHANGED late /\ "timeout" \in Reasons
  BY DEF Timeout, Reasons
<1>2. CASE req[q].pc = "crawl"
  <2>1. crawl' = [crawl EXCEPT ![q] = t2]
    BY <1>2 DEF Timeout, CancelTasks
  <2>2. /\ t2 \in [Rows -> TaskStates]
        /\ \A i \in Rows : t2[i] \notin {"waiting", "running"}
        /\ \A i \in Rows : i > req[q].kept => t2[i] = "none"
    BY CancelledTasks
  <2> HIDE DEF t2
  <2> QED
    BY <1>1, <1>2, <2>1, <2>2, ErrorStep
<1>3. CASE req[q].pc # "crawl"
  <2>1. /\ crawl' = [crawl EXCEPT ![q] = crawl[q]]
        /\ crawl[q] \in [Rows -> TaskStates]
    BY <1>3, UnpackRequest DEF Timeout
  <2>2. /\ \A i \in Rows : crawl[q][i] \notin {"waiting", "running"}
        /\ \A i \in Rows : i > req[q].kept => crawl[q][i] = "none"
    BY <1>1, <1>3, UnpackRequest DEF Consistent
  <2> QED
    BY <1>1, <2>1, <2>2, ErrorStep
<1> QED
  BY <1>2, <1>3

LEMMA CloseStep ==
  ASSUME Inv, NEW q \in Requests, Close(q)
  PROVE  Inv'
<1> DEFINE t2 == [i \in Rows |-> IF i \in Busy(q) THEN "cancelled"
                                                 ELSE crawl[q][i]]
<1>1. /\ req[q].pc \in AtYield \cup AtAwait
      /\ req' = [req EXCEPT ![q].pc = "closed"]
      /\ UNCHANGED spans /\ late' \in [Requests -> BOOLEAN]
  BY UnpackRequest DEF Close, Active, Await
<1>2. CASE req[q].pc = "crawl"
  <2>1. crawl' = [crawl EXCEPT ![q] = t2]
    BY <1>2 DEF Close, CancelTasks
  <2>2. /\ t2 \in [Rows -> TaskStates]
        /\ \A i \in Rows : t2[i] \notin {"waiting", "running"}
        /\ \A i \in Rows : i > req[q].kept => t2[i] = "none"
    BY CancelledTasks
  <2>3. ~req[q].valid
    BY <1>2, UnpackRequest DEF Consistent
  <2> HIDE DEF t2
  <2> QED
    BY <1>1, <2>1, <2>2, <2>3, BreakStep
<1>3. CASE req[q].pc # "crawl"
  <2>1. /\ crawl' = [crawl EXCEPT ![q] = crawl[q]]
        /\ crawl[q] \in [Rows -> TaskStates]
    BY <1>3, UnpackRequest DEF Close
  <2>2. /\ \A i \in Rows : crawl[q][i] \notin {"waiting", "running"}
        /\ \A i \in Rows : i > req[q].kept => crawl[q][i] = "none"
    BY <1>1, <1>3, UnpackRequest DEF Consistent, AtYield, AtAwait
  <2> QED
    BY <1>1, <2>1, <2>2, BreakStep
<1> QED
  BY <1>2, <1>3

(* A task raises: it breaks the gather, or is one of those left behind.    *)
LEMMA TaskRaiseStep ==
  ASSUME Inv, NEW q \in Requests, NEW i \in Rows, TaskRaise(q, i)
  PROVE  Inv'
<1>1. /\ crawl[q][i] \in {"waiting", "running"}
      /\ crawl' = [crawl EXCEPT ![q][i] = "raised"]
      /\ UNCHANGED late /\ "raised" \in TaskStates
  BY DEF TaskRaise, TaskStates
<1>2. CASE req[q].pc = "crawl"
  <2> DEFINE t2 == [crawl[q] EXCEPT ![i] = "raised"]
  <2>1. /\ crawl' = [crawl EXCEPT ![q] = t2]
        /\ t2 \in [Rows -> TaskStates]
    BY <1>1 DEF Inv, TypeOK
  <2>2. /\ req' = [req EXCEPT ![q].pc = "raised"] /\ UNCHANGED spans
        /\ late' \in [Requests -> BOOLEAN]
        /\ req[q].pc \in AtYield \cup AtAwait
    BY <1>1, <1>2, UnpackRequest DEF TaskRaise, Raise, AtAwait
  <2>3. /\ \A j \in Rows : j > req[q].kept => t2[j] = "none"
        /\ ~req[q].valid
    BY <1>1, <1>2, UnpackRequest DEF Consistent
  <2> HIDE DEF t2
  <2> QED
    BY <1>2, <2>1, <2>2, <2>3, BreakStep
<1>3. CASE req[q].pc # "crawl"
  BY <1>1, <1>3, TaskStep DEF TaskRaise
<1> QED
  BY <1>2, <1>3

LEMMA InvStep == Inv /\ [Next]_vars => Inv'
<1> SUFFICES ASSUME Inv, [Next]_vars PROVE Inv'
  OBVIOUS
<1>1. CASE UNCHANGED vars
  BY <1>1 DEF Inv, TypeOK, AllConsistent, Consistent, Oks, vars
<1>2. ASSUME NEW q \in Requests, Pull(q)
      PROVE  Inv'
  BY <1>2, PlainPullStep, StartCrawlStep, StartLLMStep, ValidateStep, AnswerStep
     DEF Pull, Answer
<1>3. ASSUME NEW q \in Requests, SearchReply(q) \/ LLMReply(q)
      PROVE  Inv'
  BY <1>3, ReplyStep
<1>4. ASSUME NEW q \in Requests, NEW i \in Rows, TaskStart(q, i)
      PROVE  Inv'
  <2>1. "running" \in TaskStates
    BY DEF TaskStates
  <2> QED
    BY <1>4, <2>1, TaskStep DEF TaskStart
<1>5. ASSUME NEW q \in Requests, NEW i \in Rows, TaskEnd(q, i)
      PROVE  Inv'
  <2>1. PICK s \in Fetched : crawl' = [crawl EXCEPT ![q][i] = s]
    BY <1>5 DEF TaskEnd
  <2>2. s \in TaskStates
    BY DEF TaskStates
  <2> QED
    BY <1>5, <2>1, <2>2, TaskStep DEF TaskEnd
<1>6. ASSUME NEW q \in Requests, NEW i \in Rows, TaskRaise(q, i)
      PROVE  Inv'
  BY <1>6, TaskRaiseStep
<1>7. ASSUME NEW q \in Requests, CrawlDone(q) \/ Timeout(q) \/ Close(q)
      PROVE  Inv'
  BY <1>7, CrawlDoneStep, TimeoutStep, CloseStep
<1>8. ASSUME NEW q \in Requests, Expire(q)
      PROVE  Inv'
  BY <1>8 DEF Expire, Inv, TypeOK, AllConsistent, Consistent, Oks
<1> QED
  BY <1>1, <1>2, <1>3, <1>4, <1>5, <1>6, <1>7, <1>8 DEF Next

LEMMA InvAlways == Spec => []Inv
<1> QED
  BY InvInit, InvStep, PTL DEF Spec

(* Types of the generators, tasks and spans, for every instance.           *)
THEOREM TypeCorrect == Spec => []TypeOK
<1>1. Inv => TypeOK
  BY DEF Inv
<1> QED
  BY <1>1, InvAlways, PTL

(* The last event, the place of the generator, its tasks and its spans fit *)
(* together in every reachable state of every request.                     *)
THEOREM RequestsConsistent == Spec => []AllConsistent
<1>1. Inv => AllConsistent
  BY DEF Inv
<1> QED
  BY <1>1, InvAlways, PTL

(* Exactly one span for a terminal event and none otherwise, in every      *)
(* interleaving of timeouts, replies and departing consumers.              *)
THEOREM SpansMatchTerminals == Spec => []SpanPerTerminal
<1>1. Inv => SpanPerTerminal
  BY DEF Inv, AllConsistent, Consistent, SpanPerTerminal
<1> QED
  BY <1>1, InvAlways, PTL

(* A timeout, a departing consumer and a finished request leave no crawl   *)
(* task alive.                                                             *)
THEOREM TasksCancelled == Spec => []NoStrayTasks
<1>1. Inv => NoStrayTasks
  BY DEF Inv, AllConsistent, Consistent, NoStrayTasks, Busy
<1> QED
  BY <1>1, InvAlways, PTL

(* Every model call and every citation rests on announced, fetched pages.  *)
THEOREM AnswersGrounded == Spec => []GroundedInPages
<1>1. Inv => GroundedInPages
  <2> SUFFICES ASSUME Inv, NEW q \in Requests
               PROVE  /\ \/ req[q].pc \in {"llm", "synthesized", "validated"}
                         \/ req[q].valid
                         => /\ req[q].pages = Cardinality(OkDocs(q))
                            /\ req[q].pages > 0
                      /\ req[q].pc = "answer" /\ req[q].pages = 0
                         => OkDocs(q) = {} /\ ~req[q].valid
    BY DEF GroundedInPages
  <2> QED
    BY UnpackRequest DEF Consistent, OkDocs
<1> QED
  BY <1>1, InvAlways, PTL

-----------------------------------------------------------------------------
(* The refinement: what a step does to the last event, the kept rows and   *)
(* the announced pages.                                                    *)
LEMMA MapRequest ==
  ASSUME Inv, NEW q \in Requests, NEW m \in RequestType,
         req' = [req EXCEPT ![q] = m]
  PROVE  LET stage == [p \in Requests |-> req[p].emitted]
             kept == [p \in Requests |-> req[p].kept]
             pages == [p \in Requests |-> req[p].pages]
         IN  /\ stage' = [stage EXCEPT ![q] = m.emitted]
             /\ kept' = [kept EXCEPT ![q] = m.kept]
             /\ pages' = [pages EXCEPT ![q] = m.pages]
  BY DEF Inv, TypeOK

LEMMA KeepStage ==
  ASSUME Inv, NEW q \in Requests, NEW m \in RequestType,
         req' = [req EXCEPT ![q] = m],
         m.emitted = req[q].emitted, m.kept = req[q].kept,
         m.pages = req[q].pages
  PROVE  UNCHANGED Stream!streamVars
  BY MapRequest DEF Inv, TypeOK, Stream!streamVars

(* An event that changes neither kept rows nor pages.                      *)
LEMMA MoveStage ==
  ASSUME Inv, NEW q \in Requests, NEW m \in RequestType,
         req' = [req EXCEPT ![q] = m],
         m.kept = req[q].kept, m.pages = req[q].pages,
         <<req[q].emitted, m.emitted>> \in
            {<<"none", "accepted">>, <<"accepted", "expanded">>,
             <<"expanded", "searched">>, <<"page_ready", "synthesized">>,
             <<"synthesized", "validated">>, <<"ranked", "answer">>,
             <<"validated", "answer">>, <<"expanded", "error">>,
             <<"ranked", "error">>, <<"page_ready", "error">>}
  PROVE  Stream!Next
<1> DEFINE stage == [p \in Requests |-> req[p].emitted]
           kept == [p \in Requests |-> req[p].kept]
           pages == [p \in Requests |-> req[p].pages]
<1>1. /\ stage' = [stage EXCEPT ![q] = m.emitted]
      /\ UNCHANGED <<kept, pages>>
      /\ stage[q] = req[q].emitted
  <2>1. /\ stage' = [stage EXCEPT ![q] = m.emitted]
        /\ kept' = [kept EXCEPT ![q] = m.kept]
        /\ pages' = [pages EXCEPT ![q] = m.pages]
    BY MapRequest
  <2> QED
    BY <2>1
<1>2. Stream!Begin(q) \/ Stream!Synthesize(q) \/ Stream!Answer(q) \/ Stream!Fail(q)
  BY <1>1 DEF Stream!Begin, Stream!Synthesize, Stream!Answer, Stream!Fail,
              Stream!Emit
<1> QED
  BY <1>2 DEF Stream!Next

(* Going to an await or ending without an event is a stutter.              *)
LEMMA PcOnlyRefines ==
  ASSUME Inv, NEW q \in Requests,
         NEW to \in AtAwait \cup {"raised", "closed"},
         req' = [req EXCEPT ![q].pc = to]
  PROVE  UNCHANGED Stream!streamVars
<1> DEFINE m == [req[q] EXCEPT !.pc = to]
<1>1. req' = [req EXCEPT ![q] = m] /\ req[q] \in RequestType
  BY UnpackRequest
<1>2. m \in RequestType
  BY <1>1 DEF RequestType, Ended
<1>3. m.emitted = req[q].emitted /\ m.kept = req[q].kept /\ m.pages = req[q].pages
  BY <1>1 DEF RequestType
<1> HIDE DEF m
<1> QED
  BY <1>1, <1>2, <1>3, KeepStage

(* A yield of an event that changes neither kept rows nor pages.           *)
LEMMA YieldRefines ==
  ASSUME Inv, NEW q \in Requests, NEW s \in AtYield \cup {"answer"},
         NEW v \in BOOLEAN,
         \/ req' = [req EXCEPT ![q].pc = s, ![q].emitted = s]
         \/ req' = [req EXCEPT ![q].pc = s, ![q].emitted = s, ![q].valid = v],
         <<req[q].pc, s>> \in
            {<<"new", "accepted">>, <<"accepted", "expanded">>,
             <<"search", "searched">>, <<"llm", "synthesized">>,
             <<"synthesized", "validated">>, <<"crawl", "answer">>,
             <<"validated", "answer">>}
  PROVE  Stream!Next
<1> DEFINE m == req'[q]
<1>1. req[q] \in RequestType /\ req \in [Requests -> RequestType]
  BY DEF Inv, TypeOK
<1>2. req' = [req EXCEPT ![q] = m] /\ m \in RequestType
  BY <1>1 DEF RequestType, Ended, Terminal
<1>3. m.emitted = s /\ m.kept = req[q].kept /\ m.pages = req[q].pages
  BY <1>1 DEF RequestType
<1>4. req[q].emitted = LastStage(req[q].pc)
  BY UnpackRequest DEF Consistent
<1>5. <<req[q].emitted, s>> \in
            {<<"none", "accepted">>, <<"accepted", "expanded">>,
             <<"expanded", "searched">>, <<"page_ready", "synthesized">>,
             <<"synthesized", "validated">>, <<"ranked", "answer">>,
             <<"validated", "answer">>}
  BY <1>4 DEF LastStage
<1> HIDE DEF m
<1> QED
  BY <1>2, <1>3, <1>5, MoveStage

LEMMA ErrorRefines ==
  ASSUME Inv, NEW q \in Requests, NEW why \in Reasons, YieldError(q, why),
         req[q].pc \in {"search", "ranked", "page_ready", "crawl", "llm"}
  PROVE  Stream!Next
<1> DEFINE m == req'[q]
<1>1. req[q] \in RequestType /\ req \in [Requests -> RequestType]
  BY DEF Inv, TypeOK
<1>2. req' = [req EXCEPT ![q] = m] /\ m \in RequestType
  BY <1>1 DEF YieldError, RequestType, Ended, Terminal
<1>3. m.emitted = "error" /\ m.kept = req[q].kept /\ m.pages = req[q].pages
  BY <1>1 DEF YieldError, RequestType
<1>4. req[q].emitted \in {"expanded", "ranked", "page_ready"}
  BY UnpackRequest DEF Consistent, LastStage
<1> HIDE DEF m
<1> QED
  BY <1>2, <1>3, <1>4, MoveStage

(* The first page out of CrawlDone and the next ones out of the loop: the  *)
(* page announced is one of the kept rows.                                 *)
LEMMA PageRefines ==
  ASSUME Inv, NEW q \in Requests, NEW m \in RequestType,
         req' = [req EXCEPT ![q] = m],
         req[q].emitted \in {"ranked", "page_ready"},
         m.emitted = "page_ready", m.kept = req[q].kept,
         m.pages = req[q].pages + 1, req[q].pages < req[q].kept
  PROVE  Stream!Next
<1> DEFINE stage == [p \in Requests |-> req[p].emitted]
           kept == [p \in Requests |-> req[p].kept]
           pages == [p \in Requests |-> req[p].pages]
<1>1. /\ stage' = [stage EXCEPT ![q] = "page_ready"]
      /\ kept' = [kept EXCEPT ![q] = m.kept]
      /\ pages' = [pages EXCEPT ![q] = m.pages]
  BY MapRequest
<1>2. /\ stage[q] \in {"ranked", "page_ready"}
      /\ pages[q] < kept[q]
      /\ UNCHANGED kept
      /\ pages' = [pages EXCEPT ![q] = @ + 1]
  BY <1>1
<1>3. Stream!PageReady(q)
  BY <1>1, <1>2 DEF Stream!PageReady, Stream!Emit
<1> QED
  BY <1>3 DEF Stream!Next

LEMMA PullRefines ==
  ASSUME Inv, NEW q \in Requests, Pull(q)
  PROVE  [Stream!Next]_(Stream!streamVars)
<1>0. req[q] \in RequestType
  BY UnpackRequest
<1>1. CASE Accept(q)
  BY <1>1, YieldRefines DEF Accept, Yield, AtYield
<1>2. CASE Expand(q)
  BY <1>2, YieldRefines DEF Expand, Yield, AtYield
<1>3. CASE Search(q)
  BY <1>3, PcOnlyRefines DEF Search, Await, AtAwait
<1>4. CASE Rank(q)
  <2> DEFINE stage == [p \in Requests |-> req[p].emitted]
             kept == [p \in Requests |-> req[p].kept]
             pages == [p \in Requests |-> req[p].pages]
  <2>1. PICK k \in 0..PagesMax :
           req' = [req EXCEPT ![q].pc = "ranked", ![q].emitted = "ranked",
                              ![q].kept = k]
    BY <1>4 DEF Rank
  <2> DEFINE m == req'[q]
  <2>2. req' = [req EXCEPT ![q] = m] /\ m \in RequestType
    BY <1>0, <2>1 DEF RequestType, AtYield, Inv, TypeOK
  <2>3. m.emitted = "ranked" /\ m.kept = k /\ m.pages = req[q].pages
    BY <1>0, <2>1 DEF RequestType, Inv, TypeOK
  <2>4. req[q].emitted = "searched"
    BY <1>4, UnpackRequest DEF Rank, Consistent, LastStage
  <2> HIDE DEF m
  <2>5. /\ stage' = [stage EXCEPT ![q] = m.emitted]
        /\ kept' = [kept EXCEPT ![q] = m.kept]
        /\ pages' = [pages EXCEPT ![q] = m.pages]
    BY <2>2, MapRequest
  <2>6. Stream!Rank(q)
    BY <2>3, <2>4, <2>5 DEF Stream!Rank, Stream!Emit
  <2> QED
    BY <2>6 DEF Stream!Next
<1>5. CASE StartCrawl(q)
  <2>1. CASE YieldError(q, "timeout")
    BY <1>5, <2>1, ErrorRefines DEF StartCrawl, Reasons
  <2>2. CASE Await(q, "crawl")
    BY <2>2, PcOnlyRefines DEF Await, AtAwait
  <2> QED
    BY <1>5, <2>1, <2>2 DEF StartCrawl
<1>6. CASE NextPage(q)
  <2> DEFINE m == [req[q] EXCEPT !.pages = @ + 1]
  <2>1. req' = [req EXCEPT ![q] = m]
    BY <1>6 DEF NextPage, Inv, TypeOK
  <2>2. /\ req[q].emitted = "page_ready" /\ req[q].pages < req[q].kept
        /\ req[q].pages \in 0..PagesMax /\ req[q].kept \in 0..PagesMax
    <3>1. Consistent(req[q], crawl[q], spans[q])
      BY UnpackRequest
    <3>2. /\ Cardinality(Oks(crawl[q])) \in Nat
          /\ Cardinality(Oks(crawl[q])) <= req[q].kept
      BY <1>0, <3>1, UnpackRequest, OksBound DEF Consistent
    <3>3. req[q].pages < Cardinality(Oks(crawl[q])) /\ req[q].pc = "page_ready"
      BY <1>6 DEF NextPage, OkDocs
    <3>4. req[q].pages \in 0..PagesMax /\ req[q].kept \in 0..PagesMax
      BY <1>0 DEF RequestType
    <3>5. req[q].emitted = "page_ready"
      BY <3>1, <3>3 DEF Consistent, LastStage
    <3> QED
      BY <3>2, <3>3, <3>4, <3>5, OrchestratorAssumption
  <2>3. req[q].pages + 1 \in 0..PagesMax
    BY <2>2, OrchestratorAssumption
  <2>4. m \in RequestType
    BY <1>0, <2>3 DEF RequestType
  <2>5. /\ m.emitted = "page_ready" /\ m.kept = req[q].kept
        /\ m.pages = req[q].pages + 1
    BY <1>0, <2>2 DEF RequestType
  <2> HIDE DEF m
  <2> QED
    BY <2>1, <2>2, <2>4, <2>5, PageRefines
<1>7. CASE StartLLM(q)
  <2>1. CASE Raise(q)
    BY <2>1, PcOnlyRefines DEF Raise
  <2>2. CASE YieldError(q, "timeout")
    BY <1>7, <2>2, ErrorRefines DEF StartLLM, Reasons
  <2>3. CASE Await(q, "llm")
    BY <2>3, PcOnlyRefines DEF Await, AtAwait
  <2> QED
    BY <1>7, <2>1, <2>2, <2>3 DEF StartLLM
<1>8. CASE Validate(q)
  <2>1. CASE Raise(q)
    BY <2>1, PcOnlyRefines DEF Raise
  <2>2. ASSUME NEW v \in BOOLEAN,
               req' = [req EXCEPT ![q].pc = "validated",
                                  ![q].emitted = "validated", ![q].valid = v]
        PROVE  Stream!Next
    <3>1. "validated" \in AtYield /\ req[q].pc = "synthesized"
      BY <1>8 DEF AtYield, Validate
    <3> QED
      BY <2>2, <3>1, YieldRefines
  <2> QED
    BY <1>8, <2>1, <2>2 DEF Validate
<1>9. CASE Answer(q)
  BY <1>9, YieldRefines DEF Answer, YieldAnswer, Yield
<1> QED
  BY <1>1, <1>2, <1>3, <1>4, <1>5, <1>6, <1>7, <1>8, <1>9 DEF Pull

LEMMA StepRefines ==
  Inv /\ [Next]_vars => [Stream!Next]_(Stream!streamVars)
<1> SUFFICES ASSUME Inv, [Next]_vars
             PROVE  [Stream!Next]_(Stream!streamVars)
  OBVIOUS
<1>1. ASSUME UNCHANGED req
      PROVE  UNCHANGED Stream!streamVars
  BY <1>1 DEF Stream!streamVars
<1>2. ASSUME NEW q \in Requests, Pull(q)
      PROVE  [Stream!Next]_(Stream!streamVars)
  BY <1>2, PullRefines
<1>3. ASSUME NEW q \in Requests, SearchReply(q)
      PROVE  [Stream!Next]_(Stream!streamVars)
  <2>1. CASE Yield(q, "searched")
    BY <1>3, <2>1, YieldRefines DEF SearchReply, Yield, AtYield
  <2>2. CASE YieldError(q, "search_unavailable")
    BY <1>3, <2>2, ErrorRefines DEF SearchReply, Reasons
  <2>3. CASE Raise(q)
    BY <2>3, PcOnlyRefines DEF Raise
  <2> QED
    BY <1>3, <2>1, <2>2, <2>3 DEF SearchReply
<1>4. ASSUME NEW q \in Requests, LLMReply(q)
      PROVE  [Stream!Next]_(Stream!streamVars)
  <2>1. CASE Yield(q, "synthesized")
    BY <1>4, <2>1, YieldRefines DEF LLMReply, Yield, AtYield
  <2>2. ASSUME NEW why \in {"budget_exhausted", "llm_unavailable"},
               YieldError(q, why)
        PROVE  Stream!Next
    <3>1. why \in Reasons /\ req[q].pc = "llm"
      BY <1>4 DEF Reasons, LLMReply
    <3> QED
      BY <2>2, <3>1, ErrorRefines
  <2>3. CASE Raise(q)
    BY <2>3, PcOnlyRefines DEF Raise
  <2> QED
    BY <1>4, <2>1, <2>2, <2>3 DEF LLMReply
<1>5. ASSUME NEW q \in Requests, CrawlDone(q)
      PROVE  [Stream!Next]_(Stream!streamVars)
  <2>0. /\ req[q].pc = "crawl" /\ req[q].emitted = "ranked"
        /\ req[q].pages = 0 /\ req[q] \in RequestType
        /\ \A i \in Rows : i > req[q].kept => crawl[q][i] = "none"
        /\ crawl[q] \in [Rows -> TaskStates]
    BY <1>5, UnpackRequest DEF CrawlDone, Consistent, LastStage
  <2>1. CASE YieldAnswer(q)
    BY <2>0, <2>1, YieldRefines DEF YieldAnswer, Yield
  <2>2. CASE /\ OkDocs(q) # {}
             /\ req' = [req EXCEPT ![q].pc = "page_ready",
                                   ![q].emitted = "page_ready", ![q].pages = 1]
    <3> DEFINE m == [req[q] EXCEPT !.pc = "page_ready",
                                   !.emitted = "page_ready", !.pages = 1]
    <3>1. req' = [req EXCEPT ![q] = m]
      BY <2>2 DEF Inv, TypeOK
    <3>2. req[q].kept \in 0..PagesMax /\ 0 < req[q].kept
      <4>1. /\ Cardinality(Oks(crawl[q])) \in Nat
            /\ Cardinality(Oks(crawl[q])) <= req[q].kept
            /\ Cardinality(Oks(crawl[q])) > 0
        BY <2>0, <2>2, OksBound DEF OkDocs
      <4>2. req[q].kept \in 0..PagesMax
        BY <2>0 DEF RequestType
      <4> QED
        BY <4>1, <4>2, OrchestratorAssumption
    <3>3. 1 \in 0..PagesMax
      BY <3>2, OrchestratorAssumption
    <3>4. m \in RequestType
      BY <2>0, <3>3 DEF RequestType, AtYield
    <3>5. /\ m.emitted = "page_ready" /\ m.kept = req[q].kept
          /\ m.pages = req[q].pages + 1
      BY <2>0 DEF RequestType
    <3> HIDE DEF m
    <3> QED
      BY <2>0, <3>1, <3>2, <3>4, <3>5, PageRefines
  <2> QED
    BY <1>5, <2>1, <2>2 DEF CrawlDone
<1>6. ASSUME NEW q \in Requests, Timeout(q)
      PROVE  [Stream!Next]_(Stream!streamVars)
  BY <1>6, ErrorRefines DEF Timeout, Reasons
<1>7. ASSUME NEW q \in Requests, Close(q)
      PROVE  [Stream!Next]_(Stream!streamVars)
  BY <1>7, PcOnlyRefines DEF Close, Await
<1>8. ASSUME NEW q \in Requests, NEW i \in Rows, TaskRaise(q, i)
      PROVE  [Stream!Next]_(Stream!streamVars)
  BY <1>1, <1>8, PcOnlyRefines DEF TaskRaise, Raise
<1>9. ASSUME NEW q \in Requests, NEW i \in Rows,
             TaskStart(q, i) \/ TaskEnd(q, i)
      PROVE  [Stream!Next]_(Stream!streamVars)
  BY <1>1, <1>9 DEF TaskStart, TaskEnd
<1>10. ASSUME NEW q \in Requests, Expire(q)
       PROVE  [Stream!Next]_(Stream!streamVars)
  BY <1>1, <1>10 DEF Expire
<1>11. CASE UNCHANGED vars
  BY <1>1, <1>11 DEF vars
<1> QED
  BY <1>2, <1>3, <1>4, <1>5, <1>6, <1>7, <1>8, <1>9, <1>10, <1>11 DEF Next

(* Orchestrator implements the stage contract: no stage is skipped,        *)
(* repeated or reordered, nothing follows a terminal event, and nothing is *)
(* synthesized before a page was announced.                                *)
THEOREM ImplementsStream == Spec => StreamSpec
<1>1. Init => Stream!Init
  BY DEF Init, Stream!Init
<1> QED
  BY <1>1, InvAlways, StepRefines, PTL DEF Spec, StreamSpec, Stream!Spec
=============================================================================
