------------------------------- MODULE Rerank -------------------------------
(***************************************************************************)
(* rerank of nexus/rerank/__init__.py with its scorer (bge.py), its cap on *)
(* pages per domain (diversity.py) and its near-duplicates (dedup.py).     *)
(*                                                                         *)
(* A candidate has the key of its canonical URL, the domain of that key    *)
(* and the set of words of its title and snippet.                          *)
(***************************************************************************)
EXTENDS Integers, Sequences, FiniteSets, SequencesExt

CONSTANTS
    Words,
    MaxCandidates,
    TopK,
    Cap,                \* per_domain_cap
    JaccardNum,         \* the threshold of near-duplicates is
    JaccardDen          \* JaccardNum / JaccardDen

ASSUME RerankAssumption ==
    /\ IsFiniteSet(Words)
    /\ MaxCandidates \in Nat /\ TopK \in Nat /\ Cap \in Nat
    /\ JaccardNum \in Nat /\ JaccardDen \in Nat \ {0}

-----------------------------------------------------------------------------
(* The logit; the sigmoid over it keeps the order.                         *)
Score(query, words) ==
    IF query = {} \/ words = {} THEN -5 ELSE Cardinality(query \cap words) - 1

(* sorted(..., reverse=True) is stable: equal scores stay in order.        *)
Ranked(query, candidates) ==
    LET Before(i, j) ==
            LET a == Score(query, candidates[i].words)
                b == Score(query, candidates[j].words)
            IN  a > b \/ (a = b /\ i < j)
        order == CHOOSE p \in Bijection(DOMAIN candidates, DOMAIN candidates) :
                     \A i, j \in DOMAIN candidates : i < j => Before(p[i], p[j])
    IN  [n \in DOMAIN candidates |-> [result |-> candidates[order[n]], from |-> order[n]]]

UniqueUrls(rows) ==
    FoldLeft(LAMBDA kept, row :
                 IF \E i \in DOMAIN kept : kept[i].result.key = row.result.key
                 THEN kept ELSE Append(kept, row),
             <<>>, rows)

InDomain(rows, domain) == {i \in DOMAIN rows : rows[i].result.domain = domain}

DomainCap(rows) ==
    FoldLeft(LAMBDA kept, row :
                 IF Cardinality(InDomain(kept, row.result.domain)) >= Cap
                 THEN kept ELSE Append(kept, row),
             <<>>, rows)

(* Jaccard similarity at the threshold or above.                           *)
NearDuplicate(v, w) ==
    \/ v = {} /\ w = {}
    \/ /\ v # {} /\ w # {}
       /\ Cardinality(v \cap w) * JaccardDen >= JaccardNum * Cardinality(v \cup w)

DropNearDuplicates(rows) ==
    FoldLeft(LAMBDA kept, row :
                 IF \E i \in DOMAIN kept : NearDuplicate(row.result.words, kept[i].result.words)
                 THEN kept ELSE Append(kept, row),
             <<>>, rows)

Bounded(list, max) == SubSeq(list, 1, IF Len(list) < max THEN Len(list) ELSE max)

(* Mutant: near-duplicates are dropped after the cut.                      *)
RerankedCutFirst(query, candidates) ==
    DropNearDuplicates(Bounded(
        DomainCap(UniqueUrls(Ranked(query, Bounded(candidates, MaxCandidates)))), TopK))

Reranked(query, candidates) ==
    Bounded(
        DropNearDuplicates(DomainCap(UniqueUrls(
            Ranked(query, Bounded(candidates, MaxCandidates))))), TopK)

-----------------------------------------------------------------------------
(* Whether row a goes before row b.                                        *)
Better(query, a, b) ==
    LET x == Score(query, a.result.words)
        y == Score(query, b.result.words)
    IN  x > y \/ (x = y /\ a.from < b.from)

(* The rows of result are candidates, the better ones first, at most TopK  *)
(* and Cap of a domain, and no two of them are one page or near-duplicates.*)
RankingSound(query, candidates, rows) ==
    /\ Len(rows) <= TopK
    /\ \A i \in DOMAIN rows :
          /\ rows[i].from \in DOMAIN candidates
          /\ rows[i].from <= MaxCandidates
          /\ rows[i].result = candidates[rows[i].from]
          /\ Cardinality(InDomain(rows, rows[i].result.domain)) <= Cap
          /\ \A j \in 1..(i - 1) :
                /\ Better(query, rows[j], rows[i])
                /\ rows[j].result.key # rows[i].result.key
                /\ ~NearDuplicate(rows[j].result.words, rows[i].result.words)

(* Every candidate left out has a better one to blame: one of the same     *)
(* page, Cap better pages of its domain (shown or not: a near-duplicate    *)
(* that is dropped later has used up the domain's share), a near-duplicate *)
(* that is shown, or TopK better ones that are.                            *)
RankingJustified(query, candidates, rows) ==
    LET all == [n \in DOMAIN Bounded(candidates, MaxCandidates) |->
                   [result |-> candidates[n], from |-> n]]
        Rivals(c) == {n \in DOMAIN all : Better(query, all[n], all[c])}
        Shown(c) == {i \in DOMAIN rows : Better(query, rows[i], all[c])}
    IN  \A c \in DOMAIN all :
          \/ \E i \in DOMAIN rows : rows[i].from = c
          \/ \E n \in Rivals(c) : candidates[n].key = candidates[c].key
          \/ Cap <= Cardinality({candidates[n].key :
                        n \in {m \in Rivals(c) : candidates[m].domain = candidates[c].domain}})
          \/ \E i \in Shown(c) : NearDuplicate(rows[i].result.words, candidates[c].words)
          \/ TopK <= Cardinality(Shown(c))
=============================================================================
