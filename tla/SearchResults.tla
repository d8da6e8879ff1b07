---------------------------- MODULE SearchResults ----------------------------
(***************************************************************************)
(* What nexus/search makes of the items its providers return: the          *)
(* canonical form of their URLs (canonical.py), the results parsed from    *)
(* them (brave.py, searxng.py), and their merge and cut (client.py).       *)
(*                                                                         *)
(* A path is a sequence of slashes and names.  A query is a sequence of    *)
(* numbers in the order of its parameters, 0 for the tracking ones.        *)
(***************************************************************************)
EXTENDS Integers, Sequences, FiniteSets, SequencesExt

CONSTANTS
    AllowedEngines,  \* _ALLOWED_ENGINES of SearXNG
    MinResults       \* _MIN_RESULTS_BEFORE_FALLBACK

ASSUME ResultsAssumption == MinResults \in Nat

DefaultPort(scheme) == CASE scheme = "http" -> 80 [] scheme = "https" -> 443

-----------------------------------------------------------------------------
(* Runs of slashes collapse, and then the trailing one goes.               *)
Collapsed(path) ==
    FoldLeft(LAMBDA done, part :
                 IF part = "/" /\ done # <<>> /\ Last(done) = "/"
                 THEN done ELSE Append(done, part),
             <<>>, path)
CanonicalPath(path) ==
    LET short == Collapsed(IF path = <<>> THEN <<"/">> ELSE path)
    IN  IF Len(short) > 1 /\ Last(short) = "/" THEN Front(short) ELSE short

(* The tracking parameters go, and the others are sorted.                  *)
Untracked(query) ==
    FoldLeft(LAMBDA done, p : IF p = 0 THEN done ELSE Append(done, p), <<>>, query)
CanonicalQuery(query) ==
    LET kept == Untracked(query)
        Before(i, j) == kept[i] < kept[j] \/ (kept[i] = kept[j] /\ i < j)
        order == CHOOSE p \in Bijection(DOMAIN kept, DOMAIN kept) :
                     \A i, j \in DOMAIN kept : i < j => Before(p[i], p[j])
    IN  [n \in DOMAIN kept |-> kept[order[n]]]

(* canonicalize, of a URL with a host; no port is 0, no URL is Unusable.   *)
Unusable == [scheme |-> "none"]
Canonical(url) ==
    IF url.scheme \notin {"http", "https"} THEN Unusable
    ELSE [scheme |-> url.scheme,
          port |-> IF url.port = DefaultPort(url.scheme) THEN 0 ELSE url.port,
          path |-> CanonicalPath(url.path),
          query |-> CanonicalQuery(url.query)]

(* What the two _parse have in common: items are kept in order.            *)
Parsed(provider, items, engines) ==
    FoldLeftDomain(
        LAMBDA done, n :
            LET url == Canonical(items[n].url)
            IN  IF \/ url = Unusable
                   \/ \E i \in DOMAIN done : done[i].url = url
                   \/ items[n].engine \notin engines
                THEN done
                ELSE Append(done, [url |-> url, rank |-> Len(done),
                                   provider |-> provider, from |-> n]),
        <<>>, items)
BraveParsed(items) == Parsed("brave", items, {"brave"})
SearXNGParsed(items) == Parsed("searxng", items, AllowedEngines)

(* Mutant: the ranks of SearXNG's results are kept.                        *)
MergedRanksKept(brave, searxng) ==
    FoldLeft(LAMBDA done, row :
                 IF \E i \in DOMAIN brave : brave[i].url = row.url
                 THEN done ELSE Append(done, row),
             brave, searxng)

(* _augment_with_searxng.                                                  *)
Merged(brave, searxng) ==
    FoldLeft(LAMBDA done, row :
                 IF \E i \in DOMAIN done : done[i].url = row.url
                 THEN done ELSE Append(done, [row EXCEPT !.rank = Len(done)]),
             brave, searxng)

Thin(brave) == Len(brave) < MinResults

(* _route and _cap_response, when a provider answered: up says which.      *)
Routed(up, brave, searxng) ==
    CASE "brave" \notin up -> searxng
      [] "brave" \in up /\ Thin(brave) /\ "searxng" \in up -> Merged(brave, searxng)
      [] OTHER -> brave
Cut(rows, max) == SubSeq(rows, 1, IF Len(rows) < max THEN Len(rows) ELSE max)

-----------------------------------------------------------------------------
(* "No two Result share canonicalize(url)", ranks are "0-based, provider   *)
(* order", Brave's results come first, SearXNG's only when those are too   *)
(* few; and an item of a provider that was asked is missing only when it   *)
(* is unusable, of another engine, a repetition, or past the cut.          *)
ResultsComplete(up, items, max, rows) ==
    LET Usable(p, n) ==
            /\ Canonical(items[p][n].url) # Unusable
            /\ p = "searxng" => items[p][n].engine \in AllowedEngines
        Pages(p) == {Canonical(items[p][n].url) : n \in {m \in DOMAIN items[p] : Usable(p, m)}}
        asked == up \ IF "brave" \in up /\ Cardinality(Pages("brave")) >= MinResults
                      THEN {"searxng"} ELSE {}
        shown == {Canonical(rows[i].url) : i \in DOMAIN rows}
        all == UNION {Pages(p) : p \in asked}
    IN  /\ Len(rows) <= max
        /\ Cardinality(shown) = Len(rows)
        /\ shown \subseteq all /\ (all \subseteq shown \/ Len(rows) = max)
        /\ \A i \in DOMAIN rows :
              /\ rows[i].rank = i - 1
              /\ rows[i].provider \in asked
              /\ Usable(rows[i].provider, rows[i].from)
              /\ rows[i].url = Canonical(items[rows[i].provider][rows[i].from].url)
              /\ \A j \in 1..(i - 1) :
                    \/ rows[j].provider = rows[i].provider /\ rows[j].from < rows[i].from
                    \/ rows[j].provider = "brave" /\ rows[i].provider = "searxng"
=============================================================================
