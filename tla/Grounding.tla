------------------------------ MODULE Grounding ------------------------------
(***************************************************************************)
(* The functions an answer's grounding goes through, each on every input   *)
(* of a small set: the results of a search, their rerank, the extraction   *)
(* of a page (handler by handler) and the validation of citations.         *)
(***************************************************************************)
EXTENDS SearchResults, Rerank, Extract, Citations

CONSTANTS
    Jobs,         \* which of the functions
    MaxItems,     \* items of a search provider
    Sites,        \* every site has a page,
    LargeSites,   \* these have two
    MaxResults,   \* candidates of a rerank
    MaxQuoted,    \* characters of a quote
    Claims

ASSUME GroundingAssumption ==
    /\ Claims # {} /\ MaxItems \in Nat
    /\ MaxQuoted \in 0..MaxText
    /\ {"a", "A"} \subseteq Alphabet /\ MaxText >= 3  \* the texts of TwoCitations

VARIABLES job, in, out

vars == <<extractVars, job, in, out>>

(* What the call returned, if it has.                                      *)
Pending == [done |-> FALSE, value |-> <<>>]
Return(value) == out' = [done |-> TRUE, value |-> value]

(* Three spellings of a page, two of another, one of a third, and no page. *)
Url(scheme, port, path, query) ==
    [scheme |-> scheme, port |-> port, path |-> path, query |-> query]
Spellings ==
    {Url("http", 0, <<"/", "a">>, <<1, 2>>),
     Url("http", 80, <<"/", "/", "a">>, <<2, 0, 1>>),
     Url("http", 0, <<"/", "a", "/", "/">>, <<2, 1>>),
     Url("https", 443, <<>>, <<0>>),
     Url("https", 0, <<"/", "/">>, <<>>),
     Url("https", 80, <<"/">>, <<>>),
     Url("ftp", 0, <<"/", "a">>, <<>>)}
Found(engines) == BoundedSeq([url : Spellings, engine : engines], MaxItems)
Searches ==
    [up : (SUBSET {"brave", "searxng"}) \ {{}},
     items : [brave : Found({"brave"}), searxng : Found({"google", "other"})],
     max : 1..(MaxItems + 1)]

Pages == (Sites \X {1}) \cup (LargeSites \X {2})
Results == {[key |-> p, domain |-> p[1], words |-> w] : p \in Pages, w \in SUBSET Words}
Rerankings ==
    [query : {{}, Words}, candidates : BoundedSeq(Results, MaxResults)]

Document(text, tags) == [text |-> text, tags |-> tags]
(* One item on any document, which may cite what its envelope says too ... *)
OneCitation ==
    {[answer |-> [c \in Claims |-> 0],
      raw |-> <<[hash |-> 1, quote |-> quote, claim |-> CHOOSE c \in Claims : TRUE]>>,
      docs |-> <<Document(text, <<>>)>>] :
        text \in Texts, quote \in BoundedSeq(Alphabet, MaxQuoted)}
(* ... and two items on two documents and one unknown one.                 *)
TwoCitations ==
    LET Quotes == {<<"a">>, <<"A", "a">>, <<"a", "a", "a">>}
        Items == [hash : 1..3, quote : Quotes, claim : Claims]
    IN  [answer : [Claims -> -1..1],
         raw : [1..2 -> Items],
         docs : {<<Document(<<"a", "A">>, <<>>), Document(<<"a", "a", "a">>, tags)>> :
                    tags \in {<<>>, <<"a">>}}]
Validations == OneCitation \cup TwoCitations

Init ==
    /\ ExtractInit
    /\ job \in Jobs
    /\ in \in CASE job = "extract" -> {<<>>}
                [] job = "search" -> Searches
                [] job = "rerank" -> Rerankings
                [] job = "cite" -> Validations
    /\ out = Pending

ExtractStep ==
    /\ job = "extract"
    /\ ExtractNext
    /\ UNCHANGED <<job, in, out>>

Route ==
    /\ job = "search" /\ ~out.done
    /\ \E brave \in {BraveParsed(in.items.brave)}, searxng \in {SearXNGParsed(in.items.searxng)} :
          Return(Cut(Routed(in.up, brave, searxng), in.max))
    /\ UNCHANGED <<extractVars, job, in>>

Rerank ==
    /\ job = "rerank" /\ ~out.done
    /\ Return(Reranked(in.query, in.candidates))
    /\ UNCHANGED <<extractVars, job, in>>

Validate ==
    /\ job = "cite" /\ ~out.done
    /\ \E judged \in {Judged(in.answer, in.raw, in.docs)} :
       \E cited \in {Cited(in.raw, in.docs, judged)} :
          Return([valid |-> Sorted(in.answer, cited), rejected |-> Rejected(judged)])
    /\ UNCHANGED <<extractVars, job, in>>

Next == Route \/ Rerank \/ ExtractStep \/ Validate

Spec == Init /\ [][Next]_vars

-----------------------------------------------------------------------------
Returned(j) == job = j /\ out.done

(* A search returns every page its providers found, once, in the          *)
(* documented order, up to the cut (ResultsComplete).                      *)
SearchComplete == Returned("search") => ResultsComplete(in.up, in.items, in.max, out.value)

(* The results handed to the crawl are in order, without repeated pages or *)
(* near-duplicates, few of any domain (RankingSound), and no candidate was *)
(* left out without a better one that displaced it (RankingJustified).     *)
RerankExact == Returned("rerank") =>
    /\ RankingSound(in.query, in.candidates, out.value)
    /\ RankingJustified(in.query, in.candidates, out.value)

(* The offsets of a valid citation lie within its document, and of         *)
(* composed text they are exactly what was quoted (OffsetsSound).          *)
CitationsSliced == Returned("cite") => OffsetsSound(in.raw, in.docs, out.value)

(* No item is lost, accepted with a defect or rejected without one, and    *)
(* the citations follow the answer (AllClassified).                        *)
CitationsClassified == Returned("cite") => AllClassified(in.answer, in.raw, in.docs, out.value)

(* "Map the matched normalized span back to byte offsets in the original": *)
(* the slice normalises to what was quoted, for decomposed text too.       *)
QuoteIsSlice == Returned("cite") =>
    \A n \in DOMAIN out.value.valid :
        LET c == out.value.valid[n]
        IN  Covers(in.docs[c.hash].text, in.raw[c.raw].quote, c)
=============================================================================
