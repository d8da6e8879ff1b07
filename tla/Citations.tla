------------------------------ MODULE Citations ------------------------------
(***************************************************************************)
(* validate_citations of nexus/citations/engine.py over the normalisation  *)
(* of nexus/citations/normalize.py, which keeps for every normalised       *)
(* character the span of the original text it stands for.                  *)
(*                                                                         *)
(* Characters are a letter, its capital, both with a precomposed accent,   *)
(* the combining accent, a space and a line break.  Of the answer there is *)
(* the position of each claim's marker, -1 without one; of an envelope,    *)
(* the text of its two tags, none when the document has no envelope.       *)
(* A document's content_hash is its place in the dict; offsets are from 0. *)
(***************************************************************************)
EXTENDS Integers, Sequences, FiniteSets, SequencesExt

CONSTANTS
    MinQuote,  \* _MIN_QUOTE_LENGTH
    MaxQuote,  \* _MAX_QUOTE_LENGTH
    Alphabet,
    MaxText    \* bound: characters of a text

Chars == {"a", "A", "aacute", "Aacute", "accent", "space", "newline"}

ASSUME CitationAssumption ==
    /\ MinQuote \in Nat \ {0} /\ MaxQuote \in Nat
    /\ Alphabet \subseteq Chars /\ MaxText \in Nat

Texts == BoundedSeq(Alphabet, MaxText)
IsSpace(char) == char \in {"space", "newline"}
Lower(char) == CASE char = "A" -> "a" [] char = "Aacute" -> "aacute" [] OTHER -> char
Compose(char) == CASE char = "a" -> "aacute" [] char = "A" -> "Aacute"
Bytes(char) == IF char \in {"aacute", "Aacute", "accent"} THEN 2 ELSE 1

-----------------------------------------------------------------------------
(* unicodedata.normalize("NFC").                                           *)
NFC(text) ==
    FoldLeft(LAMBDA done, char :
                 IF char = "accent" /\ done # <<>> /\ Last(done) \in {"a", "A"}
                 THEN Append(Front(done), Compose(Last(done)))
                 ELSE Append(done, char),
             <<>>, text)

(* SequenceMatcher.find_longest_match: the longest block that a and b have *)
(* in common between these bounds, the first one in a, then in b.          *)
Blocks(a, b, r) ==
    {m \in [i : r.alo..(r.ahi - 1), j : r.blo..(r.bhi - 1), k : 1..Len(b)] :
        /\ m.i + m.k <= r.ahi /\ m.j + m.k <= r.bhi
        /\ SubSeq(a, m.i + 1, m.i + m.k) = SubSeq(b, m.j + 1, m.j + m.k)}
Longest(blocks) == CHOOSE m \in blocks : \A n \in blocks :
    \/ m.k > n.k
    \/ m.k = n.k /\ (m.i < n.i \/ (m.i = n.i /\ m.j <= n.j))

(* _build_nfc_spans: a character of an equal block has the span of its     *)
(* equal, one of a replacement that of all it replaces, an inserted one    *)
(* that of the character it stands before.                                 *)
NfcSpans(text, nfc) ==
    LET Regions == [alo : 0..Len(text), ahi : 0..Len(text), blo : 0..Len(nfc), bhi : 0..Len(nfc)]
        Between(r) ==
            LET end == IF r.alo = r.ahi /\ r.alo < Len(text) THEN r.alo + 1 ELSE r.ahi
            IN  [n \in 1..(r.bhi - r.blo) |-> <<r.alo, end>>]
        spans[r \in Regions] ==
            LET blocks == Blocks(text, nfc, r)
                m == Longest(blocks)
            IN  IF blocks = {} THEN Between(r)
                ELSE spans[[r EXCEPT !.ahi = m.i, !.bhi = m.j]]
                     \o [n \in 1..m.k |-> <<m.i + n - 1, m.i + n>>]
                     \o spans[[r EXCEPT !.alo = m.i + m.k, !.blo = m.j + m.k]]
    IN  spans[[alo |-> 0, ahi |-> Len(text), blo |-> 0, bhi |-> Len(nfc)]]

(* normalize_for_match: runs of white space become one space, letters      *)
(* lower case; every character with its span.                              *)
Normalized == [text \in Texts |->
    LET nfc == NFC(text)
        spans == NfcSpans(text, nfc)
    IN  FoldLeftDomain(LAMBDA done, i :
            IF ~IsSpace(nfc[i])
            THEN Append(done, [char |-> Lower(nfc[i]), from |-> spans[i][1], to |-> spans[i][2]])
            ELSE IF done # <<>> /\ Last(done).char = "space"
            THEN Append(Front(done), [Last(done) EXCEPT !.to = spans[i][2]])
            ELSE Append(done, [char |-> "space", from |-> spans[i][1], to |-> spans[i][2]]),
        <<>>, nfc)]
Plain == [text \in Texts |-> [i \in DOMAIN Normalized[text] |-> Normalized[text][i].char]]

(* str.find.                                                               *)
Occurrences(part, whole) ==
    {n \in 0..(Len(whole) - Len(part)) : SubSeq(whole, n + 1, n + Len(part)) = part}
Find(part, whole) ==
    LET at == Occurrences(part, whole)
    IN  IF at = {} THEN -1 ELSE CHOOSE n \in at : \A m \in at : n <= m

(* _build_byte_offsets, at a character.                                    *)
ByteOffset(text, n) == FoldLeft(LAMBDA total, char : total + Bytes(char), 0, SubSeq(text, 1, n))

(* Mutant: the end is the start of the last character, not its end.        *)
SliceEndsEarly(text, start, end) ==
    LET norm == Normalized[text]
    IN  <<ByteOffset(text, norm[start + 1].from), ByteOffset(text, norm[end].from)>>

(* slice_to_byte_offsets.                                                  *)
Slice(text, start, end) ==
    LET norm == Normalized[text]
    IN  <<ByteOffset(text, norm[start + 1].from), ByteOffset(text, norm[end].to)>>

(* The characters of the text whose bytes are in the slice.                *)
CharsUntil(text, byte) == Cardinality({i \in DOMAIN text : ByteOffset(text, i) <= byte})
Decode(text, slice) == SubSeq(text, CharsUntil(text, slice[1]) + 1, CharsUntil(text, slice[2]))

-----------------------------------------------------------------------------
(* Where an item's quote is in its document, -1 if nowhere.                *)
Match(item, docs) ==
    IF item.hash \in DOMAIN docs
    THEN Find(Plain[item.quote], Plain[docs[item.hash].text]) ELSE -1

(* The reason to reject an item, or "none".                                *)
Reason(answer, item, docs) ==
    IF item.hash \notin DOMAIN docs THEN "unknown_document"
    ELSE LET doc == docs[item.hash]
         IN  CASE Len(item.quote) < MinQuote -> "quote_too_short"
               [] Len(item.quote) > MaxQuote -> "quote_too_long"
               [] Match(item, docs) < 0 -> "quote_not_found"
               [] answer[item.claim] < 0 -> "claim_unmatched"
               [] Find(Plain[item.quote], Plain[doc.tags]) >= 0 -> "envelope_violation"
               [] OTHER -> "none"

(* raw (history): which item the citation is of.                           *)
Cite(n, start, raw, docs) ==
    LET text == docs[raw[n].hash].text
        slice == Slice(text, start, start + Len(Plain[raw[n].quote]))
    IN  [hash |-> raw[n].hash, byte_start |-> slice[1], byte_end |-> slice[2],
         quote |-> Decode(text, slice), claim |-> raw[n].claim, raw |-> n]

(* Mutant: citations are sorted by document before claim.                  *)
SortKeyByDocument(answer, c) == <<c.hash, answer[c.claim], Len(c.quote)>>
SortKey(answer, c) == <<answer[c.claim], c.hash, Len(c.quote)>>

KeyLess(v, w) == \E n \in DOMAIN v : v[n] < w[n] /\ \A m \in 1..(n - 1) : v[m] = w[m]

(* The loop of validate_citations: an item is rejected or cited.           *)
Judged(answer, raw, docs) ==
    [n \in DOMAIN raw |-> [raw |-> n, start |-> Match(raw[n], docs),
                           reason |-> Reason(answer, raw[n], docs)]]
Filed(judged, good) ==
    FoldLeft(LAMBDA done, x :
                 IF x.reason = "none" <=> good THEN Append(done, x) ELSE done,
             <<>>, judged)
Rejected(judged) == Filed(judged, FALSE)
Cited(raw, docs, judged) ==
    LET good == Filed(judged, TRUE)
    IN  [n \in DOMAIN good |-> Cite(good[n].raw, good[n].start, raw, docs)]

(* Its end, a stable sort.                                                 *)
Sorted(answer, cited) ==
    LET Key(i) == SortKey(answer, cited[i])
        Before(i, j) == KeyLess(Key(i), Key(j)) \/ (Key(i) = Key(j) /\ i < j)
        order == CHOOSE p \in Bijection(DOMAIN cited, DOMAIN cited) :
                     \A i, j \in DOMAIN cited : i < j => Before(p[i], p[j])
    IN  [n \in DOMAIN cited |-> cited[order[n]]]

-----------------------------------------------------------------------------
(* The slice of the document normalises to what the model quoted.          *)
Covers(text, quote, c) == Plain[Decode(text, <<c.byte_start, c.byte_end>>)] = Plain[quote]

(* "byte_start < byte_end <= len(document.markdown.encode())" and the      *)
(* slice is what the model quoted, in text that is in composed form.  Where *)
(* something was composed the slice still lies within the document, but    *)
(* may be another part of it, or (in 7 characters and more) be empty: the  *)
(* characters that the diff takes to be inserted have no span.             *)
OffsetsSound(raw, docs, result) == \A n \in DOMAIN result.valid :
    LET c == result.valid[n]
        text == docs[c.hash].text
    IN  /\ 0 <= c.byte_start /\ c.byte_start <= c.byte_end
        /\ c.byte_end <= ByteOffset(text, Len(text))
        /\ NFC(text) = text => c.byte_start < c.byte_end /\ Covers(text, raw[c.raw].quote, c)

(* "Rejected citations are never silently dropped": every item is either   *)
(* valid or rejected, once, and only for a defect it has.  The valid ones  *)
(* are grouped by claim in the order of the answer, within a claim by      *)
(* document, and the rejected ones are in the order they came.             *)
AllClassified(answer, raw, docs, result) ==
    LET Sound(n) ==
            /\ raw[n].hash \in DOMAIN docs
            /\ Len(raw[n].quote) \in MinQuote..MaxQuote
            /\ answer[raw[n].claim] >= 0
            /\ Occurrences(Plain[raw[n].quote], Plain[docs[raw[n].hash].text]) # {}
            /\ Occurrences(Plain[raw[n].quote], Plain[docs[raw[n].hash].tags]) = {}
        Raws(list) == [n \in DOMAIN list |-> list[n].raw]
        valid == Raws(result.valid)
        rejected == Raws(result.rejected)
    IN  /\ Len(valid) + Len(rejected) = Len(raw)
        /\ {valid[n] : n \in DOMAIN valid} = {n \in DOMAIN raw : Sound(n)}
        /\ {rejected[n] : n \in DOMAIN rejected} = {n \in DOMAIN raw : ~Sound(n)}
        /\ \A n \in DOMAIN rejected : \A m \in 1..(n - 1) : rejected[m] < rejected[n]
        /\ \A n \in DOMAIN valid : \A m \in 1..(n - 1) :
              LET x == raw[valid[m]]
                  y == raw[valid[n]]
              IN  \/ answer[x.claim] < answer[y.claim]
                  \/ answer[x.claim] = answer[y.claim] /\ x.hash <= y.hash
=============================================================================
