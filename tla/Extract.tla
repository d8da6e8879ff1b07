------------------------------- MODULE Extract -------------------------------
(***************************************************************************)
(* The extractor of nexus/crawl/extract.py: which text of an HTML document *)
(* reaches the markdown.  html.parser calls one handler per start tag, end *)
(* tag and piece of text of a well-formed document, in which some start    *)
(* tags have no end tag (img, br, or li whose end is left out).            *)
(*                                                                         *)
(* Only what suppresses text is kept: layout and attribute syntax are not. *)
(***************************************************************************)
EXTENDS Sequences, SequencesExt

CONSTANTS
    Tags,
    DropTags,  \* _DROP_CONTENT_TAGS
    MaxDepth   \* bound: elements open at once

ASSUME ExtractAssumption == DropTags \subseteq Tags

VARIABLES
    dom,       \* the document's open elements, outermost first
    suppress,  \* _suppress_stack
    unclosed   \* history: a hidden start tag had no end tag

extractVars == <<dom, suppress, unclosed>>

(* leaky (history): a plain element of its name was closed inside it.      *)
Elements == [tag : Tags, hidden : BOOLEAN, leaky : BOOLEAN]

ExtractInit ==
    /\ dom = <<>>
    /\ suppress = <<>>
    /\ unclosed = FALSE

-----------------------------------------------------------------------------
Dropped(tag, hidden) == tag \in DropTags \/ hidden

(* Mutant: elements inside a suppressed one are not looked at.             *)
StartTagOutermost(tag, hidden) ==
    suppress' = IF suppress = <<>> /\ Dropped(tag, hidden) THEN <<tag>> ELSE suppress

(* handle_starttag: a hidden or dropped element suppresses what follows,   *)
(* also inside another one.                                                *)
StartTag(tag, hidden) ==
    suppress' = IF Dropped(tag, hidden) THEN Append(suppress, tag) ELSE suppress

(* handle_endtag: the end tag is matched by name with the innermost        *)
(* suppressing element.                                                    *)
EndTag(tag) ==
    suppress' = IF suppress # <<>> /\ Last(suppress) = tag THEN Front(suppress) ELSE suppress

(* handle_data: text is kept unless something suppresses it.               *)
Kept == suppress = <<>>

Open(tag, hidden) ==
    /\ Len(dom) < MaxDepth
    /\ dom' = Append(dom, [tag |-> tag, hidden |-> Dropped(tag, hidden), leaky |-> FALSE])
    /\ StartTag(tag, hidden)
    /\ UNCHANGED unclosed

Shut ==
    /\ dom # <<>>
    /\ LET e == Last(dom)
       IN  /\ dom' = [i \in 1..(Len(dom) - 1) |->
                 [dom[i] EXCEPT !.leaky = @ \/ (dom[i].tag = e.tag /\ ~e.hidden)]]
           /\ EndTag(e.tag)
    /\ UNCHANGED unclosed

(* A start tag without an end tag; the length of the stack is bounded.     *)
Void(tag, hidden) ==
    /\ Len(suppress) < MaxDepth
    /\ StartTag(tag, hidden)
    /\ unclosed' = (unclosed \/ Dropped(tag, hidden))
    /\ UNCHANGED dom

ExtractNext ==
    \/ \E tag \in Tags, hidden \in BOOLEAN : Open(tag, hidden) \/ Void(tag, hidden)
    \/ Shut

-----------------------------------------------------------------------------
(* "Drops the content that must never reach the LLM", and no other: text   *)
(* inside a hidden element is dropped, however elements nest around it,    *)
(* unless a plain element of that name was closed inside; text outside all *)
(* of them is kept, unless a hidden start tag had no end tag.              *)
SuppressionExact ==
    /\ (\E i \in DOMAIN dom : dom[i].hidden /\ ~dom[i].leaky) => ~Kept
    /\ (\A i \in DOMAIN dom : ~dom[i].hidden) /\ ~unclosed => Kept
=============================================================================
