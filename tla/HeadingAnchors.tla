--------------------------- MODULE HeadingAnchors ---------------------------
(***************************************************************************)
(* The anchors of a rendered Markdown document (rendering.py): one heading *)
(* after another is given an id that its text and the headings before it   *)
(* decide, the sanitiser keeps the ids it finds safe, and the table of     *)
(* contents keeps the entries whose id is still on the page.               *)
(*                                                                         *)
(* A text is the sequence of words slugify makes of it; a word is one unit *)
(* long, joined to the one before it by a hyphen; a number that an author  *)
(* writes is below Ten, what has more digits being a word like any other,  *)
(* and the number of a repetition is two units from Ten on.  A heading     *)
(* written as raw HTML brings an id of its own.  Prose that spells out an  *)
(* id attribute is left out.                                               *)
(***************************************************************************)
EXTENDS Integers, SequencesExt, FiniteSets

CONSTANTS
  Docs,        \* documents: sequences of headings
  Words,       \* words that are no numbers
  Section,     \* the slug of a text of which nothing is left
  NoId,
  MaxBase,     \* the cut at 120 characters
  MaxAnchor,   \* the longest id that _SAFE_ANCHOR matches
  Ten,
  TocMaxLevel

Word == Words \union {Section} \union 0..(Ten - 1)
Token == Words \union {Section} \union Nat
Heading == [text: Seq(Word), level: 1..6, raw: BOOLEAN]

ASSUME AnchorsAssumption ==
  /\ Docs \subseteq Seq(Heading)
  /\ (Words \union {Section}) \intersect Nat = {}
  /\ NoId \notin Seq(Token)
  /\ {MaxBase, MaxAnchor, Ten} \subseteq Nat \ {0}
  /\ MaxBase < MaxAnchor   \* 120 with the prefix "h-", and 120 without it
  /\ TocMaxLevel \in Nat

VARIABLES
  doc,
  next,   \* the heading whose turn it is, Len(doc) + 1 after the last
  used,   \* how often each base was given out
  ids,    \* the id of each heading, NoId while it has none and when it is stripped
  toc,    \* the entries of the table of contents
  at,     \* "assign", "sanitize", "filter" or "done"
  nth     \* auxiliary: the heading is the nth repetition of its base

vars == <<doc, next, used, ids, toc, at, nth>>

Slug(text) == IF text = <<>> THEN <<Section>> ELSE text
\* Mutant: the cut leaves no room for the number of a repetition.
BaseCutLate(text) ==
  IF Len(Slug(text)) > MaxAnchor THEN SubSeq(Slug(text), 1, MaxAnchor) ELSE Slug(text)
Base(text) == IF Len(Slug(text)) > MaxBase THEN SubSeq(Slug(text), 1, MaxBase) ELSE Slug(text)
BaseOf(k) == Base(doc[k].text)

Anchor(base, seen) == IF seen = 0 THEN base ELSE Append(base, seen)

Size(anchor) ==
  Len(anchor) + Cardinality({i \in DOMAIN anchor : anchor[i] \in Nat /\ anchor[i] >= Ten})
Safe(anchor) == Size(anchor) <= MaxAnchor

Init ==
  /\ doc \in Docs
  /\ next = 1
  /\ used = [b \in {BaseOf(k) : k \in DOMAIN doc} |-> 0]
  /\ ids = [k \in DOMAIN doc |-> NoId]
  /\ nth = [k \in DOMAIN doc |-> 0]
  /\ toc = <<>> /\ at = "assign"

\* Mutant: repetitions are counted by the whole slug, the anchor is cut afterwards.
CountBySlug ==
  LET slug == Slug(doc[next].text)
      seen == IF slug \in DOMAIN used THEN used[slug] ELSE 0
      anchor == Anchor(BaseOf(next), seen)
  IN
  /\ at = "assign" /\ next <= Len(doc) /\ ~doc[next].raw
  /\ used' = [b \in DOMAIN used \union {slug} |-> IF b = slug THEN seen + 1 ELSE used[b]]
  /\ nth' = [nth EXCEPT ![next] = seen]
  /\ ids' = [ids EXCEPT ![next] = anchor]
  /\ toc' = IF doc[next].level <= TocMaxLevel
            THEN Append(toc, [heading |-> next, anchor |-> anchor]) ELSE toc
  /\ next' = next + 1
  /\ UNCHANGED <<doc, at>>

(* One turn of the loop of _assign_anchors. *)
AssignAnchor ==
  LET base == BaseOf(next) seen == used[base] anchor == Anchor(base, seen) IN
  /\ at = "assign" /\ next <= Len(doc) /\ ~doc[next].raw
  /\ used' = [used EXCEPT ![base] = seen + 1]
  /\ nth' = [nth EXCEPT ![next] = seen]
  /\ ids' = [ids EXCEPT ![next] = anchor]
  /\ toc' = IF doc[next].level <= TocMaxLevel
            THEN Append(toc, [heading |-> next, anchor |-> anchor]) ELSE toc
  /\ next' = next + 1
  /\ UNCHANGED <<doc, at>>

(* Raw HTML is no heading_open token: it keeps the id its author wrote. *)
PassRaw ==
  /\ at = "assign" /\ next <= Len(doc) /\ doc[next].raw
  /\ ids' = [ids EXCEPT ![next] = IF doc[next].text = <<>> THEN NoId ELSE doc[next].text]
  /\ next' = next + 1
  /\ UNCHANGED <<doc, used, toc, at, nth>>

Render ==
  /\ at = "assign" /\ next > Len(doc) /\ at' = "sanitize"
  /\ UNCHANGED <<doc, next, used, ids, toc, nth>>

(* sanitize_html, as far as the attribute filter looks at ids. *)
Sanitize ==
  /\ at = "sanitize" /\ at' = "filter"
  /\ ids' = [k \in DOMAIN doc |-> IF ids[k] # NoId /\ Safe(ids[k]) THEN ids[k] ELSE NoId]
  /\ UNCHANGED <<doc, next, used, toc, nth>>

\* Mutant: the table of contents is not looked through again.
FilterNothing == at = "filter" /\ at' = "done" /\ UNCHANGED <<doc, next, used, ids, toc, nth>>

OnPage(entry) == \E k \in DOMAIN doc : ids[k] = entry.anchor
Surviving(entries) ==
  LET upTo[i \in 0..Len(entries)] ==
        IF i = 0 THEN <<>>
        ELSE IF OnPage(entries[i]) THEN Append(upTo[i - 1], entries[i]) ELSE upTo[i - 1]
  IN  upTo[Len(entries)]

(* render_markdown: only the entries whose id the page still has. *)
FilterToc ==
  /\ at = "filter" /\ at' = "done"
  /\ toc' = Surviving(toc)
  /\ UNCHANGED <<doc, next, used, ids, nth>>

Finished == at = "done" /\ UNCHANGED vars
Next == AssignAnchor \/ PassRaw \/ Render \/ Sanitize \/ FilterToc \/ Finished
Spec == Init /\ [][Next]_vars

-----------------------------------------------------------------------------
AnchorType == Seq(Token)

(* Every variable keeps its type, and only a base of the document is counted; *)
(* what toc holds is for TocMatchesPage to say.                               *)
TypeOK ==
  /\ doc \in Docs /\ next \in 1..(Len(doc) + 1)
  /\ used \in [{BaseOf(k) : k \in DOMAIN doc} -> Nat]
  /\ ids \in [DOMAIN doc -> AnchorType \union {NoId}] /\ nth \in [DOMAIN doc -> Nat]
  /\ at \in {"assign", "sanitize", "filter", "done"}

(* No heading's base ends in a number, and none is written as raw HTML. *)
PlainDoc == \A k \in DOMAIN doc : ~doc[k].raw /\ Last(BaseOf(k)) \notin Nat
Distinct == \A j, k \in DOMAIN doc : ids[j] # NoId /\ ids[j] = ids[k] => j = k

(* "duplicate headings must get distinct anchors" (test_markdown_page.py:76),  *)
(* for every document whose headings do not themselves end in a number: the  *)
(* cut, the counting and the sanitiser never make two anchors one.           *)
PlainAnchorsUnique == PlainDoc => Distinct

(* "missing anchor target" (test_markdown_page.py:64): in the end the table of *)
(* contents has, in their order, exactly the headings down to TOC_MAX_LEVEL    *)
(* whose anchor a link can reach.                                              *)
TocMatchesPage ==
  at = "done" =>
    /\ \A e \in Range(toc) : \E k \in DOMAIN doc : ids[k] = e.anchor
    /\ \A i, j \in DOMAIN toc : i < j => toc[i].heading < toc[j].heading
    /\ \A k \in DOMAIN doc :
         ~doc[k].raw /\ doc[k].level <= TocMaxLevel /\ ids[k] # NoId =>
           \E e \in Range(toc) : e.heading = k /\ e.anchor = ids[k]

(* The cut at 120 (rendering.py:303) and the length _SAFE_ANCHOR allows agree: *)
(* however long its text, a heading keeps its anchor unless it repeats an      *)
(* earlier one for the tenth time or more.                                     *)
FirstTenKeepAnchors ==
  \A k \in DOMAIN doc : ~doc[k].raw /\ k < next /\ nth[k] < Ten => ids[k] # NoId

-----------------------------------------------------------------------------
(* The inductive invariant: what the headings passed so far were given. *)
Counted ==
  \A k \in DOMAIN doc :
    k < next /\ ~doc[k].raw =>
      /\ nth[k] < used[BaseOf(k)]
      /\ ids[k] \in {NoId, Anchor(BaseOf(k), nth[k])}
      /\ \A j \in DOMAIN doc : j < k /\ ~doc[j].raw /\ BaseOf(j) = BaseOf(k) => nth[j] < nth[k]

NotYet == \A k \in DOMAIN doc : k >= next => ids[k] = NoId

\* Only what is too long loses its anchor.
SafeAreKept ==
  \A k \in DOMAIN doc :
    k < next /\ ~doc[k].raw /\ Safe(Anchor(BaseOf(k), nth[k])) =>
      ids[k] = Anchor(BaseOf(k), nth[k])

AnchorsInv == TypeOK /\ Counted /\ NotYet /\ SafeAreKept

\* The entries so far: in order, and one for each heading that is to have one.
Entry == [heading: Nat, anchor: AnchorType]
Listed(k) == ~doc[k].raw /\ doc[k].level <= TocMaxLevel
Ascending(entries) == \A i, j \in DOMAIN entries : i < j => entries[i].heading < entries[j].heading
TocSoFar ==
  /\ toc \in Seq(Entry) /\ Ascending(toc)
  /\ \A i \in DOMAIN toc : LET k == toc[i].heading IN
       /\ k \in DOMAIN doc /\ k < next /\ Listed(k)
       /\ toc[i].anchor = Anchor(BaseOf(k), nth[k])
  /\ \A k \in DOMAIN doc : k < next /\ Listed(k) => \E i \in DOMAIN toc : toc[i].heading = k

TocInv ==
  /\ at # "assign" => next > Len(doc)
  /\ at # "done" => TocSoFar
  /\ TocMatchesPage
=============================================================================
