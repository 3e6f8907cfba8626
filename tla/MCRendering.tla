---------------------------- MODULE MCRendering ----------------------------
(***************************************************************************)
(* A page is rendered, then its references are followed.  A document here  *)
(* has headings or one reference, never both: neither pass looks at what   *)
(* the other does.                                                         *)
(***************************************************************************)
EXTENDS HeadingAnchors, AssetReferences

CONSTANTS wa, wb

Md(text, level) == [text |-> text, level |-> level, raw |-> FALSE]
RawHtml(id) == [text |-> id, level |-> 2, raw |-> TRUE]

\* Texts around the cut at two words, empty ones, and ones that end in a number.
SomeHeadings ==
  {Md(<<>>, 1), Md(<<wa>>, 1), Md(<<wa>>, 5), Md(<<wb>>, 2), Md(<<wa, wb>>, 2), Md(<<wa, wb, wa>>, 3),
   Md(<<wa, 1>>, 2), Md(<<wa, wb, 1>>, 4), RawHtml(<<wa>>), RawHtml(<<wa, wb, wa, wb>>), RawHtml(<<>>)}
MCDocs == UNION {[1..n -> SomeHeadings] : n \in 0..4}

\* Two artifacts, one with two files, one of them called "assets".
MCWritten == {"", ".", "..", "a", "assets", "x", ".x", "other"}
MCSafeNames == {"a", "assets", "x", "other"}
MCAttached == [own |-> {"x", "assets"}, other |-> {"x"}]

NoReference == [kind |-> "external", attribute |-> "href", path |-> <<>>]

RenderInit ==
  \/ doc = <<>> /\ Init /\ RefInit
  \/ page = "viewed" /\ written = NoReference /\ Init /\ RefInit
RenderNext ==
  \/ Next /\ UNCHANGED refVars
  \/ at = "done" /\ RefNext /\ UNCHANGED vars
RenderSpec == RenderInit /\ [][RenderNext]_<<vars, refVars>>
=============================================================================
