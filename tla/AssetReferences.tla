--------------------------- MODULE AssetReferences ---------------------------
(***************************************************************************)
(* What becomes of a reference that a document makes to a file published   *)
(* beside it: the sanitiser of a Markdown page rewrites it (rendering.py), *)
(* the browser resolves it against the address of the page, and one of the *)
(* asset routes serves it or does not (routers/viewer.py, assets.py).  One *)
(* artifact is shown on four pages: "viewed" and "shared" hold rendered    *)
(* Markdown, "framed" and "sharedFrame" are the HTML document itself, in a *)
(* frame that sends no cookie.                                             *)
(*                                                                         *)
(* A path is the sequence of what stands between its slashes.  Queries and *)
(* fragments travel along and decide nothing; no segment is percent-coded. *)
(* A document cannot spell its own id or a token, which are drawn after it *)
(* is written.                                                             *)
(***************************************************************************)
EXTENDS Naturals, SequencesExt

CONSTANTS
  Written,    \* what documents write between slashes (see Reference)
  MaxPath,    \* bound: the longest path a document writes
  SafeNames,  \* of those, the names that is_safe_asset_name accepts
  Attached,   \* artifact -> the names of its assets
  Own,        \* the artifact on the page
  Share, FrameToken, ShareToken,
  Nothing

Blank == ""   \* what stands behind a slash at the end
Pages == {"viewed", "framed", "shared", "sharedFrame"}
Markdown == {"viewed", "shared"}
Paths == UNION {[1..n -> Written] : n \in 0..MaxPath}
\* "relative" and "rooted" are references to this service, "image" and "data" data: URLs.
Reference ==
  {r \in [kind: {"relative", "rooted"}, attribute: {"src", "href"}, path: Paths] :
     r.path # <<>> => r.path[1] # Blank}
  \union [kind: {"external", "image", "data"}, attribute: {"src", "href"}, path: {<<>>}]

\* A reference as it was written, or as the sanitiser rewrites it.
Link ==
  [kind: {"relative", "rooted", "external", "image", "data"}, attribute: {"src", "href"},
   path: Seq(Written \union {"a", "s", "assets", Own, Share})]

ASSUME ReferencesAssumption ==
  /\ MaxPath \in Nat
  /\ SafeNames \subseteq Written /\ SafeNames \intersect {Blank, ".", ".."} = {}
  /\ Own \in DOMAIN Attached
  /\ {Own, Share, FrameToken, ShareToken} \intersect (Written \union {Blank, ".", ".."}) = {}
  /\ \A a \in DOMAIN Attached : Attached[a] \subseteq SafeNames
  /\ Nothing \notin Link

VARIABLES
  page,      \* where the document is shown
  written,   \* the reference as its author wrote it
  ref,       \* as the browser gets it, Nothing when the attribute was dropped
  url,       \* the path the browser asks for
  answer,    \* the asset it was given
  stage      \* "write", "browser", "route" or "answered"

refVars == <<page, written, ref, url, answer, stage>>

-----------------------------------------------------------------------------
IsSafeAssetName(path) == Len(path) = 1 /\ path[1] \in SafeNames

RemovePrefix(path, segment) ==
  IF Len(path) > 1 /\ path[1] = segment THEN Tail(path) ELSE path

AssetBase(p) == IF p = "viewed" THEN <<"a", Own, "assets">> ELSE <<"s", Share, "assets">>

\* Mutant: the directories of a nested path are ignored.
ResolveBaseName(r, p) ==
  IF r.kind = "relative" /\ r.path # <<>> /\ Last(r.path) \in SafeNames
  THEN [r EXCEPT !.kind = "rooted", !.path = Append(AssetBase(p), Last(r.path))]
  ELSE r

(* What is no flat, safe name stays as it was. *)
ResolveAssetReference(r, p) ==
  LET candidate == RemovePrefix(RemovePrefix(r.path, "."), "assets") IN
  IF r.kind = "relative" /\ IsSafeAssetName(candidate)
  THEN [r EXCEPT !.kind = "rooted", !.path = AssetBase(p) \o candidate]
  ELSE r

AttributeFilter(r, p) ==
  IF r.kind = "data" \/ (r.kind = "image" /\ r.attribute # "src") THEN Nothing
  ELSE ResolveAssetReference(r, p)

(* A frame is given the document as it was published. *)
Shown(r, p) == IF p \in Markdown THEN AttributeFilter(r, p) ELSE r

-----------------------------------------------------------------------------
\* Mutant: the capability path is no directory.
AddressWithoutSlash(p) ==
  CASE p = "viewed"      -> <<"a", Own>>
    [] p = "shared"      -> <<"s", Share>>
    [] p = "framed"      -> <<"embed", Own, FrameToken>>
    [] p = "sharedFrame" -> <<"s", Share, "embed", ShareToken>>
Address(p) ==
  CASE p = "viewed"      -> <<"a", Own>>
    [] p = "shared"      -> <<"s", Share>>
    [] p = "framed"      -> <<"embed", Own, FrameToken, Blank>>
    [] p = "sharedFrame" -> <<"s", Share, "embed", ShareToken, Blank>>

(* The browser: dots are taken out of a path, and leave a slash at its end. *)
Undot(done, segment) ==
  CASE segment = "."  -> done
    [] segment = ".." -> IF done = <<>> THEN done ELSE Front(done)
    [] OTHER          -> Append(done, segment)
Undotted(path) ==
  LET upTo[i \in 0..Len(path)] == IF i = 0 THEN <<>> ELSE Undot(upTo[i - 1], path[i])
  IN  upTo[Len(path)]
RemoveDots(path) ==
  IF path # <<>> /\ Last(path) \in {".", ".."}
  THEN Append(Undotted(path), Blank) ELSE Undotted(path)

Resolved(r, p) ==
  IF r.kind = "rooted" THEN RemoveDots(r.path)
  ELSE IF r.path = <<>> THEN Address(p)
  ELSE RemoveDots(Front(Address(p)) \o r.path)

-----------------------------------------------------------------------------
Registered(a, x) == IsSafeAssetName(<<x>>) /\ x \in Attached[a]

\* Mutant: the session is not asked for.
ViewAssetForAll(u, p, a, x) == u = <<"a", a, "assets", x>> /\ Registered(a, x)
(* view_asset: the viewer's cookie goes with every request of his pages. *)
ViewAsset(u, p, a, x) == p = "viewed" /\ u = <<"a", a, "assets", x>> /\ Registered(a, x)

(* shared_asset: the cookie of a share goes with what lies below its path. *)
SharedAsset(u, p, a, x) ==
  p = "shared" /\ a = Own /\ u = <<"s", Share, "assets", x>> /\ Registered(a, x)

\* Below assets/, or bare; an address with slashes too many is redirected to the bare one.
Below(u, prefix, x) ==
  \/ u = prefix \o <<"assets", x>>
  \/ u = Append(prefix, x)
  \/ x # "assets" /\ \E k \in 1..MaxPath : u = Append(prefix, x) \o [i \in 1..k |-> Blank]

(* The two routes of a frame, which the token in the path opens, and their   *)
(* twins for a frame of a share.                                             *)
EmbedAsset(u, a, x) == a = Own /\ Registered(a, x) /\ Below(u, <<"embed", Own, FrameToken>>, x)
SharedEmbedAsset(u, a, x) ==
  a = Own /\ Registered(a, x) /\ Below(u, <<"s", Share, "embed", ShareToken>>, x)

Asset == UNION {[artifact: {a}, name: SafeNames] : a \in DOMAIN Attached}
Served(u, p) ==
  {asset \in Asset : LET a == asset.artifact x == asset.name IN
                       \/ ViewAsset(u, p, a, x) \/ SharedAsset(u, p, a, x)
                       \/ EmbedAsset(u, a, x) \/ SharedEmbedAsset(u, a, x)}

-----------------------------------------------------------------------------
RefInit ==
  /\ page \in Pages /\ written \in Reference
  /\ ref = written /\ url = <<>> /\ answer = Nothing /\ stage = "write"

(* view_artifact and share_landing, or embed_document and its shared twin. *)
Show ==
  /\ stage = "write" /\ stage' = "browser"
  /\ ref' = Shown(written, page)
  /\ UNCHANGED <<page, written, url, answer>>

(* Only what is left, and names this service, is asked of it. *)
Request ==
  /\ stage = "browser"
  /\ IF ref # Nothing /\ ref.kind \in {"relative", "rooted"}
     THEN url' = Resolved(ref, page) /\ stage' = "route"
     ELSE stage' = "answered" /\ UNCHANGED url
  /\ UNCHANGED <<page, written, ref, answer>>

Respond ==
  /\ stage = "route" /\ stage' = "answered"
  /\ answer' \in IF Served(url, page) = {} THEN {Nothing} ELSE Served(url, page)
  /\ UNCHANGED <<page, written, ref, url>>

Shipped == stage = "answered" /\ UNCHANGED refVars
RefNext == Show \/ Request \/ Respond \/ Shipped
RefSpec == RefInit /\ [][RefNext]_refVars

-----------------------------------------------------------------------------
(* Every variable keeps its type; only what is registered is ever answered. *)
ReferencesTypeOK ==
  /\ page \in Pages /\ written \in Reference /\ stage \in {"write", "browser", "route", "answered"}
  /\ answer # Nothing => answer \in Asset /\ answer.name \in Attached[answer.artifact]

(* "Both spellings are how people actually write Markdown next to their        *)
(* attachments, so both are accepted" (rendering.py:166), and viewer.py:513    *)
(* promises the bare one for HTML: an attached file written as x, ./x,         *)
(* assets/x or ./assets/x is served on all four pages.                         *)
EverySpellingServes ==
  stage = "answered" /\ written.kind = "relative" =>
    \A x \in Attached[Own] :
      written.path \in {<<x>>, <<".", x>>, <<"assets", x>>, <<".", "assets", x>>} =>
        answer = [artifact |-> Own, name |-> x]

(* A share and a frame show one artifact: whatever its document refers to,     *)
(* with however many dots, no file of another artifact comes back, and on no   *)
(* page one that is not registered.                                            *)
OwnAssetsOnly ==
  /\ ReferencesTypeOK
  /\ page # "viewed" /\ answer # Nothing => answer.artifact = Own

(* The two renderers agree: a reference without a dot segment but a leading    *)
(* one, and without an empty segment, gets the same asset of the artifact on   *)
(* every page it can be shown on, or on none.                                  *)
Plain(r) ==
  /\ r.kind = "relative"
  /\ \A i \in DOMAIN r.path :
       r.path[i] \notin {Blank, ".."} /\ (r.path[i] = "." => i = 1 /\ Len(r.path) > 1)
OwnAsset(r, p) == {asset \in Served(Resolved(Shown(r, p), p), p) : asset.artifact = Own}
PagesAgree ==
  stage = "answered" /\ Plain(written) =>
    \A p \in Pages : OwnAsset(written, p) = OwnAsset(written, page)

-----------------------------------------------------------------------------
(* The inductive invariant: each stage has what the one before it made. *)
Asked(r, p) == Resolved(Shown(r, p), p)
RefInv ==
  /\ page \in Pages /\ written \in Reference /\ stage \in {"write", "browser", "route", "answered"}
  /\ stage = "browser" => ref = Shown(written, page)
  /\ stage = "route" => url = Asked(written, page)
  /\ stage # "answered" => answer = Nothing
  /\ stage = "answered" =>
       \/ answer \in Served(Asked(written, page), page)
       \/ answer = Nothing /\ (written.kind = "relative" => Served(Asked(written, page), page) = {})
=============================================================================
