---------------------------- MODULE ShareAccess ----------------------------
(***************************************************************************)
(* Who gets to see an artifact: share links, share cookies, iframe tokens. *)
(*                                                                         *)
(* A viewer with a session creates and revokes links.  A visitor redeems a *)
(* link's secret for a cookie; with the cookie the landing page shows a    *)
(* Markdown artifact, or hands out a token for the iframe of an HTML one.  *)
(* The viewer's own page hands out a capability for its iframe.  Cookies,  *)
(* tokens and capabilities are signed and dated but stored nowhere, so     *)
(* nothing can be taken back: every request checks the rows again.         *)
(*                                                                         *)
(* A handler reads share_links, then artifacts, then the bytes, each with  *)
(* a connection of its own, so each read is a step, and links end, and     *)
(* artifacts go, between any two.                                          *)
(***************************************************************************)
EXTENDS Integers, FiniteSets

CONSTANTS
    Arts,         \* artifacts, all published at the start
    Shares,       \* ids of share links: random, never drawn twice
    Threads,      \* requests being served
    None,         \* no value
    ShareDays,    \* expires_days of a link, in ticks; 0 is a link without end
    ArtLife,      \* expires_at an artifact may have, besides none
    CookieTtl,    \* session_ttl_days
    EmbedTtl,     \* embed_token_ttl_seconds
    MaxTime,      \* bound of the model: last tick of the clock
    MaxRestarts   \* bound of the model: restarts in a behaviour

ASSUME ShareAssumption ==
    /\ ShareDays \subseteq Nat /\ ArtLife \subseteq Nat
    /\ CookieTtl \in Nat /\ EmbedTtl \in Nat
    /\ MaxTime \in Nat /\ MaxRestarts \in Nat
    /\ None \notin Nat \cup Arts \cup Shares

VARIABLES
    now,         \* wall clock
    restarts,
    enabled,     \* share_links_enabled of the running process
    secretKey,   \* which session_secret_key it runs with
    arts,        \* ids with a row in table artifacts
    expiry,      \* expires_at of each artifact, or None
    format,      \* format of each artifact
    links,       \* the row of each id in share_links, or None
    drawn,       \* ids of links drawn so far
    held,        \* secrets, cookies, tokens and capabilities handed out
    req          \* the request each thread serves, or None

db   == <<arts, links, drawn>>
proc == <<restarts, enabled, secretKey>>
fixed == <<expiry, format>>
vars == <<now, proc, fixed, db, held, req>>

Dates == Nat

Link == [art : Arts, expires : Dates \cup {None}, revoked : Dates \cup {None}]

\* What the holder of a URL or a cookie can present.  A secret is not dated: its
\* hash is in the row.
Credential ==
    [kind : {"secret", "cookie", "token", "capability"}, share : Shares \cup {None},
     art : Arts \cup {None}, at : 0..MaxTime, key : 0..MaxRestarts]

ShareOps  == {"redeem", "landing", "asset", "embed"}
ViewerOps == {"create", "revoke", "view"}
Ops       == ShareOps \cup ViewerOps \cup {"frame"}

\* "share", "load", "meta", "get" read a row; "act" is what the request is for.
Steps == {"share", "load", "meta", "get", "act", "granted", "refused"}

Request ==
    [op : Ops, share : Shares \cup {None}, art : Arts \cup {None},
     cred : Credential \cup {None}, step : Steps, moot : BOOLEAN,
     expires : Dates \cup {None}]

TypeOK ==
    /\ now \in 0..MaxTime /\ restarts \in 0..MaxRestarts
    /\ enabled \in BOOLEAN /\ secretKey \in 0..MaxRestarts
    /\ arts \subseteq Arts /\ drawn \subseteq Shares
    /\ expiry \in [Arts -> ArtLife \cup {None}]
    /\ format \in [Arts -> {"html", "markdown"}]
    /\ links \in [Shares -> Link \cup {None}]
    /\ held \subseteq Credential /\ \A c \in held : c.at <= now
    /\ req \in [Threads -> Request \cup {None}]

Init ==
    /\ now = 0 /\ restarts = 0 /\ enabled \in BOOLEAN /\ secretKey = 0
    /\ arts = Arts
    /\ expiry \in [Arts -> ArtLife \cup {None}]
    /\ format \in [Arts -> {"html", "markdown"}]
    /\ links = [s \in Shares |-> None] /\ drawn = {}
    /\ held = {}
    /\ req = [t \in Threads |-> None]

-----------------------------------------------------------------------------
(* What the code asks of a row or a credential *)

\* ShareLink.is_active
Active(s) ==
    /\ links[s] # None
    /\ links[s].revoked = None
    /\ links[s].expires # None => now < links[s].expires

\* load_artifact finds it: the row is there and not expired.
Loads(a) == a \in arts /\ (expiry[a] # None => now < expiry[a])

\* Mutant: a credential ends a tick early.
FreshTooBriefly(c, ttl) == c.key = secretKey /\ now - c.at < ttl

\* URLSafeTimedSerializer.loads: signed with this key, and not older than ttl.
Fresh(c, ttl) == c.key = secretKey /\ now - c.at <= ttl

\* Mutant: the payload is signed, but not compared.
CookieOpensAny(c, s) == c # None /\ Fresh(c, CookieTtl)

\* ShareSessionSigner.verify, ShareEmbedCapability.verify, EmbedCapability.verify,
\* and the comparison of hashes in authorize_share.
CookieOpens(c, s) ==
    c # None /\ Fresh(c, CookieTtl) /\ c.share = s

TokenOpens(c, s, a) ==
    c # None /\ Fresh(c, EmbedTtl) /\ c.share = s /\ c.art = a

CapabilityOpens(c, a) ==
    c # None /\ Fresh(c, EmbedTtl) /\ c.art = a

SecretOpens(c, s) == c # None /\ c.share = s

-----------------------------------------------------------------------------
(* What must be over: said from the outside, without the code's reads *)

Over(s) ==
    \/ links[s] = None
    \/ links[s].revoked # None
    \/ links[s].expires # None /\ now >= links[s].expires

Gone(a) == a \notin arts \/ (expiry[a] # None /\ now >= expiry[a])

Dead(c, ttl) == c.key # secretKey \/ now > c.at + ttl

\* The credential is for this link and this artifact.
IsFor(c, s, a) == c # None /\ c.share = s /\ c.art = a

\* Nothing may come of such a request, now or later.
Moot(r) ==
    CASE r.op = "view"   -> Gone(r.art)
      [] r.op = "frame"  -> \/ Gone(r.art)
                            \/ ~IsFor(r.cred, None, r.art)
                            \/ Dead(r.cred, EmbedTtl)
      [] r.op = "create" -> ~enabled \/ Gone(r.art)
      [] r.op = "revoke" -> ~enabled \/ Gone(r.art) \/ links[r.share] = None
                            \/ links[r.share].art # r.art
      [] r.op = "redeem" -> \/ ~enabled \/ Over(r.share)
                            \/ ~IsFor(r.cred, r.share, None)
      [] r.op \in {"landing", "asset"} ->
            \/ ~enabled \/ Over(r.share) \/ Gone(links[r.share].art)
            \/ ~IsFor(r.cred, r.share, None) \/ Dead(r.cred, CookieTtl)
      [] r.op = "embed" ->
            \/ ~enabled \/ Over(r.share) \/ Gone(links[r.share].art)
            \/ ~IsFor(r.cred, r.share, links[r.share].art)
            \/ Dead(r.cred, EmbedTtl)

\* Markdown is never framed.
WrongFormat(r) == r.op \in {"embed", "frame"} /\ format[r.art] # "html"

-----------------------------------------------------------------------------
(* The handlers, read by read *)

Sharing == ShareOps \cup {"create", "revoke"}

\* What is kept of a request that has ended: what the properties speak of.
Ended(r, share, step, moot) ==
    [op |-> r.op, share |-> share, art |-> None, cred |-> None,
     step |-> step, moot |-> moot, expires |-> None]

Refusal(r) == Ended(r, None, "refused", Moot(r) \/ WrongFormat(r))

\* ShareLinksModeMiddleware answers 404 for every sharing path when sharing is
\* off; require_capability looks at the token before it reads anything.
RefusedUnread(r) ==
    \/ r.op \in Sharing /\ ~enabled
    \/ r.op = "frame" /\ ~CapabilityOpens(r.cred, r.art)

\* The credential each request carries.  One of another kind is like none: it is
\* looked for elsewhere, and signed with another salt.
Presented(op) ==
    CASE op = "redeem" -> "secret"
      [] op \in {"landing", "asset"} -> "cookie"
      [] op = "embed" -> "token"
      [] op = "frame" -> "capability"
      [] op \in ViewerOps -> "none"

\* Visitors name a link, the viewer an artifact, a revocation both.
Received(op, s, a, c) ==
    [op |-> op, share |-> s, art |-> a, cred |-> c, moot |-> FALSE,
     step |-> IF op \in ShareOps THEN "share" ELSE "load", expires |-> None]

IsRequest(r) ==
    /\ r.share # None <=> r.op \in ShareOps \cup {"revoke"}
    /\ r.art # None <=> r.op \notin ShareOps
    /\ r.cred # None => r.cred.kind = Presented(r.op)

\* create_share_link is an `async def` that awaits nothing after its form: no
\* second one starts before it has ended.
CanCreate == drawn # Shares /\ \A u \in Threads : req[u] # None => req[u].op # "create"

Receive(t, r) ==
    /\ IsRequest(r)
    /\ r.op = "create" => CanCreate
    /\ req' = [req EXCEPT ![t] =
          IF RefusedUnread(r) THEN Refusal(r) ELSE [r EXCEPT !.moot = Moot(r)]]

\* An id that no link ever had is a 404 like one whose row is gone; it is left out.
Arrive(t) ==
    /\ req[t] = None
    /\ \E op \in Ops, s \in drawn \cup {None}, a \in Arts \cup {None}, c \in held \cup {None} :
          Receive(t, Received(op, s, a, c))
    /\ UNCHANGED <<now, proc, fixed, db, held>>

At(t, step) == req[t] # None /\ req[t].step = step

Goto(t, step) == req' = [req EXCEPT ![t].step = step]

Grant(t) ==
    LET r == req[t]
        share == IF r.op = "revoke" THEN r.share ELSE None
    IN  req' = [req EXCEPT ![t] = Ended(r, share, "granted", r.moot)]

Refuse(t) == req' = [req EXCEPT ![t] = Refusal(req[t])]

\* get_share, is_active and the check of the credential; for a revocation, only
\* that the link belongs to the artifact of the path.
ShareOpens(r) ==
    CASE r.op = "revoke" -> links[r.share] # None /\ links[r.share].art = r.art
      [] r.op = "redeem" -> Active(r.share) /\ SecretOpens(r.cred, r.share)
      [] r.op \in {"landing", "asset"} -> Active(r.share) /\ CookieOpens(r.cred, r.share)
      [] r.op = "embed" ->
            Active(r.share) /\ TokenOpens(r.cred, r.share, links[r.share].art)

ReadShare(t) ==
    /\ At(t, "share")
    /\ \/ /\ ShareOpens(req[t])
          /\ req' = [req EXCEPT
                ![t].art  = IF req[t].op = "redeem" THEN None ELSE links[req[t].share].art,
                ![t].step = IF req[t].op \in {"revoke", "redeem"} THEN "act" ELSE "load"]
       \/ ~ShareOpens(req[t]) /\ Refuse(t)
    /\ UNCHANGED <<now, proc, fixed, db, held>>

\* After load_artifact: the next read of each handler.  Only an HTML artifact is
\* framed, and what is framed is the document or one of its assets.
AfterLoad(op) ==
    CASE op \in {"landing", "view"} -> {"act"}
      [] op = "asset"  -> {"meta"}
      [] op = "create" -> {"get"}
      [] op = "revoke" -> {"share"}
      [] op \in {"embed", "frame"} -> {"act", "meta"}

LoadArtifact(t) ==
    /\ At(t, "load")
    /\ IF Loads(req[t].art) /\ ~WrongFormat(req[t])
       THEN \E step \in AfterLoad(req[t].op) : Goto(t, step)
       ELSE Refuse(t)
    /\ UNCHANGED <<now, proc, fixed, db, held>>

\* get_asset; the assets' rows go with the artifact's.
GetAsset(t) ==
    /\ At(t, "meta")
    /\ IF req[t].art \in arts THEN Goto(t, "act") ELSE Refuse(t)
    /\ UNCHANGED <<now, proc, fixed, db, held>>

\* create_share looks the artifact up once more; expires_at was computed before.
LookUpAgain(t) ==
    /\ At(t, "get")
    /\ \/ /\ req[t].art \in arts
          /\ \E days \in ShareDays : req' = [req EXCEPT
                ![t].expires = IF days = 0 THEN None ELSE now + days,
                ![t].step    = "act"]
       \/ req[t].art \notin arts /\ Refuse(t)
    /\ UNCHANGED <<now, proc, fixed, db, held>>

\* Mutant: no PRAGMA foreign_keys.
ForeignKeysOff(a) == a \in Arts

\* The INSERT: the foreign key refuses a link to an artifact that is gone.
ForeignKeyHolds(a) == a \in arts

InsertLink(t) ==
    /\ At(t, "act") /\ req[t].op = "create"
    /\ \/ /\ ForeignKeyHolds(req[t].art)
          /\ \E s \in Shares \ drawn :
                /\ links' = [links EXCEPT ![s] =
                      [art |-> req[t].art, expires |-> req[t].expires, revoked |-> None]]
                /\ drawn' = drawn \cup {s}
                /\ held' = held \cup {[kind |-> "secret", share |-> s, art |-> None,
                                       at |-> 0, key |-> 0]}
          /\ Grant(t)
          /\ UNCHANGED arts
       \/ /\ ~ForeignKeyHolds(req[t].art)
          /\ Refuse(t)
          /\ UNCHANGED <<db, held>>
    /\ UNCHANGED <<now, proc, fixed>>

\* Mutant: no AND revoked_at IS NULL.
RevocableAgain(s) == links[s] # None

\* UPDATE share_links ... WHERE id = ? AND revoked_at IS NULL; the redirect is
\* the same whether or not a row was changed.
Revocable(s) == links[s] # None /\ links[s].revoked = None

UpdateRevoked(t) ==
    /\ At(t, "act") /\ req[t].op = "revoke"
    /\ links' = IF Revocable(req[t].share)
                THEN [links EXCEPT ![req[t].share].revoked = now] ELSE links
    /\ Grant(t)
    /\ UNCHANGED <<now, proc, fixed, arts, drawn, held>>

\* What a page hands out besides its content: the cookie of a redemption, the
\* token or the capability in the iframe's URL of an HTML artifact.
Issued(r) ==
    CASE r.op = "redeem" ->
            {[kind |-> "cookie", share |-> r.share, art |-> None, at |-> now, key |-> secretKey]}
      [] r.op = "landing" /\ format[r.art] = "html" ->
            {[kind |-> "token", share |-> r.share, art |-> r.art, at |-> now, key |-> secretKey]}
      [] r.op = "view" /\ format[r.art] = "html" ->
            {[kind |-> "capability", share |-> None, art |-> r.art, at |-> now, key |-> secretKey]}
      [] OTHER -> {}

\* The browser keeps the last of each.  One that is kept elsewhere opens nothing
\* that it did not open before the next was issued.
Replaced(new) ==
    {c \in held : \A d \in new : <<c.kind, c.share, c.art>> # <<d.kind, d.share, d.art>>} \cup new

\* Every other response reads the bytes first.  They outlive the row until the
\* delete gets to them, so a read after it may still succeed.
ReadsBytes(r) == r.op # "redeem" /\ ~(r.op = "landing" /\ format[r.art] = "html")

Respond(t) ==
    /\ At(t, "act") /\ req[t].op \notin {"create", "revoke"}
    /\ \/ /\ held' = Replaced(Issued(req[t]))
          /\ Grant(t)
       \/ /\ ReadsBytes(req[t]) /\ req[t].art \notin arts
          /\ Refuse(t)
          /\ UNCHANGED held
    /\ UNCHANGED <<now, proc, fixed, db>>

End(t) ==
    /\ At(t, "granted") \/ At(t, "refused")
    /\ req' = [req EXCEPT ![t] = None]
    /\ UNCHANGED <<now, proc, fixed, db, held>>

Handler(t) ==
    \/ Arrive(t) \/ ReadShare(t) \/ LoadArtifact(t) \/ GetAsset(t)
    \/ LookUpAgain(t) \/ InsertLink(t) \/ UpdateRevoked(t) \/ Respond(t) \/ End(t)

-----------------------------------------------------------------------------
(* What goes on around the handlers *)

\* The row goes, by a request or a sweep, and ON DELETE CASCADE takes its links.
DeleteArtifact(a) ==
    /\ a \in arts
    /\ arts' = arts \ {a}
    /\ links' = [s \in Shares |-> IF links[s] # None /\ links[s].art = a THEN None ELSE links[s]]
    /\ UNCHANGED <<now, proc, fixed, drawn, held, req>>

Tick ==
    /\ now < MaxTime
    /\ now' = now + 1
    /\ UNCHANGED <<proc, fixed, db, held, req>>

\* The operator restarts the process, with sharing on or off, and with the same
\* or a new secret key; what was being served is lost.
Restart ==
    /\ restarts < MaxRestarts
    /\ restarts' = restarts + 1
    /\ enabled' \in BOOLEAN
    /\ secretKey' \in {secretKey, restarts'}
    /\ req' = [t \in Threads |-> None]
    /\ UNCHANGED <<now, fixed, db, held>>

Next ==
    \/ \E t \in Threads : Handler(t)
    \/ \E a \in Arts : DeleteArtifact(a)
    \/ Tick \/ Restart

Spec == Init /\ [][Next]_vars

-----------------------------------------------------------------------------
(* What sharing promises *)

Granted(t) == At(t, "granted")
Refused(t) == At(t, "refused")

\* A link that is revoked, past its time, or was turned off with sharing, an
\* artifact that is deleted or past its time, a cookie, token or capability that
\* is too old or signed with a retired key: each ends everything it gave access
\* to at once, because a request that arrives afterwards gets nothing.
NothingAfterTheEnd ==
    \A t \in Threads : Granted(t) => ~req[t].moot

\* The other direction: a request is turned away only if something it needs is
\* over when it is answered; no interleaving refuses a visitor in good standing.
RefusedForAReason ==
    \A t \in Threads : Refused(t) => req[t].moot

\* "Revoked" is the truth when it is said, although the UPDATE may change no row.
RevocationIsDone ==
    \A t \in Threads : Granted(t) /\ req[t].op = "revoke" => Over(req[t].share)

\* A link that is over stays over, and keeps the date it was revoked at.
EndIsFinal ==
    [][\A s \in Shares : s \in drawn /\ Over(s) =>
        /\ Over(s)'
        /\ links'[s] # None => links'[s].revoked = links[s].revoked \/ links[s].revoked = None]_vars

\* No link outlives its artifact, although create_share looks the artifact up in
\* one statement and inserts the link in another.
LinksHaveArtifacts == \A s \in Shares : links[s] # None => links[s].art \in arts

-----------------------------------------------------------------------------
(* The inductive invariant behind them *)

\* Ids are drawn once, and rows go with their artifact.
LinksAreDrawn == \A s \in Shares : links[s] # None => s \in drawn

\* What each kind of credential does not name.
Shaped(c) ==
    /\ c.kind = "capability" => c.share = None
    /\ c.kind \in {"secret", "cookie"} => c.art = None

HeldIsShaped == \A c \in held : Shaped(c)

\* A request is at a step its handler has, with the ids that step needs; the
\* artifact of a visitor's request is the link's as long as there is a link.
StepFits(r) ==
    CASE r.step = "share" -> r.op \in ShareOps \cup {"revoke"}
      [] r.step = "load"  -> r.op # "redeem"
      [] r.step = "meta"  -> r.op \in {"asset", "embed", "frame"}
      [] r.step = "get"   -> r.op = "create"
      [] OTHER -> TRUE

InFlight(r) == r.step \notin {"granted", "refused"}

IdsFit(r) ==
    /\ r.op \in ShareOps \cup {"revoke"} => r.share \in drawn
    /\ r.art = None => r.op = "redeem" \/ (r.op \in ShareOps /\ r.step = "share")
    /\ r.op \in ShareOps /\ r.art # None /\ links[r.share] # None => links[r.share].art = r.art
    /\ r.cred # None => r.cred.kind = Presented(r.op) /\ Shaped(r.cred)

\* What makes a request moot lies ahead of it: a read that will find out.
Caught(r) ==
    CASE r.step = "share" ->
            \/ ~ShareOpens(r)
            \/ r.op \in {"landing", "asset", "embed"} /\ Gone(links[r.share].art)
      [] r.step = "load" -> Gone(r.art) \/ (r.op = "revoke" /\ ~ShareOpens(r))
      [] OTHER -> r.step = "refused"

RequestOK(r) ==
    /\ StepFits(r)
    /\ InFlight(r) => IdsFit(r)
    /\ r.moot => Caught(r)
    /\ r.step = "refused" => r.moot
    /\ r.step = "granted" /\ r.op = "revoke" => r.share \in drawn /\ Over(r.share)

ShareInv ==
    /\ TypeOK
    /\ LinksAreDrawn /\ LinksHaveArtifacts
    /\ HeldIsShaped
    /\ \A t \in Threads : req[t] # None => RequestOK(req[t])
=============================================================================
