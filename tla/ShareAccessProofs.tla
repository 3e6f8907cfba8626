------------------------- MODULE ShareAccessProofs -------------------------
(***************************************************************************)
(* Theorems about ShareAccess for every set of artifacts, links and        *)
(* threads, every life of each of them and any number of restarts.         *)
(*                                                                         *)
(* The argument: what ends stays ended (WorldMoves), so a request that is  *)
(* moot when it arrives meets the end at one of the reads ahead of it.     *)
(***************************************************************************)
EXTENDS ShareAccess, TLAPS

\* All that a step does to the rows, the clock and the keys of a process.
WorldMoves ==
    /\ now' >= now
    /\ UNCHANGED <<fixed, secretKey>>
    /\ arts' \subseteq arts /\ drawn \subseteq drawn'
    /\ \A s \in drawn :
          \/ links'[s] = links[s] \/ links'[s] = None
          \/ /\ links[s] # None /\ links'[s].art = links[s].art
             /\ links'[s].expires = links[s].expires
             /\ links[s].revoked = None /\ links'[s].revoked # None

-----------------------------------------------------------------------------
(* What has ended stays ended *)

\* A link that is over stays over.
LEMMA OverStays ==
    ASSUME TypeOK, TypeOK', WorldMoves, NEW s \in drawn, Over(s)
    PROVE  Over(s)'
<1>1. s \in Shares /\ links[s] \in Link \cup {None} /\ links'[s] \in Link \cup {None}
      /\ now \in Nat /\ now' \in Nat
  BY ShareAssumption DEF TypeOK
<1>. QED BY <1>1 DEF WorldMoves, Over, Link, Dates

\* An artifact that is gone stays gone: ids do not come back and time does not run back.
LEMMA GoneStays ==
    ASSUME TypeOK, TypeOK', WorldMoves, NEW a \in Arts, Gone(a)
    PROVE  Gone(a)'
<1>1. expiry[a] # None => expiry[a] \in Nat
  BY ShareAssumption DEF TypeOK
<1>2. now \in Nat /\ now' \in Nat
  BY ShareAssumption DEF TypeOK
<1>. QED BY <1>1, <1>2 DEF WorldMoves, Gone, fixed

\* is_active is true of exactly the links that are not over.
LEMMA ActiveIsNotOver ==
    ASSUME TypeOK, NEW s \in Shares
    PROVE  Active(s) <=> ~Over(s)
<1>1. links[s] \in Link \cup {None} /\ now \in Nat
  BY ShareAssumption DEF TypeOK
<1>. QED BY <1>1 DEF Active, Over, Link, Dates

\* load_artifact finds exactly what is not gone.
LEMMA LoadsIsNotGone ==
    ASSUME TypeOK, NEW a \in Arts
    PROVE  Loads(a) <=> ~Gone(a)
<1>1. expiry[a] # None => expiry[a] \in Nat
  BY ShareAssumption DEF TypeOK
<1>2. now \in Nat
  BY ShareAssumption DEF TypeOK
<1>. QED BY <1>1, <1>2 DEF Loads, Gone

\* A credential that is not fresh is dead, and the other way round.
LEMMA FreshIsNotDead ==
    ASSUME TypeOK, NEW c \in Credential, NEW ttl \in Nat
    PROVE  Fresh(c, ttl) <=> ~Dead(c, ttl)
<1>1. c.at \in Nat /\ now \in Nat
  BY ShareAssumption DEF TypeOK, Credential
<1>. QED BY <1>1 DEF Fresh, Dead

\* A credential that has gone stale stays so, as long as the process keeps its key.
LEMMA StaleStays ==
    ASSUME TypeOK, TypeOK', WorldMoves, NEW c \in Credential, NEW ttl \in Nat, ~Fresh(c, ttl)
    PROVE  ~Fresh(c, ttl)'
<1>1. c.at \in Nat /\ now \in Nat /\ now' \in Nat
  BY ShareAssumption DEF TypeOK, Credential
<1>. QED BY <1>1 DEF Fresh, WorldMoves

\* A link that does not open for a request will not open for it later.
LEMMA ShutStays ==
    ASSUME TypeOK, TypeOK', WorldMoves, NEW r \in Request,
           r.op \in ShareOps \cup {"revoke"}, r.share \in drawn, ~ShareOpens(r)
    PROVE  ~ShareOpens(r)'
<1>. DEFINE s == r.share
<1>1. /\ s \in Shares /\ s \in drawn' /\ r.cred \in Credential \cup {None}
      /\ CookieTtl \in Nat /\ EmbedTtl \in Nat
      /\ links'[s] # None => links[s] # None /\ links'[s].art = links[s].art
  BY ShareAssumption DEF TypeOK, Request, WorldMoves
<1>2. Active(s)' => Active(s)
  <2>1. links[s] \in Link \cup {None} /\ links'[s] \in Link \cup {None}
        /\ now \in Nat /\ now' \in Nat
    BY <1>1, ShareAssumption DEF TypeOK
  <2>. QED BY <1>1, <2>1 DEF Active, WorldMoves, Link, Dates
<1>3. CookieOpens(r.cred, s)' => CookieOpens(r.cred, s)
  BY <1>1, StaleStays DEF CookieOpens
<1>4. \A a : TokenOpens(r.cred, s, a)' => TokenOpens(r.cred, s, a)
  BY <1>1, StaleStays DEF TokenOpens
<1>5. CASE r.op = "revoke"
  BY <1>1, <1>5 DEF ShareOpens
<1>6. CASE r.op = "redeem"
  BY <1>2, <1>6 DEF ShareOpens, SecretOpens
<1>7. CASE r.op \in {"landing", "asset"}
  BY <1>2, <1>3, <1>7 DEF ShareOpens
<1>8. CASE r.op = "embed"
  BY <1>1, <1>2, <1>4, <1>8 DEF ShareOpens, Active, TokenOpens
<1>. QED BY <1>5, <1>6, <1>7, <1>8 DEF ShareOps

\* Nobody gets through a link that has no row.
LEMMA NoRowNoOpening ==
    ASSUME NEW r \in Request, r.op \in ShareOps \cup {"revoke"}, links[r.share] = None
    PROVE  ~ShareOpens(r)
BY DEF ShareOpens, ShareOps, Active

\* A request that nobody serves for a moment is as right after it as before.
LEMMA RequestStays ==
    ASSUME TypeOK, TypeOK', WorldMoves, NEW r \in Request, RequestOK(r)
    PROVE  RequestOK(r)'
<1>1. StepFits(r)'
  BY DEF RequestOK, StepFits
<1>2. InFlight(r)' => IdsFit(r)'
  <2>1. CASE r.op \in ShareOps \cup {"revoke"}
    BY <2>1 DEF RequestOK, InFlight, IdsFit, WorldMoves, Shaped
  <2>2. CASE r.op \notin ShareOps \cup {"revoke"}
    BY <2>2 DEF RequestOK, InFlight, IdsFit, Shaped
  <2>. QED BY <2>1, <2>2
<1>3. ASSUME r.moot
      PROVE  Caught(r)'
  <2>1. CASE r.step = "share"
    <3>1. /\ r.op \in ShareOps \cup {"revoke"} /\ r.share \in drawn /\ r.share \in Shares
          /\ drawn \subseteq Shares
      BY <2>1 DEF RequestOK, StepFits, InFlight, IdsFit, TypeOK
    <3>2. CASE ~ShareOpens(r)
      BY <2>1, <3>1, <3>2, ShutStays DEF Caught
    <3>3. CASE links'[r.share] = None
      <4>1. ~ShareOpens(r)'
        BY <3>1, <3>3 DEF ShareOpens, ShareOps, Active
      <4>. QED BY <2>1, <4>1 DEF Caught
    <3>4. CASE ShareOpens(r) /\ links'[r.share] # None
      <4>1. links[r.share] # None
        BY <3>1, <3>4, NoRowNoOpening
      <4>2. r.op \in {"landing", "asset", "embed"} /\ Gone(links[r.share].art)
        BY <1>3, <2>1, <3>4 DEF RequestOK, Caught
      <4>3. links[r.share].art \in Arts /\ links'[r.share].art = links[r.share].art
        BY <3>1, <3>4, <4>1 DEF TypeOK, Link, WorldMoves
      <4>4. Gone(links[r.share].art)'
        BY <4>2, <4>3, GoneStays DEF Gone, WorldMoves
      <4>. QED BY <2>1, <4>2, <4>4 DEF Caught
    <3>. QED BY <3>2, <3>3, <3>4
  <2>2. CASE r.step = "load"
    <3>1. CASE Gone(r.art)
      <4>1. r.art \in Arts
        BY <2>2 DEF RequestOK, StepFits, InFlight, IdsFit, Request, ShareOps
      <4>. QED BY <2>2, <3>1, <4>1, GoneStays DEF Caught
    <3>2. CASE r.op = "revoke" /\ ~ShareOpens(r)
      <4>1. r.share \in drawn
        BY <2>2, <3>2 DEF RequestOK, InFlight, IdsFit
      <4>. QED BY <2>2, <3>2, <4>1, ShutStays DEF Caught
    <3>. QED BY <1>3, <2>2, <3>1, <3>2 DEF RequestOK, Caught
  <2>3. CASE r.step \notin {"share", "load"}
    BY <1>3, <2>3 DEF RequestOK, Caught
  <2>. QED BY <2>1, <2>2, <2>3
<1>4. ASSUME r.step = "granted", r.op = "revoke"
      PROVE  r.share \in drawn' /\ Over(r.share)'
  <2>1. r.share \in drawn /\ Over(r.share)
    BY <1>4 DEF RequestOK
  <2>. QED BY <2>1, OverStays DEF WorldMoves
<1>. QED BY <1>1, <1>2, <1>3, <1>4 DEF RequestOK

-----------------------------------------------------------------------------
(* A request that is moot when it arrives *)

\* Where a handler starts.
Starts(r) == r.step = IF r.op \in ShareOps THEN "share" ELSE "load"

\* A handler that is started on a moot request has a read ahead that finds out.
LEMMA MootIsCaught ==
    ASSUME TypeOK, NEW r \in Request, Starts(r), IdsFit(r), ~RefusedUnread(r), Moot(r)
    PROVE  Caught(r)
<1>. DEFINE s == r.share
            c == r.cred
<1>1. /\ r.art \in Arts \cup {None} /\ s \in Shares \cup {None}
      /\ r.op \notin ShareOps => r.art \in Arts
      /\ c \in Credential \cup {None}
      /\ CookieTtl \in Nat /\ EmbedTtl \in Nat
      /\ r.op \in Sharing => enabled
      /\ r.op \in ShareOps \cup {"revoke"} => s \in Shares
  BY ShareAssumption DEF Request, IdsFit, Starts, ShareOps, TypeOK, RefusedUnread
<1>2. CASE r.op \in {"view", "create"}
  BY <1>1, <1>2 DEF Starts, Moot, Caught, Sharing, ShareOps
<1>3. CASE r.op = "frame"
  <2>1. CapabilityOpens(c, r.art)
    BY <1>3 DEF RefusedUnread, Sharing, ShareOps
  <2>2. c.share = None
    BY <1>3, <2>1 DEF IdsFit, Presented, Shaped, ShareOps, ViewerOps, CapabilityOpens
  <2>3. IsFor(c, None, r.art) /\ ~Dead(c, EmbedTtl)
    BY <1>1, <2>1, <2>2, FreshIsNotDead DEF CapabilityOpens, IsFor
  <2>. QED BY <1>3, <2>3 DEF Starts, Moot, Caught, ShareOps
<1>4. CASE r.op = "revoke"
  BY <1>1, <1>4 DEF Starts, Moot, Caught, Sharing, ShareOps, ShareOpens
<1>5. CASE r.op = "redeem"
  <2>1. c # None => c.art = None
    BY <1>5 DEF IdsFit, Presented, Shaped, ViewerOps
  <2>2. Over(s) \/ ~SecretOpens(c, s)
    BY <1>1, <1>5, <2>1 DEF Moot, Sharing, ShareOps, IsFor, SecretOpens
  <2>. QED BY <1>1, <1>5, <2>2, ActiveIsNotOver DEF Starts, Caught, ShareOps, ShareOpens
<1>6. CASE r.op \in {"landing", "asset"}
  <2>1. c # None => c.art = None
    BY <1>6 DEF IdsFit, Presented, Shaped, ViewerOps
  <2>2. Over(s) \/ Gone(links[s].art) \/ ~IsFor(c, s, None) \/ Dead(c, CookieTtl)
    BY <1>1, <1>6 DEF Moot, Sharing, ShareOps
  <2>3. Over(s) \/ Gone(links[s].art) \/ ~CookieOpens(c, s)
    BY <1>1, <2>1, <2>2, FreshIsNotDead DEF CookieOpens, IsFor
  <2>. QED BY <1>1, <1>6, <2>3, ActiveIsNotOver DEF Starts, Caught, ShareOps, ShareOpens
<1>7. CASE r.op = "embed"
  <2>1. Over(s) \/ Gone(links[s].art) \/ ~IsFor(c, s, links[s].art) \/ Dead(c, EmbedTtl)
    BY <1>1, <1>7 DEF Moot, Sharing, ShareOps
  <2>2. Over(s) \/ Gone(links[s].art) \/ ~TokenOpens(c, s, links[s].art)
    BY <1>1, <2>1, FreshIsNotDead DEF TokenOpens, IsFor
  <2>. QED BY <1>1, <1>7, <2>2, ActiveIsNotOver DEF Starts, Caught, ShareOps, ShareOpens
<1>. QED BY <1>2, <1>3, <1>4, <1>5, <1>6, <1>7 DEF Request, Ops, ShareOps, ViewerOps

-----------------------------------------------------------------------------
(* A request that is refused *)

\* A request whose artifact is gone when it looks for it is turned away with reason.
LEMMA GoneIsMoot ==
    ASSUME TypeOK, NEW r \in Request, IdsFit(r), r.op # "redeem", r.art \in Arts, Gone(r.art)
    PROVE  Moot(r)
<1>1. r.art # None
  BY ShareAssumption
<1>2. CASE r.op \in {"view", "frame", "create", "revoke"}
  BY <1>2 DEF Moot
<1>3. CASE r.op \in {"landing", "asset", "embed"}
  <2>1. links[r.share] = None \/ links[r.share].art = r.art
    BY <1>1, <1>3 DEF IdsFit, ShareOps
  <2>. QED BY <1>3, <2>1 DEF Moot, Over
<1>. QED BY <1>2, <1>3 DEF Request, Ops, ShareOps, ViewerOps

\* So is one that its link does not open for.
LEMMA ShutIsMoot ==
    ASSUME TypeOK, NEW r \in Request, r.op \in ShareOps \cup {"revoke"}, r.share \in Shares,
           IdsFit(r), ~ShareOpens(r)
    PROVE  Moot(r)
<1>1. /\ Active(r.share) <=> ~Over(r.share)
      /\ r.cred \in Credential \cup {None}
      /\ CookieTtl \in Nat /\ EmbedTtl \in Nat
  BY ActiveIsNotOver, ShareAssumption DEF Request
<1>2. CASE r.op = "revoke"
  BY <1>2 DEF ShareOpens, Moot
<1>3. CASE r.op = "redeem"
  BY <1>1, <1>3 DEF ShareOpens, Moot, SecretOpens, IsFor
<1>4. CASE r.op \in {"landing", "asset"}
  <2>1. ~CookieOpens(r.cred, r.share) => ~IsFor(r.cred, r.share, None) \/ Dead(r.cred, CookieTtl)
    BY <1>1, FreshIsNotDead DEF CookieOpens, IsFor
  <2>. QED BY <1>1, <1>4, <2>1 DEF ShareOpens, Moot
<1>5. CASE r.op = "embed"
  <2>. DEFINE a == links[r.share].art
  <2>1. ~TokenOpens(r.cred, r.share, a) => ~IsFor(r.cred, r.share, a) \/ Dead(r.cred, EmbedTtl)
    BY <1>1, FreshIsNotDead DEF TokenOpens, IsFor
  <2>. QED BY <1>1, <1>5, <2>1 DEF ShareOpens, Moot
<1>. QED BY <1>2, <1>3, <1>4, <1>5 DEF ShareOps

\* So is one that is refused before anything is read.
LEMMA UnreadIsMoot ==
    ASSUME TypeOK, NEW r \in Request, RefusedUnread(r)
    PROVE  Moot(r)
<1>1. r.cred \in Credential \cup {None} /\ EmbedTtl \in Nat
  BY ShareAssumption DEF Request
<1>2. CASE r.op \in Sharing /\ ~enabled
  BY <1>2 DEF Moot, Sharing, ShareOps
<1>3. CASE r.op = "frame" /\ ~CapabilityOpens(r.cred, r.art)
  <2>1. ~IsFor(r.cred, None, r.art) \/ Dead(r.cred, EmbedTtl)
    BY <1>1, <1>3, FreshIsNotDead DEF CapabilityOpens, IsFor
  <2>. QED BY <1>3, <2>1 DEF Moot
<1>. QED BY <1>2, <1>3 DEF RefusedUnread

\* What is kept of a refused request satisfies the invariant.
LEMMA RefusalIsOK ==
    ASSUME NEW r \in Request, Moot(r) \/ WrongFormat(r)
    PROVE  Refusal(r) \in Request /\ RequestOK(Refusal(r))
<1>1. (Moot(r) \/ WrongFormat(r)) = TRUE
  OBVIOUS
<1>2. Refusal(r) = Ended(r, None, "refused", TRUE)
  BY <1>1, Zenon DEF Refusal
<1>. QED BY <1>2 DEF Ended, Request, Steps, RequestOK, StepFits, InFlight, Caught

-----------------------------------------------------------------------------
(* The reads *)

\* A step of t that writes nothing and leaves it with a request that is right.
LEMMA ReadStep ==
    ASSUME ShareInv, UNCHANGED <<now, proc, fixed, db, held>>, NEW t \in Threads,
           NEW q \in Request \cup {None}, req' = [req EXCEPT ![t] = q],
           q # None => q \in Request /\ RequestOK(q)
    PROVE  ShareInv' /\ WorldMoves
<1>. USE DEF ShareInv, proc, fixed, db
<1>1. TypeOK'
  BY DEF TypeOK
<1>2. LinksAreDrawn' /\ LinksHaveArtifacts' /\ HeldIsShaped'
  BY DEF LinksAreDrawn, LinksHaveArtifacts, HeldIsShaped
<1>3. WorldMoves
  BY ShareAssumption DEF WorldMoves, TypeOK
<1>4. ASSUME NEW u \in Threads, req'[u] # None
      PROVE  RequestOK(req[u])'
  <2>1. PICK r \in Request : r = req'[u] /\ RequestOK(r)
    BY <1>4 DEF TypeOK
  <2>2. RequestOK(r)'
    BY <1>1, <1>3, <2>1, RequestStays
  <2>. QED BY <2>1, <2>2
<1>. QED BY <1>1, <1>2, <1>3, <1>4

\* A new request satisfies the invariant.
LEMMA ArriveKeepsInv ==
    ASSUME ShareInv, NEW t \in Threads, Arrive(t)
    PROVE  ShareInv' /\ WorldMoves
<1>1. PICK op \in Ops, s \in drawn \cup {None}, a \in Arts \cup {None}, c \in held \cup {None} :
        Receive(t, Received(op, s, a, c))
  BY DEF Arrive
<1>. DEFINE r == Received(op, s, a, c)
            q == [r EXCEPT !.moot = Moot(r)]
<1>2. r \in Request
  BY DEF Received, Request, ShareInv, TypeOK, Steps
<1>3. CASE RefusedUnread(r)
  <2>1. Refusal(r) \in Request /\ RequestOK(Refusal(r))
    BY <1>2, <1>3, UnreadIsMoot, RefusalIsOK DEF ShareInv
  <2>2. req' = [req EXCEPT ![t] = Refusal(r)]
    BY <1>1, <1>3 DEF Receive
  <2>. QED BY <2>1, <2>2, ReadStep DEF Arrive
<1>4. CASE ~RefusedUnread(r)
  <2>1. Moot(r) \in BOOLEAN
    BY <1>2 DEF Moot, Gone, Request, Ops, ShareOps, ViewerOps
  <2>2. q = [op |-> op, share |-> s, art |-> a, cred |-> c, moot |-> Moot(r),
             step |-> IF op \in ShareOps THEN "share" ELSE "load", expires |-> None]
    BY DEF Received
  <2>. HIDE DEF q
  <2>3. q \in Request /\ q.moot = Moot(r)
    BY <2>1, <2>2 DEF Request, ShareInv, TypeOK, Steps
  <2>4. /\ Starts(q) /\ StepFits(q) /\ InFlight(q)
        /\ q.step # "refused" /\ q.step # "granted"
    BY <2>2, ShareAssumption DEF Starts, StepFits, InFlight, ShareOps
  <2>5. IdsFit(q)
    BY <1>1, <2>2 DEF Receive, IsRequest, Received, IdsFit, ShareInv, HeldIsShaped, ShareOps
  <2>6. RefusedUnread(q) = RefusedUnread(r) /\ Moot(q) = Moot(r)
    BY <2>2 DEF Received, RefusedUnread, Moot
  <2>7. q.moot => Caught(q)
    BY <1>4, <2>3, <2>4, <2>5, <2>6, MootIsCaught DEF ShareInv
  <2>8. RequestOK(q)
    BY <2>4, <2>5, <2>7 DEF RequestOK
  <2>9. req' = [req EXCEPT ![t] = q]
    BY <1>1, <1>4 DEF Receive, q
  <2>. QED BY <2>3, <2>8, <2>9, ReadStep DEF Arrive
<1>. QED BY <1>3, <1>4

\* get_share and the checks after it.
LEMMA ReadShareKeepsInv ==
    ASSUME ShareInv, NEW t \in Threads, ReadShare(t)
    PROVE  ShareInv' /\ WorldMoves
<1>. DEFINE r == req[t]
<1>1. r \in Request /\ RequestOK(r) /\ r.step = "share" /\ TypeOK
  BY DEF ReadShare, At, ShareInv, TypeOK
<1>2. r.op \in ShareOps \cup {"revoke"} /\ r.share \in Shares /\ r.share \in drawn /\ IdsFit(r)
  BY <1>1 DEF RequestOK, StepFits, InFlight, IdsFit, TypeOK
<1>3. CASE ShareOpens(r)
  <2>. DEFINE q == [r EXCEPT
                      !.art  = IF r.op = "redeem" THEN None ELSE links[r.share].art,
                      !.step = IF r.op \in {"revoke", "redeem"} THEN "act" ELSE "load"]
  <2>1. req' = [req EXCEPT ![t] = q]
    BY <1>3 DEF ReadShare, Refuse
  <2>2. links[r.share] # None /\ links[r.share] \in Link
    BY <1>1, <1>2, <1>3, NoRowNoOpening DEF TypeOK
  <2>3. links[r.share].art \in Arts /\ links[r.share].art # None
    BY <2>2, ShareAssumption DEF Link
  <2>4. q \in Request /\ q.op = r.op /\ q.share = r.share /\ q.cred = r.cred /\ q.moot = r.moot
    BY <1>1, <2>3 DEF Request, Steps
  <2>5. /\ q.step = IF r.op \in {"revoke", "redeem"} THEN "act" ELSE "load"
        /\ q.art = IF r.op = "redeem" THEN None ELSE links[r.share].art
    BY <1>1 DEF Request
  <2>. HIDE DEF q
  <2>6. StepFits(q) /\ IdsFit(q)
    BY <1>2, <2>3, <2>4, <2>5 DEF StepFits, IdsFit
  <2>7. q.moot => Caught(q)
    BY <1>1, <1>2, <1>3, <2>4, <2>5 DEF RequestOK, Caught, ShareOps
  <2>8. RequestOK(q)
    BY <2>5, <2>6, <2>7 DEF RequestOK
  <2>. QED BY <2>1, <2>4, <2>8, ReadStep DEF ReadShare
<1>4. CASE ~ShareOpens(r)
  <2>1. Refusal(r) \in Request /\ RequestOK(Refusal(r))
    BY <1>1, <1>2, <1>4, ShutIsMoot, RefusalIsOK
  <2>. QED BY <1>4, <2>1, ReadStep DEF ReadShare, Refuse
<1>. QED BY <1>3, <1>4

\* A request whose reads up to now went well goes on to the next one.
LEMMA GoOnIsOK ==
    ASSUME ShareInv, NEW r \in Request, RequestOK(r), r.step \in {"load", "meta", "get"},
           NEW step \in {"share", "meta", "get", "act"}, NEW date \in Nat \cup {None},
           r.step = "load" => step \in AfterLoad(r.op) /\ ~Gone(r.art),
           r.step # "load" => step = "act"
    PROVE  LET q == [r EXCEPT !.step = step, !.expires = date]
           IN  q \in Request /\ RequestOK(q)
<1>. DEFINE q == [r EXCEPT !.step = step, !.expires = date]
<1>1. /\ q \in Request /\ q.step = step /\ q.op = r.op /\ q.share = r.share
      /\ q.art = r.art /\ q.cred = r.cred /\ q.moot = r.moot
  BY DEF Request, Steps, Dates
<1>. HIDE DEF q
<1>2. StepFits(q)
  BY <1>1 DEF RequestOK, StepFits, AfterLoad, Request, Ops, ShareOps, ViewerOps
<1>3. InFlight(r) /\ IdsFit(r)
  BY DEF RequestOK, InFlight
<1>4. IdsFit(q)
  BY <1>1, <1>3 DEF IdsFit, AfterLoad, ShareOps, RequestOK, StepFits
<1>5. ASSUME q.moot
      PROVE  Caught(q)
  <2>1. r.step = "load" /\ r.op = "revoke" /\ ~ShareOpens(r)
    BY <1>1, <1>5 DEF RequestOK, Caught
  <2>2. step = "share" /\ ~ShareOpens(q)
    BY <1>1, <2>1 DEF AfterLoad, ShareOpens
  <2>. QED BY <1>1, <2>2 DEF Caught
<1>6. q.step # "refused" /\ q.step # "granted"
  BY <1>1
<1>. QED BY <1>1, <1>2, <1>4, <1>5, <1>6 DEF RequestOK, q

\* A request for an artifact that is gone, or of the wrong format, is refused.
LEMMA RefuseKeepsInv ==
    ASSUME ShareInv, UNCHANGED <<now, proc, fixed, db, held>>, NEW t \in Threads,
           req[t] \in Request \ {None}, InFlight(req[t]), req[t].op # "redeem", req[t].art \in Arts,
           Gone(req[t].art) \/ WrongFormat(req[t]), Refuse(t)
    PROVE  ShareInv' /\ WorldMoves
<1>1. RequestOK(req[t]) /\ TypeOK
  BY DEF ShareInv
<1>2. Moot(req[t]) \/ WrongFormat(req[t])
  BY <1>1, GoneIsMoot DEF RequestOK
<1>3. Refusal(req[t]) \in Request /\ RequestOK(Refusal(req[t]))
  BY <1>2, RefusalIsOK
<1>. QED BY <1>3, ReadStep DEF Refuse

\* load_artifact, get_asset and the second look of create_share.
LEMMA LoadKeepsInv ==
    ASSUME ShareInv, NEW t \in Threads, LoadArtifact(t) \/ GetAsset(t) \/ LookUpAgain(t)
    PROVE  ShareInv' /\ WorldMoves
<1>. DEFINE r == req[t]
<1>1. /\ r \in Request \ {None} /\ RequestOK(r) /\ TypeOK /\ r.step \in {"load", "meta", "get"}
      /\ UNCHANGED <<now, proc, fixed, db, held>>
  BY DEF LoadArtifact, GetAsset, LookUpAgain, At, ShareInv, TypeOK
<1>2. InFlight(r) /\ r.op # "redeem" /\ r.art \in Arts
  BY <1>1 DEF RequestOK, StepFits, InFlight, IdsFit, Request, ShareOps
<1>3. Loads(r.art) <=> ~Gone(r.art)
  BY <1>1, <1>2, LoadsIsNotGone
<1>4. r.expires \in Nat \cup {None}
  BY <1>1 DEF Request, Dates
<1>5. ASSUME NEW step \in {"share", "meta", "get", "act"}, Goto(t, step),
             r.step = "load" => step \in AfterLoad(r.op) /\ ~Gone(r.art),
             r.step # "load" => step = "act"
      PROVE  ShareInv' /\ WorldMoves
  <2>. DEFINE q == [r EXCEPT !.step = step, !.expires = r.expires]
  <2>1. q \in Request /\ RequestOK(q)
    BY <1>1, <1>4, <1>5, GoOnIsOK
  <2>2. q = [r EXCEPT !.step = step]
    BY <1>1 DEF Request
  <2>. HIDE DEF q
  <2>. QED BY <1>1, <1>5, <2>1, <2>2, ReadStep DEF Goto
<1>6. CASE LoadArtifact(t)
  <2>1. CASE Loads(r.art) /\ ~WrongFormat(r)
    <3>1. PICK step \in AfterLoad(r.op) : Goto(t, step)
      BY <1>6, <2>1 DEF LoadArtifact
    <3>2. AfterLoad(r.op) \subseteq {"share", "meta", "get", "act"}
      BY <1>1, <1>2 DEF AfterLoad, Request, Ops, ShareOps, ViewerOps
    <3>3. r.step = "load"
      BY <1>6 DEF LoadArtifact, At
    <3>. QED BY <1>3, <1>5, <2>1, <3>1, <3>2, <3>3
  <2>2. CASE ~(Loads(r.art) /\ ~WrongFormat(r))
    <3>1. Refuse(t)
      BY <1>6, <2>2 DEF LoadArtifact
    <3>. QED BY <1>1, <1>2, <1>3, <2>2, <3>1, RefuseKeepsInv
  <2>. QED BY <2>1, <2>2
<1>7. CASE GetAsset(t)
  <2>1. r.step = "meta" /\ (Goto(t, "act") \/ (r.art \notin arts /\ Refuse(t)))
    BY <1>7 DEF GetAsset, At
  <2>2. r.art \notin arts => Gone(r.art)
    BY DEF Gone
  <2>. QED BY <1>1, <1>2, <1>5, <2>1, <2>2, RefuseKeepsInv
<1>8. CASE LookUpAgain(t)
  <2>1. CASE r.art \in arts
    <3>1. PICK days \in ShareDays : req' = [req EXCEPT
                ![t].expires = IF days = 0 THEN None ELSE now + days,
                ![t].step    = "act"]
      BY <1>8, <2>1 DEF LookUpAgain
    <3>. DEFINE date == IF days = 0 THEN None ELSE now + days
                q == [r EXCEPT !.step = "act", !.expires = date]
    <3>2. date \in Nat \cup {None}
      BY <1>1, ShareAssumption DEF TypeOK
    <3>3. r.step = "get"
      BY <1>8 DEF LookUpAgain, At
    <3>4. q \in Request /\ RequestOK(q)
      BY <1>1, <3>2, <3>3, GoOnIsOK
    <3>5. req' = [req EXCEPT ![t] = q]
      BY <1>1, <3>1 DEF Request, TypeOK
    <3>. QED BY <1>1, <3>4, <3>5, ReadStep
  <2>2. CASE r.art \notin arts
    <3>1. Refuse(t) /\ Gone(r.art)
      BY <1>8, <2>2 DEF LookUpAgain, Gone
    <3>. QED BY <1>1, <1>2, <3>1, RefuseKeepsInv
  <2>. QED BY <2>1, <2>2
<1>. QED BY <1>6, <1>7, <1>8

\* The end of a request.
LEMMA EndKeepsInv ==
    ASSUME ShareInv, NEW t \in Threads, End(t)
    PROVE  ShareInv' /\ WorldMoves
BY ReadStep DEF End

-----------------------------------------------------------------------------
(* The writes *)

\* A write keeps the invariant of the requests it does not serve.
LEMMA WriteStep ==
    ASSUME ShareInv, TypeOK', WorldMoves,
           LinksAreDrawn', LinksHaveArtifacts', HeldIsShaped',
           \A u \in Threads : req'[u] # None => req'[u] = req[u] \/ RequestOK(req[u])'
    PROVE  ShareInv'
<1>1. ASSUME NEW u \in Threads, req'[u] # None
      PROVE  RequestOK(req[u])'
  <2>1. CASE req'[u] = req[u]
    <3>1. PICK r \in Request : r = req'[u] /\ RequestOK(r)
      BY <1>1, <2>1 DEF ShareInv, TypeOK
    <3>2. RequestOK(r)'
      BY <3>1, RequestStays DEF ShareInv
    <3>. QED BY <3>1, <3>2
  <2>. QED BY <1>1, <2>1
<1>. QED BY <1>1 DEF ShareInv

\* A request that is granted is not moot, and a revocation is done.
LEMMA GrantIsOK ==
    ASSUME ShareInv, NEW t \in Threads, At(t, "act"), Grant(t),
           NEW s, s = req[t].share,
           req[t].op = "revoke" => s \in drawn' /\ Over(s)'
    PROVE  /\ req' \in [Threads -> Request \cup {None}]
           /\ \A u \in Threads : req'[u] # None => req'[u] = req[u] \/ RequestOK(req[u])'
<1>. DEFINE r == req[t]
            link == IF r.op = "revoke" THEN r.share ELSE None
            q == Ended(r, link, "granted", FALSE)
<1>1. r \in Request /\ RequestOK(r) /\ r.step = "act" /\ req \in [Threads -> Request \cup {None}]
  BY DEF At, ShareInv, TypeOK
<1>2. r.moot = FALSE
  BY <1>1 DEF RequestOK, Caught, Request
<1>3. req' = [req EXCEPT ![t] = q]
  BY <1>2, Zenon DEF Grant
<1>4. q \in Request /\ q.step = "granted" /\ q.op = r.op /\ q.moot = FALSE
      /\ (r.op = "revoke" => q.share = s)
  BY <1>1 DEF Request, Steps, Ended
<1>. HIDE DEF q
<1>5. req'[t] = q /\ \A u \in Threads \ {t} : req'[u] = req[u]
  BY <1>1, <1>3
<1>6. RequestOK(req[t])'
  <2>1. StepFits(req[t])' /\ ~InFlight(req[t])' /\ req'[t].moot = FALSE
    BY <1>4, <1>5 DEF StepFits, InFlight
  <2>2. req'[t].op = "revoke" => req'[t].share \in drawn' /\ Over(req[t].share)'
    BY <1>4, <1>5 DEF Over
  <2>. QED BY <1>4, <1>5, <2>1, <2>2 DEF RequestOK
<1>. QED BY <1>1, <1>3, <1>4, <1>5, <1>6

\* The INSERT: the foreign key is what LinksHaveArtifacts rests on.
LEMMA InsertKeepsInv ==
    ASSUME ShareInv, NEW t \in Threads, InsertLink(t)
    PROVE  ShareInv' /\ WorldMoves
<1>. DEFINE r == req[t]
<1>1. /\ r \in Request \ {None} /\ RequestOK(r) /\ TypeOK /\ r.step = "act" /\ r.op = "create"
      /\ UNCHANGED <<now, proc, fixed>> /\ At(t, "act")
  BY DEF InsertLink, At, ShareInv, TypeOK
<1>2. InFlight(r) /\ r.art \in Arts
  BY <1>1 DEF RequestOK, InFlight, IdsFit, Request, ShareOps
<1>3. CASE r.art \in arts
  <2>1. PICK s \in Shares \ drawn :
          /\ links' = [links EXCEPT ![s] =
                [art |-> r.art, expires |-> r.expires, revoked |-> None]]
          /\ drawn' = drawn \cup {s}
          /\ held' = held \cup {[kind |-> "secret", share |-> s, art |-> None,
                                 at |-> 0, key |-> 0]}
    BY <1>3 DEF InsertLink, ForeignKeyHolds
  <2>2. Grant(t) /\ arts' = arts
    BY <1>3 DEF InsertLink, ForeignKeyHolds
  <2>3. /\ req' \in [Threads -> Request \cup {None}]
        /\ \A u \in Threads : req'[u] # None => req'[u] = req[u] \/ RequestOK(req[u])'
    BY <1>1, <2>2, GrantIsOK
  <2>4. WorldMoves
    BY <1>1, <2>1, <2>2, ShareAssumption DEF WorldMoves, TypeOK, proc
  <2>5. TypeOK'
    <3>1. [art |-> r.art, expires |-> r.expires, revoked |-> None] \in Link
      BY <1>1, <1>2 DEF Link, Request
    <3>2. links' \in [Shares -> Link \cup {None}]
      BY <1>1, <2>1, <3>1 DEF TypeOK
    <3>3. held' \subseteq Credential /\ \A c \in held' : c.at <= now
      BY <1>1, <2>1, ShareAssumption DEF TypeOK, Credential
    <3>. QED BY <1>1, <2>1, <2>2, <2>3, <3>2, <3>3 DEF TypeOK, proc, fixed
  <2>6. LinksAreDrawn' /\ LinksHaveArtifacts'
    BY <1>1, <1>3, <2>1, <2>2 DEF ShareInv, LinksAreDrawn, LinksHaveArtifacts, TypeOK
  <2>7. HeldIsShaped'
    BY <2>1 DEF ShareInv, HeldIsShaped, Shaped
  <2>. QED BY <2>3, <2>4, <2>5, <2>6, <2>7, WriteStep
<1>4. CASE r.art \notin arts
  <2>1. Refuse(t) /\ UNCHANGED <<db, held>> /\ Gone(r.art)
    BY <1>4 DEF InsertLink, ForeignKeyHolds, Gone
  <2>. QED BY <1>1, <1>2, <2>1, RefuseKeepsInv
<1>. QED BY <1>3, <1>4

\* The UPDATE, whether or not it changes a row.
LEMMA RevokeKeepsInv ==
    ASSUME ShareInv, NEW t \in Threads, UpdateRevoked(t)
    PROVE  ShareInv' /\ WorldMoves
<1>. DEFINE r == req[t]
<1>0. PICK s : s = req[t].share
  OBVIOUS
<1>1. /\ r \in Request /\ RequestOK(r) /\ TypeOK /\ r.step = "act" /\ r.op = "revoke"
      /\ UNCHANGED <<now, proc, fixed, arts, drawn, held>> /\ At(t, "act") /\ Grant(t)
      /\ now \in Nat
  BY ShareAssumption DEF UpdateRevoked, At, ShareInv, TypeOK
<1>2. s \in drawn /\ s \in Shares
  BY <1>0, <1>1 DEF RequestOK, InFlight, IdsFit, TypeOK
<1>3. \/ Revocable(s) /\ links' = [links EXCEPT ![s].revoked = now]
      \/ ~Revocable(s) /\ links' = links
  BY <1>0 DEF UpdateRevoked
<1>4. now # None
  BY <1>1, ShareAssumption
<1>5. links' \in [Shares -> Link \cup {None}]
  BY <1>1, <1>2, <1>3 DEF TypeOK, Link, Dates, Revocable
<1>6. WorldMoves
  BY <1>1, <1>2, <1>3, <1>4 DEF WorldMoves, TypeOK, Link, Revocable, proc
<1>7. Over(s)'
  BY <1>1, <1>2, <1>3, <1>4 DEF Over, Revocable, TypeOK, Link
<1>8. /\ req' \in [Threads -> Request \cup {None}]
      /\ \A u \in Threads : req'[u] # None => req'[u] = req[u] \/ RequestOK(req[u])'
  BY <1>0, <1>1, <1>2, <1>7, GrantIsOK
<1>9. TypeOK'
  BY <1>1, <1>5, <1>8 DEF TypeOK, proc, fixed
<1>10. LinksAreDrawn' /\ LinksHaveArtifacts'
  BY <1>1, <1>2, <1>3 DEF ShareInv, LinksAreDrawn, LinksHaveArtifacts, TypeOK, Link, Revocable
<1>11. HeldIsShaped'
  BY <1>1 DEF ShareInv, HeldIsShaped
<1>. QED BY <1>6, <1>8, <1>9, <1>10, <1>11, WriteStep

\* A response, with what it hands out.
LEMMA RespondKeepsInv ==
    ASSUME ShareInv, NEW t \in Threads, Respond(t)
    PROVE  ShareInv' /\ WorldMoves
<1>. DEFINE r == req[t]
<1>1. /\ r \in Request \ {None} /\ RequestOK(r) /\ TypeOK /\ r.step = "act"
      /\ r.op \notin {"create", "revoke"}
      /\ UNCHANGED <<now, proc, fixed, db>> /\ At(t, "act")
  BY DEF Respond, At, ShareInv, TypeOK
<1>2. InFlight(r) /\ IdsFit(r) /\ r.share \in Shares \cup {None} /\ r.art \in Arts \cup {None}
  BY <1>1 DEF RequestOK, InFlight, Request
<1>3. CASE held' = Replaced(Issued(r)) /\ Grant(t)
  <2>1. /\ req' \in [Threads -> Request \cup {None}]
        /\ \A u \in Threads : req'[u] # None => req'[u] = req[u] \/ RequestOK(req[u])'
    BY <1>1, <1>3, GrantIsOK
  <2>2. WorldMoves
    BY <1>1, ShareAssumption DEF WorldMoves, TypeOK, proc, db
  <2>3. \A c \in Issued(r) : c \in Credential /\ c.at <= now /\ Shaped(c)
    BY <1>1, <1>2 DEF Issued, Credential, Shaped, TypeOK
  <2>4. held' \subseteq Credential /\ (\A c \in held' : c.at <= now) /\ HeldIsShaped'
    BY <1>1, <1>3, <2>3 DEF Replaced, ShareInv, TypeOK, HeldIsShaped, Shaped
  <2>5. TypeOK'
    BY <1>1, <2>1, <2>4 DEF TypeOK, proc, fixed, db
  <2>6. LinksAreDrawn' /\ LinksHaveArtifacts'
    BY <1>1 DEF ShareInv, LinksAreDrawn, LinksHaveArtifacts, db
  <2>. QED BY <2>1, <2>2, <2>4, <2>5, <2>6, WriteStep
<1>4. CASE ReadsBytes(r) /\ r.art \notin arts /\ Refuse(t) /\ UNCHANGED held
  <2>1. r.op # "redeem" /\ r.art \in Arts
    BY <1>1, <1>2, <1>4 DEF ReadsBytes, IdsFit
  <2>2. Gone(r.art)
    BY <1>4 DEF Gone
  <2>. QED BY <1>1, <1>2, <1>4, <2>1, <2>2, RefuseKeepsInv
<1>. QED BY <1>3, <1>4 DEF Respond

\* Deletions take the links along; time passes; neither touches a request.
LEMMA WorldKeepsInv ==
    ASSUME ShareInv, Tick \/ \E a \in Arts : DeleteArtifact(a)
    PROVE  ShareInv' /\ WorldMoves
<1>1. ASSUME NEW a \in Arts, DeleteArtifact(a)
      PROVE  ShareInv' /\ WorldMoves
  <2>1. WorldMoves
    BY <1>1, ShareAssumption DEF DeleteArtifact, WorldMoves, ShareInv, TypeOK, proc, fixed
  <2>2. TypeOK'
    BY <1>1 DEF DeleteArtifact, ShareInv, TypeOK, proc, fixed
  <2>3. LinksAreDrawn' /\ LinksHaveArtifacts' /\ HeldIsShaped'
    BY <1>1 DEF DeleteArtifact, ShareInv, TypeOK, Link, LinksAreDrawn, LinksHaveArtifacts,
      HeldIsShaped
  <2>. QED BY <1>1, <2>1, <2>2, <2>3, WriteStep DEF DeleteArtifact
<1>2. ASSUME Tick
      PROVE  ShareInv' /\ WorldMoves
  <2>1. WorldMoves
    BY <1>2, ShareAssumption DEF Tick, WorldMoves, ShareInv, TypeOK, proc, fixed, db
  <2>2. TypeOK'
    BY <1>2, ShareAssumption DEF Tick, ShareInv, TypeOK, Credential, proc, fixed, db
  <2>3. LinksAreDrawn' /\ LinksHaveArtifacts' /\ HeldIsShaped'
    BY <1>2 DEF Tick, ShareInv, LinksAreDrawn, LinksHaveArtifacts, HeldIsShaped, db
  <2>. QED BY <1>2, <2>1, <2>2, <2>3, WriteStep DEF Tick
<1>. QED BY <1>1, <1>2

\* A restart takes every request with it.
LEMMA RestartKeepsInv ==
    ASSUME ShareInv, Restart
    PROVE  ShareInv'
<1>1. TypeOK'
  BY ShareAssumption DEF Restart, ShareInv, TypeOK, fixed, db
<1>2. LinksAreDrawn' /\ LinksHaveArtifacts' /\ HeldIsShaped'
  BY DEF Restart, ShareInv, LinksAreDrawn, LinksHaveArtifacts, HeldIsShaped, db
<1>3. \A t \in Threads : req'[t] = None
  BY DEF Restart
<1>. QED BY <1>1, <1>2, <1>3 DEF ShareInv

\* Every step, and all it may do to the rows.
LEMMA StepKeepsInv ==
    ASSUME ShareInv, Next
    PROVE  ShareInv' /\ (WorldMoves \/ Restart)
BY ArriveKeepsInv, ReadShareKeepsInv, LoadKeepsInv, InsertKeepsInv, RevokeKeepsInv,
   RespondKeepsInv, EndKeepsInv, WorldKeepsInv, RestartKeepsInv DEF Next, Handler

-----------------------------------------------------------------------------
(* Theorems *)

\* The inductive invariant of sharing: in every behaviour every request in flight is
\* at a step of its handler, and one that is moot has the read that finds out ahead.
THEOREM ShareInvariant == Spec => []ShareInv
<1>1. Init => ShareInv
  <2>. SUFFICES ASSUME Init PROVE ShareInv
    OBVIOUS
  <2>1. TypeOK
    BY ShareAssumption DEF Init, TypeOK
  <2>. QED BY <2>1 DEF Init, ShareInv, LinksAreDrawn, LinksHaveArtifacts, HeldIsShaped
<1>2. ShareInv /\ [Next]_vars => ShareInv'
  <2>. SUFFICES ASSUME ShareInv, [Next]_vars PROVE ShareInv'
    OBVIOUS
  <2>1. CASE Next
    BY <2>1, StepKeepsInv
  <2>2. CASE UNCHANGED vars
    <3>1. TypeOK' /\ WorldMoves
      BY <2>2, ShareAssumption DEF vars, proc, fixed, db, ShareInv, TypeOK, WorldMoves
    <3>2. LinksAreDrawn' /\ LinksHaveArtifacts' /\ HeldIsShaped'
      BY <2>2 DEF vars, db, ShareInv, LinksAreDrawn, LinksHaveArtifacts, HeldIsShaped
    <3>. QED BY <2>2, <3>1, <3>2, WriteStep DEF vars
  <2>. QED BY <2>1, <2>2
<1>. QED BY <1>1, <1>2, PTL DEF Spec

\* A request that arrives after a link, an artifact or a credential has ended gets
\* nothing, however its reads interleave with whatever else goes on.
THEOREM ShareNothingAfterTheEnd == Spec => []NothingAfterTheEnd
<1>1. ShareInv => NothingAfterTheEnd
  BY DEF ShareInv, NothingAfterTheEnd, Granted, At, RequestOK, Caught
<1>. QED BY <1>1, ShareInvariant, PTL

\* Nobody in good standing is turned away.
THEOREM ShareRefusedForAReason == Spec => []RefusedForAReason
<1>1. ShareInv => RefusedForAReason
  BY DEF ShareInv, RefusedForAReason, Refused, At, RequestOK
<1>. QED BY <1>1, ShareInvariant, PTL

\* A revocation that was answered has ended the link.
THEOREM ShareRevocationIsDone == Spec => []RevocationIsDone
<1>1. ShareInv => RevocationIsDone
  BY DEF ShareInv, RevocationIsDone, Granted, At, RequestOK
<1>. QED BY <1>1, ShareInvariant, PTL

\* The foreign key and the cascade leave no link without its artifact.
THEOREM ShareLinksHaveArtifacts == Spec => []LinksHaveArtifacts
BY ShareInvariant, PTL DEF ShareInv

\* The end of a link is final, and so is the date of its revocation.
THEOREM ShareEndIsFinal == Spec => EndIsFinal
<1>. DEFINE Final == \A s \in Shares : s \in drawn /\ Over(s) =>
                      /\ Over(s)'
                      /\ links'[s] # None =>
                            links'[s].revoked = links[s].revoked \/ links[s].revoked = None
<1>1. ShareInv /\ ShareInv' /\ [Next]_vars => [Final]_vars
  <2>. SUFFICES ASSUME ShareInv, ShareInv', Next PROVE Final
    OBVIOUS
  <2>1. CASE WorldMoves
    BY <2>1, OverStays DEF ShareInv, WorldMoves
  <2>2. CASE Restart
    BY <2>2 DEF Restart, db, Over
  <2>. QED BY <2>1, <2>2, StepKeepsInv
<1>. QED BY <1>1, ShareInvariant, PTL DEF Spec, EndIsFinal

\* Every variable keeps its type.
THEOREM ShareTypeOK == Spec => []TypeOK
BY ShareInvariant, PTL DEF ShareInv
=============================================================================
