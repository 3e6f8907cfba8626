------------------------------ MODULE Library ------------------------------
(***************************************************************************)
(* The metadata of published artifacts and the pages built from it: the    *)
(* favourite flag, the provenance a publisher may set later, the names a   *)
(* reader gives to topics, and the library page (storage.py, routers/      *)
(* viewer.py, routers/api.py).  Requests run in threads of their own, each *)
(* with a connection of its own to a database in WAL mode: a read sees     *)
(* what is committed, a write waits for the one writer there can be.       *)
(*                                                                         *)
(* An artifact's bytes and its publishing are in ArtifactStore.  A topic   *)
(* is the triple (platform, chat_name, topic_id) as one value.             *)
(***************************************************************************)
EXTENDS Integers, SequencesExt, FiniteSets

CONSTANTS
  Requests,    \* one call each
  Calls,       \* what a request may ask for (see CallType)
  Tables,      \* what the table artifacts may hold at first
  Newest,      \* the artifacts' ids, the one created last first
  Topics,
  Untitled,    \* the topics of which the platform, the chat or the id is empty
  Names,       \* names of topics
  NoName,      \* NULL
  Blank,       \* a submitted name of white space only
  Gone,        \* no row
  NoRequest

Artifacts == {Newest[i] : i \in DOMAIN Newest}
\* `rev` is auxiliary: how many PATCHes the row has seen.
Row == [topic: Topics, name: Names \union {NoName}, favorite: BOOLEAN, live: BOOLEAN, rev: Nat]
CallType ==
  [op: {"toggle", "delete"}, id: Artifacts]
  \union [op: {"patch"}, id: Artifacts, topic: Topics, name: Names \union {NoName}]
  \union [op: {"rename"}, topic: Topics, name: Names \union {Blank}]
  \union [op: {"index"}, selected: Topics \union {NoName}]

ASSUME LibraryAssumption ==
  /\ Newest \in Seq(Artifacts) /\ IsInjective(Newest)
  /\ Tables \subseteq [Artifacts -> Row \union {Gone}]
  /\ Calls \subseteq CallType /\ Untitled \subseteq Topics
  /\ NoName \notin Names \union Topics /\ Blank \notin Names
  /\ Gone \notin Row /\ NoRequest \notin Requests

VARIABLES
  rows,      \* the table artifacts, as committed
  aliases,   \* the table topic_aliases, NoName where there is no row
  writer,    \* the request whose BEGIN IMMEDIATE holds the write lock
  call,      \* what each request asks for
  at,        \* where its handler is
  seen,      \* the row, or the rows, its handler has read
  status,    \* what it answered
  page,      \* the library page it was given
  \* Auxiliary: they remember, and decide nothing.
  odd,       \* an odd number of toggles of the artifact was committed
  mine,      \* the revision a PATCH wrote
  known      \* the topics a live artifact has ever had

vars == <<rows, aliases, writer, call, at, seen, status, page, odd, mine, known>>
local == <<call, seen, page, mine>>

Places == {"start", "begin", "select", "commit", "update", "reread", "upsert", "aliases", "done"}
Statuses == {0, 200, 204, 303, 404, 410, 422, 500}

TopicsOfLive(table) == {table[a].topic : a \in {b \in Artifacts : table[b] # Gone /\ table[b].live}}

Init ==
  /\ rows \in Tables
  /\ aliases = [t \in Topics |-> NoName]
  /\ writer = NoRequest
  /\ call \in [Requests -> Calls]
  /\ at = [p \in Requests |-> "start"]
  /\ seen = [p \in Requests |-> Gone]
  /\ status = [p \in Requests |-> 0]
  /\ page = [p \in Requests |-> <<>>]
  /\ odd = [a \in Artifacts |-> rows[a] # Gone /\ rows[a].favorite]
  /\ mine = [p \in Requests |-> 0]
  /\ known = TopicsOfLive(rows)

\* connect()'s `finally`, on every way out of a `with` block: the connection is
\* closed, and with it goes what was not committed, the lock included.
Close(p) == writer' = IF writer = p THEN NoRequest ELSE writer

Goto(p, next) == at' = [at EXCEPT ![p] = next] /\ UNCHANGED status
Answer(p, code) == at' = [at EXCEPT ![p] = "done"] /\ status' = [status EXCEPT ![p] = code]

SetRow(a, row) ==
  /\ rows' = [rows EXCEPT ![a] = row]
  /\ known' = known \union TopicsOfLive(rows')

-----------------------------------------------------------------------------
(* load_artifact and _load_live_artifact: 404, 410, or on to the change. *)
LoadArtifact(p) ==
  /\ at[p] = "start" /\ call[p].op \in {"toggle", "patch"}
  /\ LET row == rows[call[p].id] IN
     IF row = Gone THEN Answer(p, 404)
     ELSE IF ~row.live THEN Answer(p, 410)
     ELSE Goto(p, IF call[p].op = "toggle" THEN "begin" ELSE "update")
  /\ seen' = [seen EXCEPT ![p] = rows[call[p].id]]
  /\ UNCHANGED <<rows, aliases, writer, call, page, mine, odd, known>>

\* Mutant: a deferred transaction takes no lock before it reads.
BeginDeferred(p) ==
  /\ at[p] = "begin" /\ writer = NoRequest
  /\ Goto(p, "select")
  /\ UNCHANGED <<rows, aliases, writer, local, odd, known>>

(* ArtifactStore.toggle_favorite: BEGIN IMMEDIATE, SELECT, UPDATE and COMMIT. *)
BeginImmediate(p) ==
  /\ at[p] = "begin" /\ writer = NoRequest
  /\ writer' = p
  /\ Goto(p, "select")
  /\ UNCHANGED <<rows, aliases, local, odd, known>>

SelectFavorite(p) ==
  /\ at[p] = "select"
  /\ IF rows[call[p].id] = Gone
     THEN Answer(p, 404) /\ Close(p) /\ UNCHANGED seen
     ELSE /\ seen' = [seen EXCEPT ![p] = rows[call[p].id]]
          /\ Goto(p, "commit") /\ UNCHANGED writer
  /\ UNCHANGED <<rows, aliases, call, page, mine, odd, known>>

CommitFavorite(p) ==
  LET a == call[p].id IN
  /\ at[p] = "commit"
  /\ SetRow(a, IF rows[a] = Gone THEN Gone ELSE [rows[a] EXCEPT !.favorite = ~seen[p].favorite])
  /\ odd' = [odd EXCEPT ![a] = ~odd[a]]
  /\ Close(p)
  /\ Answer(p, 303)
  /\ UNCHANGED <<aliases, local>>

(* ArtifactStore.update_provenance: one UPDATE, then a read of its own. *)
UpdateProvenance(p) ==
  LET c == call[p] row == rows[c.id] IN
  /\ at[p] = "update" /\ writer = NoRequest
  /\ IF row = Gone THEN Answer(p, 404) /\ UNCHANGED <<rows, mine, known>>
     ELSE /\ SetRow(c.id, [topic |-> c.topic, name |-> c.name, favorite |-> row.favorite,
                          live |-> row.live, rev |-> row.rev + 1])
          /\ mine' = [mine EXCEPT ![p] = row.rev + 1]
          /\ Goto(p, "reread")
  /\ UNCHANGED <<aliases, writer, call, seen, page, odd>>

\* Mutant: the answer is made of the row that was loaded first.
AnswerLoaded(p) ==
  /\ at[p] = "reread"
  /\ Answer(p, 200)
  /\ UNCHANGED <<rows, aliases, writer, local, odd, known>>

Reread(p) ==
  LET row == rows[call[p].id] IN
  /\ at[p] = "reread"
  /\ IF row = Gone THEN Answer(p, 404) /\ UNCHANGED seen
     ELSE seen' = [seen EXCEPT ![p] = row] /\ Answer(p, 200)
  /\ UNCHANGED <<rows, aliases, writer, call, page, mine, odd, known>>

(* ArtifactStore.delete, as far as the row goes. *)
Delete(p) ==
  LET a == call[p].id IN
  /\ at[p] = "start" /\ call[p].op = "delete" /\ writer = NoRequest
  /\ IF rows[a] = Gone THEN Answer(p, 404) /\ UNCHANGED rows
     ELSE Answer(p, 204) /\ rows' = [rows EXCEPT ![a] = Gone]
  /\ UNCHANGED <<aliases, writer, local, odd, known>>

\* Mutant: any topic may be named.
FindUnchecked(p) ==
  /\ at[p] = "start" /\ call[p].op = "rename"
  /\ IF call[p].topic \in Untitled THEN Answer(p, 422) ELSE Goto(p, "upsert")
  /\ UNCHANGED <<rows, aliases, writer, local, odd, known>>

(* set_topic_name: the form's own checks, a look through list_live, then the *)
(* upsert of ArtifactStore.set_topic_alias.                                  *)
FindTopic(p) ==
  /\ at[p] = "start" /\ call[p].op = "rename"
  /\ IF call[p].topic \in Untitled THEN Answer(p, 422)
     ELSE IF call[p].topic \notin TopicsOfLive(rows) THEN Answer(p, 404)
     ELSE Goto(p, "upsert")
  /\ UNCHANGED <<rows, aliases, writer, local, odd, known>>

UpsertAlias(p) ==
  /\ at[p] = "upsert"
  /\ IF call[p].name = Blank
     THEN Answer(p, 500) /\ UNCHANGED aliases
     ELSE /\ writer = NoRequest
          /\ aliases' = [aliases EXCEPT ![call[p].topic] = call[p].name]
          /\ Answer(p, 303)
  /\ UNCHANGED <<rows, writer, local, odd, known>>

-----------------------------------------------------------------------------
\* A row of the page: what the page and its headings use of an artifact.
Entry == [id: Artifacts, topic: Topics, name: Names \union {NoName}, favorite: BOOLEAN]

\* The elements of a list that lie in S, in their order.
Those(list, S) ==
  LET upTo[i \in 0..Len(list)] ==
        IF i = 0 THEN <<>>
        ELSE IF list[i] \in S THEN Append(upTo[i - 1], list[i]) ELSE upTo[i - 1]
  IN  upTo[Len(list)]

(* list_live: favourites first, within that the newest first. *)
LiveOnes(flag) == {a \in Artifacts : rows[a] # Gone /\ rows[a].live /\ rows[a].favorite = flag}
Listing ==
  LET order == Those(Newest, LiveOnes(TRUE)) \o Those(Newest, LiveOnes(FALSE))
  IN [i \in DOMAIN order |-> [id |-> order[i], topic |-> rows[order[i]].topic,
                              name |-> rows[order[i]].name,
                              favorite |-> rows[order[i]].favorite]]

ListLive(p) ==
  /\ at[p] = "start" /\ call[p].op = "index"
  /\ seen' = [seen EXCEPT ![p] = Listing]
  /\ Goto(p, "aliases")
  /\ UNCHANGED <<rows, aliases, writer, call, page, mine, odd, known>>

Label(entry) ==
  IF aliases[entry.topic] # NoName THEN aliases[entry.topic]
  ELSE IF entry.name # NoName THEN entry.name
  ELSE entry.topic

InTopic(listing, t) == Those(listing, {e \in Entry : e.topic = t})
Named(group) == Those(group, {e \in Entry : e.name # NoName})

\* Mutant: an artifact's own name replaces the heading whether there is an alias or not.
HeadingOfLast(group) ==
  IF Named(group) # <<>> THEN Last(Named(group)).name ELSE Label(Head(group))

(* The heading of a topic: the first artifact's label, and where no alias is *)
(* known the name of each later artifact that has one.                       *)
Heading(group) ==
  IF aliases[Head(group).topic] = NoName /\ Named(group) # <<>> THEN Last(Named(group)).name
  ELSE Label(Head(group))

(* The rest of index: the aliases are read after the artifacts. *)
Page(listing, selected) ==
  [shown |-> IF selected = NoName THEN listing ELSE InTopic(listing, selected),
   labels |-> [i \in DOMAIN listing |-> Label(listing[i])],
   topics |-> {[topic |-> t, heading |-> Heading(InTopic(listing, t)),
                count |-> Len(InTopic(listing, t))] :
                 t \in {listing[i].topic : i \in DOMAIN listing}}]

RenderIndex(p) ==
  /\ at[p] = "aliases"
  /\ page' = [page EXCEPT ![p] = Page(seen[p], call[p].selected)]
  /\ Answer(p, 200)
  /\ UNCHANGED <<rows, aliases, writer, call, seen, mine, odd, known>>

-----------------------------------------------------------------------------
\* A statement can be where the request is: its form is not refused before that.
AtStatement(p) ==
  at[p] # "done" /\ ~(at[p] = "start" /\ call[p].op = "rename" /\ call[p].topic \in Untitled)

\* Mutant: connect() closes the connection behind its `yield`, without a `finally`.
RaiseUnclosed(p) ==
  /\ AtStatement(p)
  /\ Answer(p, 500)
  /\ UNCHANGED <<rows, aliases, writer, local, odd, known>>

(* The statement raises: a write has waited busy_timeout for the lock, or the *)
(* disk is full or failing.  No handler catches it, connect() closes.         *)
Raise(p) ==
  /\ AtStatement(p)
  /\ Answer(p, 500)
  /\ Close(p)
  /\ UNCHANGED <<rows, aliases, local, odd, known>>

(* An artifact's time runs out. *)
Expire(a) ==
  /\ rows[a] # Gone /\ rows[a].live
  /\ SetRow(a, [rows[a] EXCEPT !.live = FALSE])
  /\ UNCHANGED <<aliases, writer, local, at, status, odd>>

(* The process dies: what was not committed is gone, nobody gets an answer. *)
Crash ==
  /\ \E p \in Requests : at[p] \notin {"start", "done"}
  /\ at' = [p \in Requests |-> IF at[p] = "start" THEN "start" ELSE "done"]
  /\ writer' = NoRequest
  /\ UNCHANGED <<rows, aliases, local, status, odd, known>>

Handle(p) ==
  \/ LoadArtifact(p) \/ BeginImmediate(p) \/ SelectFavorite(p) \/ CommitFavorite(p)
  \/ UpdateProvenance(p) \/ Reread(p) \/ Delete(p) \/ FindTopic(p) \/ UpsertAlias(p)
  \/ ListLive(p) \/ RenderIndex(p)

Finished == (\A p \in Requests : at[p] = "done") /\ UNCHANGED vars

Next ==
  \/ \E p \in Requests : Handle(p) \/ Raise(p)
  \/ \E a \in Artifacts : Expire(a)
  \/ Crash \/ Finished

Spec == Init /\ [][Next]_vars

-----------------------------------------------------------------------------
(* Every variable keeps its type. *)
TypeOK ==
  /\ rows \in [Artifacts -> Row \union {Gone}]
  /\ aliases \in [Topics -> Names \union {NoName}]
  /\ writer \in Requests \union {NoRequest}
  /\ call \in [Requests -> Calls] /\ at \in [Requests -> Places] /\ DOMAIN seen = Requests
  /\ status \in [Requests -> Statuses]
  /\ odd \in [Artifacts -> BOOLEAN] /\ mine \in [Requests -> Nat] /\ known \subseteq Topics

(* No press of the star is lost (storage.py:208-226): an artifact is a       *)
(* favourite exactly when it was toggled an odd number of times, whoever     *)
(* toggled it at the same time, gave up, or died half way.                   *)
ToggleParity == \A a \in Artifacts : rows[a] # Gone => (rows[a].favorite = odd[a])

(* The answer to a PATCH (storage.py:255) shows what it wrote, or what a     *)
(* later PATCH made of it, never anything older.                             *)
AnswerNotStale ==
  \A p \in Requests :
    call[p].op = "patch" /\ status[p] = 200 => seen[p].rev >= mine[p] /\ mine[p] > 0

(* set_topic_name (viewer.py:310-335) names a topic only if an artifact that *)
(* could be read had it, though the look and the upsert are two transactions.*)
AliasNamesKnownTopic == \A t \in Topics : aliases[t] # NoName => t \in known \ Untitled

\* What a page has to say of the listing it was made from.
InOrder(listing) ==
  \A i, j \in DOMAIN listing : i < j /\ listing[j].favorite => listing[i].favorite

PageFits(pg, listing, selected) ==
  /\ \A g \in pg.topics :
       /\ \E i \in DOMAIN listing : listing[i].topic = g.topic /\ pg.labels[i] = g.heading
       /\ g.count = Cardinality({i \in DOMAIN listing : listing[i].topic = g.topic})
  /\ selected # NoName =>
       /\ \A i \in DOMAIN pg.shown : pg.shown[i].topic = selected
       /\ \/ \E g \in pg.topics : g.topic = selected /\ g.count = Len(pg.shown)
          \/ pg.shown = <<>> /\ \A g \in pg.topics : g.topic # selected
  /\ InOrder(pg.shown)

(* The library page (viewer.py:233-307): the heading of every topic is the   *)
(* label of one of its artifacts, the counts add up, the page of one topic   *)
(* shows that topic's artifacts and no others, and favourites come before    *)
(* all other artifacts.                                                      *)
PageAgrees ==
  \A p \in Requests : page[p] # <<>> => PageFits(page[p], seen[p], call[p].selected)

(* Whoever has an answer, an error included, does not hold the write lock:    *)
(* one of the statements between BEGIN IMMEDIATE and COMMIT                   *)
(* (storage.py:213-225) may raise, and it is connect() (db.py:95-96) that     *)
(* keeps every later writer from waiting for a transaction nobody will end.   *)
AnsweredHoldsNoLock == \A p \in Requests : at[p] = "done" => writer # p

-----------------------------------------------------------------------------
(* The inductive invariant: who may be where, and what it may rely on there. *)
Placed ==
  \A p \in Requests :
    /\ at[p] # "done" => status[p] = 0
    /\ at[p] \in {"begin", "select", "commit"} => call[p].op = "toggle"
    /\ at[p] \in {"update", "reread"} => call[p].op = "patch"
    /\ at[p] = "aliases" => call[p].op = "index"
    /\ at[p] = "upsert" => call[p].op = "rename" /\ call[p].topic \in known \ Untitled

OneWriter ==
  \A p \in Requests :
    /\ at[p] \in {"select", "commit"} <=> writer = p
    /\ at[p] = "commit" => /\ rows[call[p].id] # Gone
                           /\ seen[p].favorite = rows[call[p].id].favorite

RevisionsGrow ==
  \A p \in Requests :
    at[p] = "reread" =>
      mine[p] > 0 /\ (rows[call[p].id] # Gone => rows[call[p].id].rev >= mine[p])

LiveTopicsKnown == TopicsOfLive(rows) \subseteq known

LibraryInv ==
  /\ TypeOK /\ ToggleParity /\ AnswerNotStale /\ AliasNamesKnownTopic
  /\ Placed /\ OneWriter /\ RevisionsGrow /\ LiveTopicsKnown

\* The page, between its two reads and after them; a page that was given stays as it is.
PagesInv ==
  /\ \A p \in Requests : at[p] = "aliases" => seen[p] \in Seq(Entry) /\ InOrder(seen[p])
  /\ \A p \in Requests : page[p] # <<>> => at[p] = "done"
  /\ PageAgrees

=============================================================================
