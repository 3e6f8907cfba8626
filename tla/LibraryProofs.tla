---------------------------- MODULE LibraryProofs ----------------------------
(***************************************************************************)
(* Theorems about Library for every set of requests and calls and every    *)
(* table it may start from, as LibraryAssumption allows.                   *)
(***************************************************************************)
EXTENDS Library, SequenceTheorems, FiniteSetTheorems, WellFoundedInduction, TLAPS

LEMMA LiveTopicsTyped ==
  ASSUME NEW table \in [Artifacts -> Row \union {Gone}]
  PROVE  TopicsOfLive(table) \subseteq Topics
BY DEF TopicsOfLive, Row

\* The steps that write no table: what a request has read, where it is, what it says.
LEMMA ReadersKeep ==
  ASSUME LibraryInv, NEW p \in Requests,
         LoadArtifact(p) \/ Reread(p) \/ FindTopic(p) \/ ListLive(p) \/ RenderIndex(p)
  PROVE  LibraryInv'
<1>1. UNCHANGED <<rows, aliases, writer, call, mine, odd, known>>
  BY DEF LoadArtifact, Reread, FindTopic, ListLive, RenderIndex, local
<1>2. /\ at' \in [Requests -> Places] /\ status' \in [Requests -> Statuses]
      /\ \A q \in Requests \ {p} : at'[q] = at[q] /\ status'[q] = status[q]
      /\ DOMAIN seen' = Requests
      /\ \A q \in Requests \ {p} : seen'[q] = seen[q]
      /\ at[p] \notin {"select", "commit", "done"} /\ at'[p] \notin {"select", "commit"}
  <2>1. /\ at \in [Requests -> Places] /\ status \in [Requests -> Statuses]
        /\ DOMAIN seen = Requests
    BY DEF LibraryInv, TypeOK
  <2>2. /\ DOMAIN seen' = Requests
        /\ \A q \in Requests \ {p} : seen'[q] = seen[q]
    BY <2>1 DEF LoadArtifact, Reread, FindTopic, ListLive, RenderIndex, local
  <2>3. \/ Goto(p, "begin") \/ Goto(p, "update") \/ Goto(p, "upsert") \/ Goto(p, "aliases")
        \/ \E code \in Statuses : Answer(p, code)
    <3>1. {200, 404, 410, 422, 500} \subseteq Statuses
      BY DEF Statuses
    <3>2. \/ Goto(p, "begin") \/ Goto(p, "update") \/ Goto(p, "upsert") \/ Goto(p, "aliases")
          \/ Answer(p, 200) \/ Answer(p, 404) \/ Answer(p, 410) \/ Answer(p, 422)
          \/ Answer(p, 500)
      <4>1. CASE LoadArtifact(p)
        BY <4>1 DEF LoadArtifact
      <4>2. CASE FindTopic(p) \/ ListLive(p) \/ Reread(p)
        BY <4>2 DEF FindTopic, ListLive, Reread
      <4>3. CASE RenderIndex(p)
        BY <4>3 DEF RenderIndex
      <4>4. QED BY <4>1, <4>2, <4>3
    <3>3. QED BY <3>1, <3>2
  <2>4. at[p] \notin {"select", "commit", "done"}
    BY DEF LoadArtifact, Reread, FindTopic, ListLive, RenderIndex
  <2>5. QED BY <2>1, <2>2, <2>3, <2>4 DEF Goto, Answer, Places
<1>3. TypeOK' /\ ToggleParity' /\ AliasNamesKnownTopic' /\ LiveTopicsKnown' /\ OneWriter'
  BY <1>1, <1>2 DEF LibraryInv, TypeOK, ToggleParity, AliasNamesKnownTopic, LiveTopicsKnown,
                    TopicsOfLive, OneWriter
<1>4. Placed'
  <2>1. /\ at'[p] # "done" => status'[p] = 0
        /\ at'[p] \in {"begin", "select", "commit"} => call[p].op = "toggle"
        /\ at'[p] \in {"update", "reread"} => call[p].op = "patch"
        /\ at'[p] = "aliases" => call[p].op = "index"
        /\ at'[p] = "upsert" => call[p].op = "rename" /\ call[p].topic \in known \ Untitled
    <3>1. CASE LoadArtifact(p)
      BY <3>1 DEF LibraryInv, TypeOK, Placed, LoadArtifact, Goto, Answer
    <3>2. CASE FindTopic(p)
      BY <3>2 DEF LibraryInv, TypeOK, Placed, LiveTopicsKnown, FindTopic, Goto, Answer
    <3>3. CASE ListLive(p)
      BY <3>3 DEF LibraryInv, TypeOK, Placed, ListLive, Goto, Answer
    <3>4. CASE Reread(p) \/ RenderIndex(p)
      BY <3>4 DEF LibraryInv, TypeOK, Reread, RenderIndex, Answer
    <3>5. QED BY <3>1, <3>2, <3>3, <3>4
  <2>2. QED BY <1>1, <1>2, <2>1 DEF LibraryInv, Placed
<1>5. at'[p] # "reread"
  BY <1>2 DEF LibraryInv, TypeOK, LoadArtifact, Reread, FindTopic, ListLive, RenderIndex,
              Goto, Answer
<1>6. RevisionsGrow'
  BY <1>1, <1>2, <1>5 DEF LibraryInv, RevisionsGrow
<1>7. AnswerNotStale'
  <2>1. CASE Reread(p)
    <3>1. call[p].op = "patch" /\ status'[p] = 200 => seen'[p].rev >= mine[p] /\ mine[p] > 0
      BY <2>1 DEF LibraryInv, TypeOK, RevisionsGrow, Reread, Answer
    <3>2. QED BY <1>1, <1>2, <3>1 DEF LibraryInv, AnswerNotStale
  <2>2. CASE LoadArtifact(p) \/ FindTopic(p) \/ ListLive(p) \/ RenderIndex(p)
    <3>1. call[p].op = "patch" => status'[p] # 200
      <4>1. status[p] = 0 /\ at[p] # "done"
        BY <2>2 DEF LibraryInv, Placed, LoadArtifact, FindTopic, ListLive, RenderIndex
      <4>2. CASE RenderIndex(p)
        BY <4>2 DEF LibraryInv, Placed, RenderIndex
      <4>3. CASE LoadArtifact(p) \/ FindTopic(p) \/ ListLive(p)
        BY <4>1, <4>3 DEF LibraryInv, TypeOK, LoadArtifact, FindTopic, ListLive, Goto, Answer
      <4>4. QED BY <2>2, <4>2, <4>3
    <3>2. QED BY <1>1, <1>2, <3>1 DEF LibraryInv, AnswerNotStale
  <2>3. QED BY <2>1, <2>2
<1>8. QED BY <1>3, <1>4, <1>6, <1>7 DEF LibraryInv

\* Who fails answers, and gives up the lock if it has it; of the tables nothing changes.
LEMMA RaiseKeeps ==
  ASSUME LibraryInv, NEW p \in Requests, Raise(p)
  PROVE  LibraryInv'
<1>1. /\ UNCHANGED <<rows, aliases, call, seen, mine, odd, known>>
      /\ at' = [at EXCEPT ![p] = "done"] /\ status' = [status EXCEPT ![p] = 500]
      /\ writer' = IF writer = p THEN NoRequest ELSE writer
  BY DEF Raise, Answer, Close, local
<1>2. TypeOK' /\ ToggleParity' /\ AliasNamesKnownTopic' /\ LiveTopicsKnown'
  BY <1>1 DEF LibraryInv, TypeOK, Places, Statuses, ToggleParity, AliasNamesKnownTopic,
              LiveTopicsKnown, TopicsOfLive
<1>3. AnswerNotStale' /\ Placed' /\ RevisionsGrow'
  BY <1>1 DEF LibraryInv, TypeOK, AnswerNotStale, Placed, RevisionsGrow
<1>4. OneWriter'
  BY <1>1, LibraryAssumption DEF LibraryInv, TypeOK, OneWriter
<1>5. QED BY <1>2, <1>3, <1>4 DEF LibraryInv

\* A toggle takes the lock, and gives it back when there is nothing to toggle.
LEMMA LockStepsKeep ==
  ASSUME LibraryInv, NEW p \in Requests, BeginImmediate(p) \/ SelectFavorite(p)
  PROVE  LibraryInv'
<1>1. /\ UNCHANGED <<rows, aliases, call, mine, odd, known>>
      /\ at[p] \in {"begin", "select"} /\ call[p].op = "toggle"
  BY DEF LibraryInv, Placed, BeginImmediate, SelectFavorite, local
<1>2. /\ at' \in [Requests -> Places] /\ status' \in [Requests -> Statuses]
      /\ \A q \in Requests \ {p} : at'[q] = at[q] /\ status'[q] = status[q] /\ seen'[q] = seen[q]
      /\ DOMAIN seen' = Requests /\ writer' \in Requests \union {NoRequest}
      /\ at'[p] \in {"select", "commit", "done"} /\ (at'[p] # "done" => status'[p] = 0)
  BY DEF LibraryInv, TypeOK, Placed, Places, Statuses, BeginImmediate, SelectFavorite, local,
         Goto, Answer, Close
<1>3. TypeOK' /\ ToggleParity' /\ AliasNamesKnownTopic' /\ LiveTopicsKnown'
  BY <1>1, <1>2 DEF LibraryInv, TypeOK, ToggleParity, AliasNamesKnownTopic, LiveTopicsKnown,
                    TopicsOfLive
<1>4. Placed' /\ RevisionsGrow' /\ AnswerNotStale'
  BY <1>1, <1>2 DEF LibraryInv, Placed, RevisionsGrow, AnswerNotStale
<1>5. OneWriter'
  <2>1. \A q \in Requests \ {p} : at[q] \notin {"select", "commit"} /\ writer' # q
    <3>1. writer \in {p, NoRequest} /\ writer' \in {p, NoRequest}
      BY DEF LibraryInv, OneWriter, BeginImmediate, SelectFavorite, Close
    <3>2. QED BY <3>1, LibraryAssumption DEF LibraryInv, OneWriter
  <2>2. /\ at'[p] \in {"select", "commit"} <=> writer' = p
        /\ at'[p] = "commit" => /\ rows[call[p].id] # Gone
                                /\ seen'[p].favorite = rows[call[p].id].favorite
    BY LibraryAssumption
       DEF LibraryInv, TypeOK, OneWriter, BeginImmediate, SelectFavorite, Goto, Answer, Close, local
  <2>3. QED BY <1>1, <1>2, <2>1, <2>2 DEF OneWriter
<1>6. QED BY <1>3, <1>4, <1>5 DEF LibraryInv

\* Each call names what its kind of call has.
LEMMA CallFields ==
  ASSUME LibraryInv, NEW p \in Requests
  PROVE  /\ call[p].op \in {"toggle", "delete", "patch"} => call[p].id \in Artifacts
         /\ call[p].op = "patch" => call[p].topic \in Topics /\ call[p].name \in Names \union {NoName}
         /\ call[p].op = "rename" => call[p].topic \in Topics /\ call[p].name \in Names \union {Blank}
<1>1. call[p] \in CallType
  BY LibraryAssumption DEF LibraryInv, TypeOK
<1>2. QED BY <1>1 DEF CallType

\* The one writer puts back the opposite of what it read, and nobody wrote in between.
LEMMA CommitKeeps ==
  ASSUME LibraryInv, NEW p \in Requests, CommitFavorite(p)
  PROVE  LibraryInv'
<1> DEFINE a == call[p].id
           row == rows[a]
<1>1. /\ UNCHANGED <<aliases, call, seen, mine>>
      /\ at[p] = "commit" /\ call[p].op = "toggle" /\ writer = p /\ a \in Artifacts
      /\ row \in Row /\ row # Gone /\ seen[p].favorite = row.favorite
  BY CallFields DEF LibraryInv, TypeOK, Placed, OneWriter, CommitFavorite, local
<1>2. /\ rows' = [rows EXCEPT ![a] = [row EXCEPT !.favorite = ~row.favorite]]
      /\ known' = known \union TopicsOfLive(rows')
      /\ odd' = [odd EXCEPT ![a] = ~odd[a]] /\ writer' = NoRequest
      /\ at' = [at EXCEPT ![p] = "done"] /\ status' = [status EXCEPT ![p] = 303]
  BY <1>1 DEF CommitFavorite, SetRow, Answer, Close
<1>3. /\ rows' \in [Artifacts -> Row \union {Gone}] /\ rows'[a].favorite = ~row.favorite
      /\ rows'[a].rev = row.rev /\ rows'[a] # Gone
      /\ \A b \in Artifacts \ {a} : rows'[b] = rows[b]
  <2>1. [row EXCEPT !.favorite = ~row.favorite] \in Row
    BY <1>1 DEF Row
  <2>2. QED BY <1>1, <1>2, <2>1, LibraryAssumption DEF LibraryInv, TypeOK, Row
<1>4. known' \subseteq Topics /\ known \subseteq known' /\ LiveTopicsKnown'
  BY <1>2, <1>3, LiveTopicsTyped DEF LibraryInv, TypeOK, LiveTopicsKnown
<1>5. TypeOK'
  <2>1. at' \in [Requests -> Places] /\ status' \in [Requests -> Statuses]
    BY <1>2 DEF LibraryInv, TypeOK, Places, Statuses
  <2>2. odd' \in [Artifacts -> BOOLEAN]
    BY <1>2 DEF LibraryInv, TypeOK
  <2>3. rows' \in [Artifacts -> Row \union {Gone}] /\ known' \subseteq Topics
    BY <1>3, <1>4
  <2>4. QED BY <1>1, <1>2, <2>1, <2>2, <2>3 DEF LibraryInv, TypeOK
<1>6. ToggleParity'
  <2>1. odd[a] \in BOOLEAN /\ row.favorite = odd[a] /\ odd'[a] = ~odd[a]
    BY <1>1, <1>2 DEF LibraryInv, TypeOK, ToggleParity
  <2>2. \A b \in Artifacts \ {a} : odd'[b] = odd[b]
    BY <1>2 DEF LibraryInv, TypeOK
  <2>3. QED BY <1>3, <2>1, <2>2 DEF LibraryInv, ToggleParity
<1>7. AliasNamesKnownTopic' /\ Placed' /\ AnswerNotStale'
  BY <1>1, <1>2, <1>4 DEF LibraryInv, TypeOK, AliasNamesKnownTopic, Placed, AnswerNotStale
<1>8. OneWriter' /\ RevisionsGrow'
  <2>1. OneWriter'
    BY <1>1, <1>2, LibraryAssumption DEF LibraryInv, TypeOK, OneWriter
  <2>2. RevisionsGrow'
    <3>1. ASSUME NEW q \in Requests, at'[q] = "reread"
          PROVE  mine'[q] > 0 /\ (rows'[call'[q].id] # Gone => rows'[call'[q].id].rev >= mine'[q])
      <4>1. at[q] = "reread" /\ mine'[q] = mine[q] /\ call'[q] = call[q]
        BY <1>1, <1>2, <3>1 DEF LibraryInv, TypeOK
      <4>2. call[q].id \in Artifacts
        BY <4>1, CallFields DEF LibraryInv, Placed
      <4>3. mine[q] > 0 /\ (rows[call[q].id] # Gone => rows[call[q].id].rev >= mine[q])
        BY <4>1 DEF LibraryInv, RevisionsGrow
      <4>4. rows'[call[q].id].rev = rows[call[q].id].rev /\ (rows[call[q].id] = Gone => call[q].id # a)
        BY <1>1, <1>3, <4>1, <4>2
      <4>5. rows'[call[q].id] # Gone => rows[call[q].id] # Gone
        BY <1>1, <1>3, <4>1, <4>2
      <4>6. QED BY <4>1, <4>3, <4>4, <4>5
    <3>2. QED BY <3>1 DEF RevisionsGrow
  <2>3. QED BY <2>1, <2>2
<1>9. QED BY <1>4, <1>5, <1>6, <1>7, <1>8 DEF LibraryInv

\* While no transaction is open, nobody relies on a favourite it has read.
LEMMA NobodyInside ==
  ASSUME LibraryInv, writer = NoRequest
  PROVE  \A q \in Requests : at[q] \notin {"select", "commit"}
BY LibraryAssumption DEF LibraryInv, OneWriter

LEMMA UpdateKeeps ==
  ASSUME LibraryInv, NEW p \in Requests, UpdateProvenance(p)
  PROVE  LibraryInv'
<1> DEFINE c == call[p]
           row == rows[c.id]
           new == [topic |-> c.topic, name |-> c.name, favorite |-> row.favorite,
                   live |-> row.live, rev |-> row.rev + 1]
<1>1. /\ UNCHANGED <<aliases, writer, call, seen, odd>>
      /\ at[p] = "update" /\ c.op = "patch" /\ writer = NoRequest /\ status[p] = 0
      /\ c.id \in Artifacts /\ c.topic \in Topics /\ c.name \in Names \union {NoName}
      /\ row \in Row \union {Gone}
      /\ \A q \in Requests : at[q] \notin {"select", "commit"}
  BY CallFields, NobodyInside DEF LibraryInv, TypeOK, Placed, UpdateProvenance
<1>2. CASE row = Gone
  <2>1. /\ UNCHANGED <<rows, mine, known>>
        /\ at' = [at EXCEPT ![p] = "done"] /\ status' = [status EXCEPT ![p] = 404]
    BY <1>2 DEF UpdateProvenance, Answer
  <2>2. TypeOK' /\ ToggleParity' /\ AliasNamesKnownTopic' /\ LiveTopicsKnown'
    BY <1>1, <2>1 DEF LibraryInv, TypeOK, Places, Statuses, ToggleParity,
                      AliasNamesKnownTopic, LiveTopicsKnown, TopicsOfLive
  <2>3. AnswerNotStale' /\ Placed' /\ OneWriter' /\ RevisionsGrow'
    BY <1>1, <2>1 DEF LibraryInv, TypeOK, AnswerNotStale, Placed, OneWriter, RevisionsGrow
  <2>4. QED BY <2>2, <2>3 DEF LibraryInv
<1>3. CASE row # Gone
  <2>1. /\ rows' = [rows EXCEPT ![c.id] = new] /\ known' = known \union TopicsOfLive(rows')
        /\ mine' = [mine EXCEPT ![p] = row.rev + 1]
        /\ at' = [at EXCEPT ![p] = "reread"] /\ status' = status
    BY <1>3 DEF UpdateProvenance, SetRow, Goto
  <2>2. /\ new \in Row /\ new.favorite = row.favorite /\ new.rev = row.rev + 1 /\ new # Gone
        /\ row.rev \in Nat
    BY <1>1, <1>3, LibraryAssumption DEF Row
  <2>3. /\ rows' \in [Artifacts -> Row \union {Gone}] /\ rows'[c.id] = new
        /\ \A b \in Artifacts \ {c.id} : rows'[b] = rows[b]
    BY <1>1, <2>1, <2>2 DEF LibraryInv, TypeOK
  <2>4. known' \subseteq Topics /\ known \subseteq known' /\ LiveTopicsKnown'
    BY <2>1, <2>3, LiveTopicsTyped DEF LibraryInv, TypeOK, LiveTopicsKnown
  <2>5. /\ mine' \in [Requests -> Nat] /\ mine'[p] = row.rev + 1
        /\ \A q \in Requests \ {p} : mine'[q] = mine[q] /\ at'[q] = at[q]
        /\ at' \in [Requests -> Places] /\ at'[p] = "reread"
    BY <2>1, <2>2 DEF LibraryInv, TypeOK, Places
  <2>6. TypeOK'
    BY <1>1, <2>1, <2>3, <2>4, <2>5 DEF LibraryInv, TypeOK
  <2>7. ToggleParity'
    BY <1>1, <1>3, <2>2, <2>3 DEF LibraryInv, ToggleParity
  <2>8. AnswerNotStale' /\ Placed' /\ AliasNamesKnownTopic' /\ OneWriter'
    <3>1. AnswerNotStale'
      BY <1>1, <2>1, <2>5 DEF LibraryInv, AnswerNotStale, Placed
    <3>2. Placed'
      BY <1>1, <2>1, <2>4, <2>5 DEF LibraryInv, Placed
    <3>3. AliasNamesKnownTopic'
      BY <1>1, <2>1, <2>4 DEF LibraryInv, AliasNamesKnownTopic
    <3>4. OneWriter'
      BY <1>1, <2>1, <2>5 DEF LibraryInv, OneWriter
    <3>5. QED BY <3>1, <3>2, <3>3, <3>4
  <2>9. RevisionsGrow'
    <3>1. SUFFICES ASSUME NEW q \in Requests, at'[q] = "reread"
                   PROVE  mine'[q] > 0 /\ (rows'[call[q].id] # Gone => rows'[call[q].id].rev >= mine'[q])
      BY <1>1 DEF RevisionsGrow
    <3>2. CASE q = p
      BY <2>2, <2>3, <2>5, <3>2
    <3>3. CASE q # p
      <4>1. /\ at[q] = "reread" /\ mine'[q] = mine[q] /\ mine[q] \in Nat /\ mine[q] > 0
            /\ rows[call[q].id] # Gone => rows[call[q].id].rev >= mine[q]
            /\ call[q].id \in Artifacts
        BY <2>5, <3>1, <3>3, CallFields DEF LibraryInv, TypeOK, RevisionsGrow, Placed
      <4>2. QED BY <1>3, <2>2, <2>3, <4>1
    <3>4. QED BY <3>2, <3>3
  <2>10. QED BY <2>4, <2>6, <2>7, <2>8, <2>9 DEF LibraryInv
<1>4. QED BY <1>2, <1>3

LEMMA DeleteKeeps ==
  ASSUME LibraryInv, NEW p \in Requests, Delete(p)
  PROVE  LibraryInv'
<1> DEFINE a == call[p].id
<1>1. /\ UNCHANGED <<aliases, writer, call, seen, mine, odd, known>>
      /\ at[p] = "start" /\ call[p].op = "delete" /\ a \in Artifacts
      /\ \A q \in Requests : at[q] \notin {"select", "commit"}
  BY CallFields, NobodyInside DEF LibraryInv, Delete, local
<1>2. /\ rows' \in [Artifacts -> Row \union {Gone}]
      /\ \A b \in Artifacts : rows'[b] \in {rows[b], Gone}
      /\ at' = [at EXCEPT ![p] = "done"]
      /\ status' \in [Requests -> Statuses] /\ status'[p] # 200
      /\ \A q \in Requests \ {p} : status'[q] = status[q]
  BY <1>1 DEF LibraryInv, TypeOK, Statuses, Delete, Answer
<1>3. TypeOK' /\ ToggleParity' /\ AliasNamesKnownTopic'
  BY <1>1, <1>2 DEF LibraryInv, TypeOK, Places, ToggleParity, AliasNamesKnownTopic
<1>4. LiveTopicsKnown'
  BY <1>1, <1>2 DEF LibraryInv, LiveTopicsKnown, TopicsOfLive
<1>5. AnswerNotStale' /\ Placed' /\ OneWriter'
  BY <1>1, <1>2 DEF LibraryInv, TypeOK, AnswerNotStale, Placed, OneWriter
<1>6. RevisionsGrow'
  BY <1>1, <1>2, CallFields DEF LibraryInv, TypeOK, RevisionsGrow, Placed
<1>7. QED BY <1>3, <1>4, <1>5, <1>6 DEF LibraryInv

LEMMA UpsertKeeps ==
  ASSUME LibraryInv, NEW p \in Requests, UpsertAlias(p)
  PROVE  LibraryInv'
<1>1. /\ UNCHANGED <<rows, writer, call, seen, mine, odd, known>>
      /\ at[p] = "upsert" /\ call[p].op = "rename" /\ call[p].topic \in known \ Untitled
      /\ call[p].topic \in Topics /\ call[p].name \in Names \union {Blank}
  BY CallFields DEF LibraryInv, Placed, UpsertAlias, local
<1>2. /\ at' = [at EXCEPT ![p] = "done"] /\ status' \in [Requests -> Statuses]
      /\ \A q \in Requests \ {p} : status'[q] = status[q]
      /\ \/ aliases' = aliases
         \/ aliases' = [aliases EXCEPT ![call[p].topic] = call[p].name] /\ call[p].name # Blank
  BY DEF LibraryInv, TypeOK, Statuses, UpsertAlias, Answer
<1>3. TypeOK' /\ ToggleParity' /\ LiveTopicsKnown'
  BY <1>1, <1>2 DEF LibraryInv, TypeOK, Places, ToggleParity, LiveTopicsKnown, TopicsOfLive
<1>4. AliasNamesKnownTopic'
  BY <1>1, <1>2 DEF LibraryInv, TypeOK, AliasNamesKnownTopic
<1>5. AnswerNotStale' /\ Placed' /\ OneWriter' /\ RevisionsGrow'
  BY <1>1, <1>2 DEF LibraryInv, TypeOK, AnswerNotStale, Placed, OneWriter, RevisionsGrow
<1>6. QED BY <1>3, <1>4, <1>5 DEF LibraryInv

LEMMA ExpireKeeps ==
  ASSUME LibraryInv, NEW a \in Artifacts, Expire(a)
  PROVE  LibraryInv'
<1>1. /\ UNCHANGED <<aliases, writer, call, seen, mine, odd, at, status>>
      /\ rows[a] \in Row /\ rows[a] # Gone
      /\ rows' = [rows EXCEPT ![a] = [rows[a] EXCEPT !.live = FALSE]]
      /\ known' = known \union TopicsOfLive(rows')
  BY DEF LibraryInv, TypeOK, Expire, SetRow, local
<1>2. /\ rows' \in [Artifacts -> Row \union {Gone}] /\ rows'[a] # Gone
      /\ rows'[a].favorite = rows[a].favorite /\ rows'[a].rev = rows[a].rev
      /\ \A b \in Artifacts \ {a} : rows'[b] = rows[b]
  <2>1. [rows[a] EXCEPT !.live = FALSE] \in Row
    BY <1>1 DEF Row
  <2>2. /\ [rows[a] EXCEPT !.live = FALSE].favorite = rows[a].favorite
        /\ [rows[a] EXCEPT !.live = FALSE].rev = rows[a].rev
    BY <1>1 DEF Row
  <2>3. [rows[a] EXCEPT !.live = FALSE] # Gone
    BY <2>1, LibraryAssumption
  <2> DEFINE row == [rows[a] EXCEPT !.live = FALSE]
  <2> HIDE DEF row
  <2>4. rows' = [rows EXCEPT ![a] = row] /\ rows \in [Artifacts -> Row \union {Gone}]
    BY <1>1 DEF row, LibraryInv, TypeOK
  <2>5. row \in Row /\ row # Gone /\ row.favorite = rows[a].favorite /\ row.rev = rows[a].rev
    BY <2>1, <2>2, <2>3 DEF row
  <2>6. QED BY <2>4, <2>5
<1>3. known' \subseteq Topics /\ known \subseteq known' /\ LiveTopicsKnown'
  BY <1>1, <1>2 DEF LibraryInv, TypeOK, LiveTopicsKnown, TopicsOfLive, Row
<1>4. TypeOK' /\ ToggleParity'
  BY <1>1, <1>2, <1>3 DEF LibraryInv, TypeOK, ToggleParity
<1>5. AnswerNotStale' /\ Placed' /\ AliasNamesKnownTopic'
  BY <1>1, <1>3 DEF LibraryInv, AnswerNotStale, Placed, AliasNamesKnownTopic
<1>6. OneWriter' /\ RevisionsGrow'
  <2>1. \A q \in Requests : at[q] \in {"commit", "reread"} => call[q].id \in Artifacts
    BY CallFields DEF LibraryInv, Placed
  <2>2. QED BY <1>1, <1>2, <2>1 DEF LibraryInv, OneWriter, RevisionsGrow
<1>7. QED BY <1>3, <1>4, <1>5, <1>6 DEF LibraryInv

LEMMA CrashKeeps == ASSUME LibraryInv, Crash PROVE LibraryInv'
<1>1. /\ UNCHANGED <<rows, aliases, call, seen, mine, odd, known, status>>
      /\ writer' = NoRequest /\ at' \in [Requests -> {"start", "done"}]
      /\ \A q \in Requests : at'[q] # "done" => at[q] # "done"
  BY DEF Crash, local
<1>2. TypeOK' /\ ToggleParity' /\ AliasNamesKnownTopic' /\ LiveTopicsKnown'
  BY <1>1 DEF LibraryInv, TypeOK, Places, ToggleParity, AliasNamesKnownTopic,
              LiveTopicsKnown, TopicsOfLive
<1>3. AnswerNotStale' /\ Placed' /\ OneWriter' /\ RevisionsGrow'
  BY <1>1, LibraryAssumption
     DEF LibraryInv, TypeOK, AnswerNotStale, Placed, OneWriter, RevisionsGrow
<1>4. QED BY <1>2, <1>3 DEF LibraryInv

LEMMA LibraryStep == LibraryInv /\ [Next]_vars => LibraryInv'
<1> SUFFICES ASSUME LibraryInv, [Next]_vars PROVE LibraryInv'
  OBVIOUS
<1>1. CASE \E p \in Requests : Handle(p) \/ Raise(p)
  BY <1>1, ReadersKeep, RaiseKeeps, LockStepsKeep, CommitKeeps, UpdateKeeps, DeleteKeeps, UpsertKeeps
     DEF Handle
<1>2. CASE \E a \in Artifacts : Expire(a)
  BY <1>2, ExpireKeeps
<1>3. CASE Crash
  BY <1>3, CrashKeeps
<1>4. CASE UNCHANGED vars
  <2>1. TypeOK' /\ ToggleParity' /\ AnswerNotStale' /\ AliasNamesKnownTopic'
    BY <1>4 DEF vars, LibraryInv, TypeOK, ToggleParity, AnswerNotStale, AliasNamesKnownTopic
  <2>2. Placed' /\ OneWriter' /\ RevisionsGrow' /\ LiveTopicsKnown'
    BY <1>4 DEF vars, LibraryInv, Placed, OneWriter, RevisionsGrow, LiveTopicsKnown, TopicsOfLive
  <2>3. QED BY <2>1, <2>2 DEF LibraryInv
<1>5. QED BY <1>1, <1>2, <1>3, <1>4 DEF Next, Finished

LEMMA LibraryInit == Init => LibraryInv
<1> SUFFICES ASSUME Init PROVE LibraryInv
  OBVIOUS
<1>1. rows \in [Artifacts -> Row \union {Gone}]
  BY LibraryAssumption DEF Init
<1>2. TypeOK
  BY <1>1 DEF Init, TypeOK, Places, Statuses, TopicsOfLive, Row
<1>3. ToggleParity
  BY <1>1 DEF Init, ToggleParity, Row
<1>4. AnswerNotStale /\ AliasNamesKnownTopic /\ LiveTopicsKnown
  BY DEF Init, AnswerNotStale, AliasNamesKnownTopic, LiveTopicsKnown
<1>5. Placed /\ OneWriter /\ RevisionsGrow
  BY LibraryAssumption DEF Init, Placed, OneWriter, RevisionsGrow
<1>6. QED BY <1>2, <1>3, <1>4, <1>5 DEF LibraryInv

(* The inductive invariant holds of every behaviour of the library's requests *)
(* (storage.py:198-255, 318-359; viewer.py:233-344; api.py:186-215).          *)
THEOREM LibraryInvariant == Spec => []LibraryInv
BY LibraryInit, LibraryStep, PTL DEF Spec

(* Every variable keeps its type. *)
THEOREM LibraryTypeOK == Spec => []TypeOK
BY LibraryInvariant, PTL DEF LibraryInv

(* No press of the star is lost, however many come at the same time (storage.py:208-226). *)
THEOREM TogglesAreCounted == Spec => []ToggleParity
BY LibraryInvariant, PTL DEF LibraryInv

(* The answer to a PATCH shows what it wrote or something later (storage.py:255). *)
THEOREM PatchAnswersItself == Spec => []AnswerNotStale
BY LibraryInvariant, PTL DEF LibraryInv

(* A name is given only to a topic an artifact has had (viewer.py:310-335). *)
THEOREM NamesAreOfTopics == Spec => []AliasNamesKnownTopic
BY LibraryInvariant, PTL DEF LibraryInv

(* Nobody takes the write lock along into an answer, whichever statement raised *)
(* (storage.py:212-225, db.py:86-96).                                           *)
THEOREM AnsweredLetGo == Spec => []AnsweredHoldsNoLock
<1>1. LibraryInv => AnsweredHoldsNoLock
  BY DEF LibraryInv, OneWriter, AnsweredHoldsNoLock
<1>2. QED BY <1>1, LibraryInvariant, PTL

-----------------------------------------------------------------------------
(***************************************************************************)
(* A recursive function on 0..n is a CHOOSE; that it has a value at all is *)
(* shown by induction, from the well-foundedness of the natural numbers.   *)
(***************************************************************************)
LEMMA LeastElement ==
  ASSUME NEW S \in SUBSET Nat, S # {}
  PROVE  \E n \in S : \A m \in S : n <= m
<1> DEFINE R == {p \in Nat \X Nat : p[1] < p[2]}
<1>1. IsWellFoundedOn(R, Nat)
  BY NatLessThanWellFounded DEF OpToRel
<1>2. PICK n \in S : \A m \in S : <<m, n>> \notin R
  <2> HIDE DEF R
  <2>1. QED BY <1>1, WFMin
<1>3. \A m \in S : ~(m < n)
  BY <1>2
<1>4. QED BY <1>3

LEMMA SetInduction ==
  ASSUME NEW S, 0 \in S, \A n \in Nat : n \in S => n + 1 \in S
  PROVE  Nat \subseteq S
<1> SUFFICES ASSUME ~(Nat \subseteq S) PROVE FALSE
  OBVIOUS
<1> DEFINE T == Nat \ S
<1>1. PICK n \in T : \A m \in T : n <= m
  <2>1. T # {} /\ T \in SUBSET Nat
    OBVIOUS
  <2> HIDE DEF T
  <2>2. QED BY <2>1, LeastElement
<1>2. n # 0 /\ n - 1 \in Nat
  OBVIOUS
<1>3. n - 1 \in S
  BY <1>1, <1>2
<1>4. n - 1 + 1 \in S
  BY <1>2, <1>3
<1>5. QED BY <1>4

\* A step taken once for each of n elements reaches a value of D.
Reaches(f, D, start, step, n) ==
  /\ f \in [0..n -> D] /\ f[0] = start
  /\ \A i \in 1..n : f[i] = step[<<i, f[i - 1]>>]

LEMMA Iterated ==
  ASSUME NEW D, NEW start \in D, NEW n \in Nat, NEW step,
         \A i \in 1..n, d \in D : step[<<i, d>>] \in D
  PROVE  \E f : Reaches(f, D, start, step, n)
<1> DEFINE S == {m \in Nat : m <= n => \E f : Reaches(f, D, start, step, m)}
<1>1. 0 \in S
  <2>1. Reaches([i \in 0..0 |-> start], D, start, step, 0)
    BY DEF Reaches
  <2>2. QED BY <2>1
<1>2. ASSUME NEW m \in Nat, m \in S PROVE m + 1 \in S
  <2> SUFFICES ASSUME m + 1 <= n PROVE \E f : Reaches(f, D, start, step, m + 1)
    OBVIOUS
  <2>1. PICK f : Reaches(f, D, start, step, m)
    BY <1>2
  <2> DEFINE g == [i \in 0..(m + 1) |-> IF i <= m THEN f[i] ELSE step[<<m + 1, f[m]>>]]
  <2>2. f[m] \in D /\ m + 1 \in 1..n
    BY <2>1 DEF Reaches
  <2>3. step[<<m + 1, f[m]>>] \in D
    BY <2>2
  <2>4. g \in [0..(m + 1) -> D] /\ g[0] = start
    BY <2>1, <2>3 DEF Reaches
  <2>5. ASSUME NEW i \in 1..(m + 1) PROVE g[i] = step[<<i, g[i - 1]>>]
    <3>1. CASE i <= m
      BY <2>1, <3>1 DEF Reaches
    <3>2. CASE i = m + 1
      <4>1. i - 1 = m /\ ~(i <= m) /\ m \in 0..(m + 1) /\ i \in 0..(m + 1) /\ m <= m
        BY <3>2
      <4>2. g[m] = f[m] /\ g[i] = step[<<m + 1, f[m]>>]
        BY <4>1
      <4> HIDE DEF g
      <4>3. QED BY <3>2, <4>1, <4>2
    <3>3. QED BY <3>1, <3>2
  <2> HIDE DEF g
  <2>6. Reaches(g, D, start, step, m + 1)
    BY <2>4, <2>5 DEF Reaches
  <2>7. QED BY <2>6
<1>3. n \in S
  <2> HIDE DEF S
  <2>1. QED BY <1>1, <1>2, SetInduction
<1>4. QED BY <1>3

\* What Those holds after each element.
Running(f, X, list, S) ==
  /\ f \in [0..Len(list) -> Seq(X)] /\ f[0] = <<>>
  /\ \A i \in 1..Len(list) : f[i] = IF list[i] \in S THEN Append(f[i - 1], list[i]) ELSE f[i - 1]

LEMMA ThoseAreRunning ==
  ASSUME NEW X, NEW list \in Seq(X), NEW S
  PROVE  \E f : Running(f, X, list, S) /\ Those(list, S) = f[Len(list)]
<1>1. PICK n : n = Len(list)
  OBVIOUS
<1>2. n \in Nat /\ \A i \in 1..n : list[i] \in X
  BY <1>1, ElementOfSeq
<1>3. PICK step : step = [p \in (1..n) \X Seq(X) |->
                            IF list[p[1]] \in S THEN Append(p[2], list[p[1]]) ELSE p[2]]
  OBVIOUS
<1>4. ASSUME NEW i \in 1..n, NEW d \in Seq(X)
      PROVE  /\ step[<<i, d>>] = IF list[i] \in S THEN Append(d, list[i]) ELSE d
             /\ step[<<i, d>>] \in Seq(X)
  <2>1. Append(d, list[i]) \in Seq(X)
    BY <1>2
  <2>2. QED BY <1>3, <2>1
<1>5. PICK f : Reaches(f, Seq(X), <<>>, step, n)
  <2>1. <<>> \in Seq(X)
    OBVIOUS
  <2>2. \A i \in 1..n, d \in Seq(X) : step[<<i, d>>] \in Seq(X)
    BY <1>4
  <2>3. QED BY <1>2, <2>1, <2>2, Iterated
<1>6. ASSUME NEW i \in 1..n
      PROVE  f[i] = IF list[i] \in S THEN Append(f[i - 1], list[i]) ELSE f[i - 1]
  <2>1. i - 1 \in 0..n
    BY <1>2
  <2>2. f[i - 1] \in Seq(X) /\ f[i] = step[<<i, f[i - 1]>>]
    BY <1>5, <2>1 DEF Reaches
  <2>3. QED BY <1>4, <2>2
<1> DEFINE F(h) == [i \in 0..Len(list) |->
             IF i = 0 THEN <<>>
             ELSE IF list[i] \in S THEN Append(h[i - 1], list[i]) ELSE h[i - 1]]
<1>7. f = F(f)
  <2>1. \A i \in 0..n : i = 0 \/ i \in 1..n
    BY <1>2
  <2>2. \A i \in 0..n : f[i] = F(f)[i]
    BY <1>1, <1>5, <1>6, <2>1 DEF Reaches
  <2>3. QED BY <1>1, <1>5, <2>2 DEF Reaches
<1>8. PICK g : g = F(g) /\ Those(list, S) = g[n]
  <2>1. PICK g : g = CHOOSE h : h = F(h)
    OBVIOUS
  <2>2. g = F(g)
    BY <1>7, <2>1
  <2>3. Those(list, S) = (CHOOSE h : h = F(h))[Len(list)]
    BY DEF Those
  <2>4. Those(list, S) = g[n]
    BY <1>1, <2>1, <2>3, Zenon
  <2>5. QED BY <2>2, <2>4
<1>9. g[0] = <<>> /\ \A i \in 1..n :
        g[i] = IF list[i] \in S THEN Append(g[i - 1], list[i]) ELSE g[i - 1]
  <2>1. 0 \in 0..n /\ \A i \in 1..n : i \in 0..n /\ i # 0
    BY <1>2
  <2>2. QED BY <1>1, <1>8, <2>1
<1>10. g \in [0..n -> Seq(X)]
  <2> DEFINE T == {i \in Nat : i <= n => g[i] \in Seq(X)}
  <2>1. 0 \in T
    <3>1. <<>> \in Seq(X)
      OBVIOUS
    <3>2. QED BY <1>9, <3>1
  <2>2. ASSUME NEW i \in Nat, i \in T PROVE i + 1 \in T
    <3> SUFFICES ASSUME i + 1 <= n PROVE g[i + 1] \in Seq(X)
      OBVIOUS
    <3>1. i + 1 \in 1..n /\ (i + 1) - 1 = i /\ g[i] \in Seq(X)
      BY <1>2, <2>2
    <3>2. list[i + 1] \in X
      BY <1>2, <3>1
    <3>3. Append(g[i], list[i + 1]) \in Seq(X)
      BY <3>1, <3>2
    <3>4. QED BY <1>9, <3>1, <3>3
  <2>3. Nat \subseteq T
    <3> HIDE DEF T
    <3>1. QED BY <2>1, <2>2, SetInduction
  <2>4. \A i \in 0..n : g[i] \in Seq(X)
    BY <1>2, <2>3
  <2>5. QED BY <1>1, <1>8, <2>4
<1>11. QED BY <1>1, <1>8, <1>9, <1>10 DEF Running

Ordered(q, R) == \A i, j \in DOMAIN q : i < j => <<q[i], q[j]>> \in R

\* What is left of the first n elements of a list: those in S, as often and in the same order.
LeftOf(t, list, S, R, n) ==
  /\ \A j \in DOMAIN t : t[j] \in S /\ \E k \in 1..n : t[j] = list[k]
  /\ \A k \in 1..n : list[k] \in S => \E j \in DOMAIN t : t[j] = list[k]
  /\ Len(t) = Cardinality({k \in 1..n : list[k] \in S})
  /\ Ordered(t, R)

LEMMA OneMoreTaken ==
  ASSUME NEW X, NEW list \in Seq(X), NEW S, NEW R, Ordered(list, R), NEW n \in Nat,
         n + 1 <= Len(list), NEW t \in Seq(X), LeftOf(t, list, S, R, n), list[n + 1] \in S
  PROVE  LeftOf(Append(t, list[n + 1]), list, S, R, n + 1)
<1> DEFINE longer == Append(t, list[n + 1])
           before == {k \in 1..n : list[k] \in S}
           after == {k \in 1..(n + 1) : list[k] \in S}
<1>1. n + 1 \in 1..Len(list) /\ list[n + 1] \in X /\ Len(t) \in Nat /\ DOMAIN list = 1..Len(list)
      /\ Len(list) \in Nat
  BY ElementOfSeq, LenProperties
<1>2. /\ DOMAIN t = 1..Len(t) /\ DOMAIN longer = 1..(Len(t) + 1) /\ Len(longer) = Len(t) + 1
      /\ longer[Len(t) + 1] = list[n + 1]
      /\ \A a \in 1..Len(t) : longer[a] = t[a]
  BY <1>1
<1> HIDE DEF longer
<1>3. ASSUME NEW a \in DOMAIN longer
      PROVE  longer[a] \in S /\ \E k \in 1..(n + 1) : longer[a] = list[k]
  <2>1. CASE a = Len(t) + 1
    BY <1>2, <2>1
  <2>2. CASE a # Len(t) + 1
    <3>1. a \in DOMAIN t /\ longer[a] = t[a]
      BY <1>1, <1>2, <2>2
    <3>2. PICK k \in 1..n : t[a] = list[k]
      BY <3>1 DEF LeftOf
    <3>3. QED BY <3>1, <3>2 DEF LeftOf
  <2>3. QED BY <2>1, <2>2
<1>4. ASSUME NEW k \in 1..(n + 1), list[k] \in S
      PROVE  \E j \in DOMAIN longer : longer[j] = list[k]
  <2>1. CASE k = n + 1
    <3>1. Len(t) + 1 \in DOMAIN longer
      BY <1>1, <1>2
    <3>2. QED BY <1>2, <2>1, <3>1
  <2>2. CASE k # n + 1
    <3>1. PICK j \in DOMAIN t : t[j] = list[k]
      <4>1. k \in 1..n /\ list[k] \in S
        BY <1>4, <2>2
      <4>2. QED BY <4>1 DEF LeftOf
    <3>2. j \in DOMAIN longer /\ longer[j] = t[j]
      BY <1>1, <1>2
    <3>3. QED BY <3>1, <3>2
  <2>3. QED BY <2>1, <2>2
<1>5. Len(longer) = Cardinality(after)
  <2>1. after = before \union {n + 1} /\ n + 1 \notin before
    OBVIOUS
  <2>2. IsFiniteSet(before)
    <3>1. IsFiniteSet(1..n) /\ before \subseteq 1..n
      BY FS_Interval
    <3>2. QED BY <3>1, FS_Subset
  <2>3. Cardinality(before) = Len(t)
    BY DEF LeftOf
  <2> HIDE DEF before, after
  <2>4. Cardinality(after) = Cardinality(before) + 1
    BY <2>1, <2>2, FS_AddElement
  <2>5. QED BY <1>2, <2>3, <2>4
<1>6. Ordered(longer, R)
  <2> SUFFICES ASSUME NEW i \in DOMAIN longer, NEW j \in DOMAIN longer, i < j
               PROVE  <<longer[i], longer[j]>> \in R
    BY DEF Ordered
  <2>1. i \in DOMAIN t /\ longer[i] = t[i]
    BY <1>1, <1>2
  <2>2. CASE j = Len(t) + 1
    <3>1. PICK k \in 1..n : t[i] = list[k]
      BY <2>1 DEF LeftOf
    <3>2. k \in DOMAIN list /\ n + 1 \in DOMAIN list /\ k < n + 1
      BY <1>1
    <3>3. <<list[k], list[n + 1]>> \in R
      BY <3>2 DEF Ordered
    <3>4. QED BY <1>2, <2>1, <2>2, <3>1, <3>3
  <2>3. CASE j # Len(t) + 1
    <3>1. j \in DOMAIN t /\ longer[j] = t[j]
      BY <1>1, <1>2, <2>3
    <3>2. QED BY <2>1, <3>1 DEF LeftOf, Ordered
  <2>4. QED BY <2>2, <2>3
<1>7. QED BY <1>3, <1>4, <1>5, <1>6 DEF LeftOf, longer

LEMMA OnePassed ==
  ASSUME NEW X, NEW list \in Seq(X), NEW S, NEW R, NEW n \in Nat, NEW t \in Seq(X),
         LeftOf(t, list, S, R, n), list[n + 1] \notin S
  PROVE  LeftOf(t, list, S, R, n + 1)
<1>1. {k \in 1..(n + 1) : list[k] \in S} = {k \in 1..n : list[k] \in S}
  OBVIOUS
<1>2. \A j \in DOMAIN t : t[j] \in S /\ \E k \in 1..(n + 1) : t[j] = list[k]
  BY DEF LeftOf
<1>3. ASSUME NEW k \in 1..(n + 1), list[k] \in S PROVE \E j \in DOMAIN t : t[j] = list[k]
  <2>1. k # n + 1
    BY <1>3
  <2>2. k \in 1..n
    BY <2>1
  <2>3. QED BY <1>3, <2>2 DEF LeftOf
<1>4. QED BY <1>1, <1>2, <1>3 DEF LeftOf

\* Those is what its comment says: the elements in S, each as often as it was, in their order.
LEMMA ThoseAreThose ==
  ASSUME NEW X, NEW list \in Seq(X), NEW S, NEW R, Ordered(list, R)
  PROVE  Those(list, S) \in Seq(X) /\ LeftOf(Those(list, S), list, S, R, Len(list))
<1>1. PICK f : Running(f, X, list, S) /\ Those(list, S) = f[Len(list)]
  BY ThoseAreRunning
<1>2. PICK n : n = Len(list)
  OBVIOUS
<1>3. n \in Nat
  BY <1>2
<1> DEFINE T == {i \in Nat : i <= n => f[i] \in Seq(X) /\ LeftOf(f[i], list, S, R, i)}
<1>4. 0 \in T
  <2>1. f[0] = <<>>
    BY <1>1 DEF Running
  <2>2. PICK e : e = <<>>
    OBVIOUS
  <2>3. DOMAIN e = {} /\ Len(e) = 0 /\ 1..0 = {}
    BY <2>2
  <2>4. {k \in 1..0 : list[k] \in S} = {}
    BY <2>3
  <2>5. Len(e) = Cardinality({k \in 1..0 : list[k] \in S})
    BY <2>3, <2>4, FS_EmptySet
  <2>6. Ordered(e, R)
    BY <2>3 DEF Ordered
  <2>7. /\ \A j \in DOMAIN e : e[j] \in S /\ \E k \in 1..0 : e[j] = list[k]
        /\ \A k \in 1..0 : list[k] \in S => \E j \in DOMAIN e : e[j] = list[k]
    BY <2>3
  <2>8. LeftOf(e, list, S, R, 0)
    BY <2>5, <2>6, <2>7, Zenon DEF LeftOf
  <2>9. e \in Seq(X)
    BY <2>2
  <2>10. QED BY <2>1, <2>2, <2>8, <2>9
<1>5. ASSUME NEW i \in Nat, i \in T PROVE i + 1 \in T
  <2> SUFFICES ASSUME i + 1 <= n PROVE f[i + 1] \in Seq(X) /\ LeftOf(f[i + 1], list, S, R, i + 1)
    OBVIOUS
  <2>1. i + 1 \in 1..n /\ (i + 1) - 1 = i /\ f[i] \in Seq(X) /\ LeftOf(f[i], list, S, R, i)
    BY <1>3, <1>5
  <2>2. f[i + 1] = IF list[i + 1] \in S THEN Append(f[i], list[i + 1]) ELSE f[i]
    BY <1>1, <1>2, <2>1 DEF Running
  <2>3. list[i + 1] \in X
    BY <1>2, <2>1, ElementOfSeq
  <2>4. CASE list[i + 1] \in S
    <3>1. LeftOf(Append(f[i], list[i + 1]), list, S, R, i + 1)
      BY <1>2, <2>1, <2>4, OneMoreTaken
    <3>2. QED BY <2>1, <2>2, <2>3, <2>4, <3>1
  <2>5. CASE list[i + 1] \notin S
    <3>1. LeftOf(f[i], list, S, R, i + 1)
      BY <2>1, <2>5, OnePassed
    <3>2. QED BY <2>1, <2>2, <2>5, <3>1
  <2>6. QED BY <2>4, <2>5
<1>6. n \in T
  <2> HIDE DEF T
  <2>1. QED BY <1>3, <1>4, <1>5, SetInduction
<1>7. QED BY <1>1, <1>2, <1>3, <1>6

-----------------------------------------------------------------------------
\* What the page is made of: a favourite is followed only by what it may be followed by.
MayFollow == {r \in Entry \X Entry : r[2].favorite => r[1].favorite}

LEMMA OrderedByFavorite ==
  ASSUME NEW s \in Seq(Entry)
  PROVE  Ordered(s, MayFollow) <=> InOrder(s)
<1>1. \A i \in DOMAIN s : s[i] \in Entry
  BY ElementOfSeq, LenProperties
<1>2. \A i, j \in DOMAIN s : <<s[i], s[j]>> \in MayFollow <=> (s[j].favorite => s[i].favorite)
  BY <1>1 DEF MayFollow
<1>3. QED BY <1>2 DEF Ordered, InOrder

\* What list_live reads: entries, the favourites first.
LEMMA ListingFits ==
  ASSUME LibraryInv
  PROVE  Listing \in Seq(Entry) /\ InOrder(Listing)
<1> DEFINE first == Those(Newest, LiveOnes(TRUE))
           then == Those(Newest, LiveOnes(FALSE))
           All == Artifacts \X Artifacts
           order == first \o then
<1>1. Newest \in Seq(Artifacts) /\ Ordered(Newest, All)
  <2>1. Newest \in Seq(Artifacts)
    BY LibraryAssumption
  <2>2. \A i \in DOMAIN Newest : Newest[i] \in Artifacts
    BY DEF Artifacts
  <2>3. QED BY <2>1, <2>2 DEF Ordered
<1>2. /\ first \in Seq(Artifacts) /\ LeftOf(first, Newest, LiveOnes(TRUE), All, Len(Newest))
      /\ then \in Seq(Artifacts) /\ LeftOf(then, Newest, LiveOnes(FALSE), All, Len(Newest))
  <2> HIDE DEF All
  <2>1. QED BY <1>1, ThoseAreThose
<1> HIDE DEF first, then, All
<1>3. /\ \A i \in 1..Len(first) : first[i] \in LiveOnes(TRUE)
      /\ \A i \in 1..Len(then) : then[i] \in LiveOnes(FALSE)
  <2>1. DOMAIN first = 1..Len(first) /\ DOMAIN then = 1..Len(then)
    BY <1>2, LenProperties
  <2>2. QED BY <1>2, <2>1 DEF LeftOf
<1>4. /\ order \in Seq(Artifacts) /\ Len(order) = Len(first) + Len(then)
      /\ Len(first) \in Nat /\ Len(then) \in Nat /\ DOMAIN order = 1..Len(order)
      /\ \A i \in 1..Len(order) :
           order[i] = IF i <= Len(first) THEN first[i] ELSE then[i - Len(first)]
  <2>1. /\ order \in Seq(Artifacts) /\ Len(order) = Len(first) + Len(then)
        /\ \A i \in 1..Len(first) + Len(then) :
             order[i] = IF i <= Len(first) THEN first[i] ELSE then[i - Len(first)]
    BY <1>2, ConcatProperties
  <2>2. Len(first) \in Nat /\ Len(then) \in Nat
    BY <1>2, LenProperties
  <2> HIDE DEF order
  <2>3. DOMAIN order = 1..Len(order)
    BY <2>1, LenProperties
  <2>4. QED BY <2>1, <2>2, <2>3
<1> HIDE DEF order
<1>5. ASSUME NEW i \in 1..Len(order)
      PROVE  /\ order[i] \in Artifacts /\ rows[order[i]] \in Row
             /\ rows[order[i]].favorite = (i <= Len(first))
  <2>1. CASE i <= Len(first)
    <3>1. order[i] \in LiveOnes(TRUE)
      <4>1. i \in 1..Len(first) /\ order[i] = first[i]
        BY <1>4, <2>1
      <4>2. QED BY <1>3, <4>1
    <3>2. QED BY <2>1, <3>1 DEF LiveOnes, LibraryInv, TypeOK
  <2>2. CASE ~(i <= Len(first))
    <3>1. order[i] \in LiveOnes(FALSE)
      <4>1. i - Len(first) \in 1..Len(then)
        BY <1>4, <2>2
      <4>2. QED BY <1>3, <1>4, <2>2, <4>1
    <3>2. /\ order[i] \in Artifacts /\ rows[order[i]] \in Row
          /\ rows[order[i]].favorite = FALSE
      BY <3>1 DEF LiveOnes, LibraryInv, TypeOK
    <3>3. (i <= Len(first)) = FALSE
      BY <2>2
    <3>4. QED BY <3>2, <3>3
  <2>3. QED BY <2>1, <2>2
<1>6. PICK made : made = [i \in DOMAIN order |-> [id |-> order[i], topic |-> rows[order[i]].topic,
                            name |-> rows[order[i]].name, favorite |-> rows[order[i]].favorite]]
  OBVIOUS
<1>7. Listing = made
  BY <1>6 DEF Listing, order, first, then
<1>8. ASSUME NEW i \in 1..Len(order)
      PROVE  made[i] \in Entry /\ made[i].favorite = (i <= Len(first))
  <2>1. made[i] = [id |-> order[i], topic |-> rows[order[i]].topic,
                   name |-> rows[order[i]].name, favorite |-> rows[order[i]].favorite]
    BY <1>4, <1>6
  <2>2. QED BY <1>5, <2>1 DEF Entry, Row
<1>9. made \in [1..Len(order) -> Entry] /\ DOMAIN made = 1..Len(order)
  BY <1>4, <1>6, <1>8
<1>10. made \in Seq(Entry)
  <2>1. Len(order) \in Nat
    BY <1>4
  <2>2. QED BY <1>9, <2>1, SeqDef
<1>11. InOrder(made)
  <2>1. ASSUME NEW i \in DOMAIN made, NEW j \in DOMAIN made, i < j, made[j].favorite
        PROVE  made[i].favorite
    <3>1. i \in 1..Len(order) /\ j \in 1..Len(order)
      BY <1>9
    <3>2. j <= Len(first)
      BY <1>8, <2>1, <3>1
    <3>3. i <= Len(first)
      BY <1>4, <2>1, <3>1, <3>2
    <3>4. QED BY <1>8, <3>1, <3>3
  <2>2. QED BY <2>1 DEF InOrder
<1>12. QED BY <1>7, <1>10, <1>11

\* The artifacts of a topic, and those of them that have a name of their own.
LEMMA GroupFits ==
  ASSUME NEW listing \in Seq(Entry), InOrder(listing), NEW t
  PROVE  LET group == InTopic(listing, t)
         IN /\ group \in Seq(Entry) /\ InOrder(group) /\ DOMAIN group = 1..Len(group)
            /\ Len(group) = Cardinality({i \in DOMAIN listing : listing[i].topic = t})
            /\ \A j \in DOMAIN group : /\ group[j].topic = t
                                       /\ \E i \in DOMAIN listing : group[j] = listing[i]
            /\ (\E i \in DOMAIN listing : listing[i].topic = t) <=> group # <<>>
<1> DEFINE S == {e \in Entry : e.topic = t}
           group == Those(listing, S)
<1>1. Ordered(listing, MayFollow)
  BY OrderedByFavorite
<1>2. group \in Seq(Entry) /\ LeftOf(group, listing, S, MayFollow, Len(listing))
  <2> HIDE DEF S
  <2>1. QED BY <1>1, ThoseAreThose
<1>3. InTopic(listing, t) = group
  BY DEF InTopic
<1> HIDE DEF group
<1>4. /\ DOMAIN listing = 1..Len(listing) /\ DOMAIN group = 1..Len(group) /\ Len(group) \in Nat
      /\ \A i \in 1..Len(listing) : listing[i] \in Entry
  BY <1>2, ElementOfSeq, LenProperties
<1>5. InOrder(group)
  BY <1>2, OrderedByFavorite DEF LeftOf
<1>6. {i \in 1..Len(listing) : listing[i] \in S} = {i \in DOMAIN listing : listing[i].topic = t}
  BY <1>4
<1>7. \A j \in DOMAIN group : group[j].topic = t /\ \E i \in DOMAIN listing : group[j] = listing[i]
  BY <1>2, <1>4 DEF LeftOf
<1>8. (\E i \in DOMAIN listing : listing[i].topic = t) => group # <<>>
  <2> SUFFICES ASSUME NEW i \in DOMAIN listing, listing[i].topic = t PROVE group # <<>>
    OBVIOUS
  <2>1. i \in 1..Len(listing) /\ listing[i] \in S
    BY <1>4
  <2>2. PICK j \in DOMAIN group : group[j] = listing[i]
    BY <1>2, <2>1 DEF LeftOf
  <2>3. QED BY <2>2
<1>9. group # <<>> => \E i \in DOMAIN listing : listing[i].topic = t
  <2> SUFFICES ASSUME group # <<>> PROVE \E i \in DOMAIN listing : listing[i].topic = t
    OBVIOUS
  <2>1. 1 \in DOMAIN group
    <3>1. Len(group) # 0
      BY <1>2, EmptySeq
    <3>2. QED BY <1>4, <3>1
  <2>2. QED BY <1>7, <2>1
<1>10. Len(group) = Cardinality({i \in DOMAIN listing : listing[i].topic = t})
  <2>1. Len(group) = Cardinality({i \in 1..Len(listing) : listing[i] \in S})
    BY <1>2 DEF LeftOf
  <2>2. QED BY <1>6, <2>1
<1>11. QED BY <1>2, <1>3, <1>4, <1>5, <1>7, <1>8, <1>9, <1>10

\* The heading of a topic is the label of one of its artifacts.
LEMMA HeadingIsALabel ==
  ASSUME LibraryInv, NEW group \in Seq(Entry), group # <<>>, NEW t,
         \A j \in DOMAIN group : group[j].topic = t
  PROVE  \E j \in DOMAIN group : Heading(group) = Label(group[j])
<1>1. DOMAIN group = 1..Len(group) /\ Len(group) \in Nat /\ 1 \in DOMAIN group /\ Head(group) = group[1]
  <2>1. DOMAIN group = 1..Len(group) /\ Len(group) \in Nat \ {0}
    BY EmptySeq, LenProperties
  <2>2. QED BY <2>1
<1>2. CASE aliases[Head(group).topic] = NoName /\ Named(group) # <<>>
  <2> DEFINE S == {e \in Entry : e.name # NoName}
             All == Entry \X Entry
             named == Those(group, S)
  <2>1. Ordered(group, All)
    <3>1. \A i \in DOMAIN group : group[i] \in Entry
      BY <1>1, ElementOfSeq
    <3>2. QED BY <3>1 DEF Ordered
  <2>2. named \in Seq(Entry) /\ LeftOf(named, group, S, All, Len(group))
    <3> HIDE DEF S, All
    <3>1. QED BY <2>1, ThoseAreThose
  <2>3. Named(group) = named
    BY DEF Named
  <2> HIDE DEF named
  <2>4. DOMAIN named = 1..Len(named) /\ Len(named) \in DOMAIN named
    <3>1. DOMAIN named = 1..Len(named) /\ Len(named) \in Nat \ {0}
      BY <1>2, <2>2, <2>3, EmptySeq, LenProperties
    <3>2. QED BY <3>1
  <2>5. PICK j \in 1..Len(group) : named[Len(named)] = group[j]
    BY <2>2, <2>4 DEF LeftOf
  <2>6. group[j].name # NoName
    BY <2>2, <2>4, <2>5 DEF LeftOf
  <2>7. Heading(group) = group[j].name
    BY <1>2, <2>3, <2>5 DEF Heading, Last
  <2>8. aliases[group[j].topic] = NoName
    BY <1>1, <1>2
  <2>9. Label(group[j]) = group[j].name
    BY <2>6, <2>8 DEF Label
  <2>10. QED BY <1>1, <2>7, <2>9
<1>3. CASE ~(aliases[Head(group).topic] = NoName /\ Named(group) # <<>>)
  <2>1. Heading(group) = Label(group[1])
    BY <1>1, <1>3 DEF Heading
  <2>2. QED BY <1>1, <2>1
<1>4. QED BY <1>2, <1>3

\* A page made of a listing says of it what PageFits asks.
LEMMA PageIsRight ==
  ASSUME LibraryInv, NEW listing \in Seq(Entry), InOrder(listing), NEW selected
  PROVE  PageFits(Page(listing, selected), listing, selected)
<1> DEFINE topicsOf == {listing[i].topic : i \in DOMAIN listing}
           about(t) == [topic |-> t, heading |-> Heading(InTopic(listing, t)),
                        count |-> Len(InTopic(listing, t))]
<1>1. PICK pg : pg = Page(listing, selected)
  OBVIOUS
<1>2. /\ pg.topics = {about(t) : t \in topicsOf}
      /\ pg.labels = [i \in DOMAIN listing |-> Label(listing[i])]
      /\ pg.shown = IF selected = NoName THEN listing ELSE InTopic(listing, selected)
  BY <1>1 DEF Page
<1> HIDE DEF topicsOf
<1>3. \A t : about(t).topic = t /\ about(t).count = Len(InTopic(listing, t))
              /\ about(t).heading = Heading(InTopic(listing, t))
  OBVIOUS
<1> HIDE DEF about
<1>4. ASSUME NEW g \in pg.topics
      PROVE  /\ \E i \in DOMAIN listing : listing[i].topic = g.topic /\ pg.labels[i] = g.heading
             /\ g.count = Cardinality({i \in DOMAIN listing : listing[i].topic = g.topic})
  <2>1. PICK t \in topicsOf : g = about(t)
    BY <1>2
  <2>2. PICK group : group = InTopic(listing, t)
    OBVIOUS
  <2>3. /\ group \in Seq(Entry) /\ group # <<>>
        /\ Len(group) = Cardinality({i \in DOMAIN listing : listing[i].topic = t})
        /\ \A j \in DOMAIN group : group[j].topic = t /\ \E i \in DOMAIN listing : group[j] = listing[i]
    <3>1. \E i \in DOMAIN listing : listing[i].topic = t
      BY DEF topicsOf
    <3>2. /\ InTopic(listing, t) \in Seq(Entry) /\ InTopic(listing, t) # <<>>
          /\ Len(InTopic(listing, t)) = Cardinality({i \in DOMAIN listing : listing[i].topic = t})
          /\ \A j \in DOMAIN InTopic(listing, t) :
               /\ InTopic(listing, t)[j].topic = t
               /\ \E i \in DOMAIN listing : InTopic(listing, t)[j] = listing[i]
      BY <3>1, GroupFits, ZenonT(30)
    <3>3. QED BY <2>2, <3>2
  <2>4. PICK j \in DOMAIN group : Heading(group) = Label(group[j])
    BY <2>3, HeadingIsALabel
  <2>5. PICK i \in DOMAIN listing : group[j] = listing[i]
    BY <2>3
  <2>6. g.topic = t /\ g.heading = Heading(group) /\ g.count = Len(group)
    BY <1>3, <2>1, <2>2
  <2>7. listing[i].topic = t /\ pg.labels[i] = Heading(group)
    BY <1>2, <2>3, <2>4, <2>5
  <2>8. QED BY <2>3, <2>6, <2>7
<1>5. ASSUME selected # NoName
      PROVE  /\ \A i \in DOMAIN pg.shown : pg.shown[i].topic = selected
             /\ \/ \E g \in pg.topics : g.topic = selected /\ g.count = Len(pg.shown)
                \/ pg.shown = <<>> /\ \A g \in pg.topics : g.topic # selected
  <2>1. pg.shown = InTopic(listing, selected)
    BY <1>2, <1>5
  <2>2. \A i \in DOMAIN pg.shown : pg.shown[i].topic = selected
    <3>1. PICK group : group = InTopic(listing, selected)
      OBVIOUS
    <3>2. \A j \in DOMAIN group : group[j].topic = selected
      BY <3>1, GroupFits, ZenonT(30)
    <3>3. QED BY <2>1, <3>1, <3>2
  <2>3. CASE selected \in topicsOf
    <3>1. about(selected) \in pg.topics
      BY <1>2, <2>3
    <3>2. QED BY <1>3, <2>1, <2>2, <3>1
  <2>4. CASE selected \notin topicsOf
    <3>1. ~ \E i \in DOMAIN listing : listing[i].topic = selected
      BY <2>4 DEF topicsOf
    <3>2. pg.shown = <<>>
        <4>1. InTopic(listing, selected) = <<>>
          BY <3>1, GroupFits, ZenonT(30)
        <4>2. QED BY <2>1, <4>1
    <3>3. \A g \in pg.topics : g.topic # selected
      BY <1>2, <1>3, <2>4
    <3>4. QED BY <2>2, <3>2, <3>3
  <2>5. QED BY <2>3, <2>4
<1>6. InOrder(pg.shown)
  <2>1. CASE selected = NoName
    BY <1>2, <2>1
  <2>2. CASE selected # NoName
    <3>1. InOrder(InTopic(listing, selected))
      BY GroupFits, ZenonT(30)
    <3>2. QED BY <1>2, <2>2, <3>1
  <2>3. QED BY <2>1, <2>2
<1>7. QED BY <1>1, <1>4, <1>5, <1>6 DEF PageFits

\* The requests whose page is not being made: what they have read, and been given, stays.
LEMMA PagesStay ==
  ASSUME PagesInv, UNCHANGED <<page, call>>,
         \A q \in Requests : /\ seen'[q] # seen[q] => at[q] # "done" /\ at'[q] # "aliases"
                             /\ at[q] = "done" => at'[q] = "done"
                             /\ at'[q] = "aliases" => at[q] = "aliases"
  PROVE  PagesInv'
<1>1. ASSUME NEW q \in Requests, at'[q] = "aliases" PROVE seen'[q] \in Seq(Entry) /\ InOrder(seen'[q])
  <2>1. seen'[q] = seen[q] /\ at[q] = "aliases"
    BY <1>1
  <2>2. QED BY <2>1 DEF PagesInv
<1>2. ASSUME NEW q \in Requests, page'[q] # <<>>
      PROVE  at'[q] = "done" /\ PageFits(page'[q], seen'[q], call'[q].selected)
  <2>1. page[q] # <<>> /\ at[q] = "done" /\ page'[q] = page[q] /\ call'[q] = call[q]
    BY <1>2 DEF PagesInv
  <2>2. seen'[q] = seen[q]
    BY <2>1
  <2>3. PageFits(page[q], seen[q], call[q].selected)
    BY <2>1 DEF PagesInv, PageAgrees
  <2>4. QED BY <2>1, <2>2, <2>3
<1>3. PageAgrees'
  BY <1>2 DEF PageAgrees
<1>4. QED BY <1>1, <1>2, <1>3 DEF PagesInv

LEMMA PagesStep == LibraryInv /\ PagesInv /\ [Next]_vars => PagesInv'
<1> SUFFICES ASSUME LibraryInv, PagesInv, [Next]_vars PROVE PagesInv'
  OBVIOUS
<1>0. at \in [Requests -> Places] /\ DOMAIN seen = Requests
  BY DEF LibraryInv, TypeOK
<1>1. ASSUME NEW p \in Requests, ListLive(p) PROVE PagesInv'
  <2>1. /\ at' = [at EXCEPT ![p] = "aliases"] /\ seen' = [seen EXCEPT ![p] = Listing]
        /\ at[p] = "start" /\ UNCHANGED <<page, call>>
    BY <1>1 DEF ListLive, Goto
  <2>2. ASSUME NEW q \in Requests, at'[q] = "aliases"
        PROVE  seen'[q] \in Seq(Entry) /\ InOrder(seen'[q])
    <3>1. CASE q = p
      <4>1. seen'[q] = Listing
        BY <1>0, <2>1, <3>1
      <4>2. QED BY <4>1, ListingFits
    <3>2. CASE q # p
      <4>1. seen'[q] = seen[q] /\ at[q] = "aliases"
        BY <1>0, <2>1, <2>2, <3>2
      <4>2. QED BY <4>1 DEF PagesInv
    <3>3. QED BY <3>1, <3>2
  <2>3. ASSUME NEW q \in Requests, page'[q] # <<>>
        PROVE  at'[q] = "done" /\ PageFits(page'[q], seen'[q], call'[q].selected)
    <3>1. page[q] # <<>> /\ at[q] = "done" /\ q # p
      BY <2>1, <2>3 DEF PagesInv
    <3>2. at'[q] = "done" /\ seen'[q] = seen[q] /\ page'[q] = page[q] /\ call'[q] = call[q]
      BY <1>0, <2>1, <3>1
    <3>3. PageFits(page[q], seen[q], call[q].selected)
      BY <3>1 DEF PagesInv, PageAgrees
    <3>4. QED BY <3>2, <3>3
  <2>4. PageAgrees'
    BY <2>3 DEF PageAgrees
  <2>5. QED BY <2>2, <2>3, <2>4 DEF PagesInv
<1>2. ASSUME NEW p \in Requests, RenderIndex(p) PROVE PagesInv'
  <2>1. /\ at' = [at EXCEPT ![p] = "done"]
        /\ page' = [page EXCEPT ![p] = Page(seen[p], call[p].selected)]
        /\ at[p] = "aliases" /\ UNCHANGED <<seen, call>>
    BY <1>2 DEF RenderIndex, Answer
  <2>2. ASSUME NEW q \in Requests, at'[q] = "aliases"
        PROVE  seen'[q] \in Seq(Entry) /\ InOrder(seen'[q])
    <3>1. seen'[q] = seen[q] /\ at[q] = "aliases"
      BY <1>0, <2>1, <2>2
    <3>2. QED BY <3>1 DEF PagesInv
  <2>3. ASSUME NEW q \in Requests, page'[q] # <<>>
        PROVE  at'[q] = "done" /\ PageFits(page'[q], seen'[q], call'[q].selected)
    <3>1. CASE page'[q] = page[q]
      <4>1. page[q] # <<>> /\ at[q] = "done"
        BY <2>3, <3>1 DEF PagesInv
      <4>2. at'[q] = "done"
        BY <1>0, <2>1, <4>1
      <4>3. PageFits(page[q], seen[q], call[q].selected)
        BY <4>1 DEF PagesInv, PageAgrees
      <4>4. seen'[q] = seen[q] /\ call'[q] = call[q]
        BY <2>1
      <4>5. QED BY <3>1, <4>2, <4>3, <4>4
    <3>2. CASE page'[q] # page[q]
      <4>1. q = p /\ page'[q] = Page(seen[p], call[p].selected)
        BY <2>1, <3>2
      <4>2. seen[p] \in Seq(Entry) /\ InOrder(seen[p])
        BY <2>1 DEF PagesInv
      <4>3. PageFits(Page(seen[p], call[p].selected), seen[p], call[p].selected)
        BY <4>2, PageIsRight
      <4>4. at'[q] = "done" /\ seen'[q] = seen[p] /\ call'[q] = call[p]
        BY <1>0, <2>1, <4>1
      <4>5. QED BY <4>1, <4>3, <4>4
    <3>3. QED BY <3>1, <3>2
  <2>4. PageAgrees'
    BY <2>3 DEF PageAgrees
  <2>5. QED BY <2>2, <2>3, <2>4 DEF PagesInv
<1>3. ASSUME NEW p \in Requests,
             \/ LoadArtifact(p) \/ BeginImmediate(p) \/ SelectFavorite(p) \/ CommitFavorite(p)
             \/ UpdateProvenance(p) \/ Reread(p) \/ Delete(p) \/ FindTopic(p) \/ UpsertAlias(p)
      PROVE  PagesInv'
  <2>1. /\ UNCHANGED <<page, call>> /\ at[p] \notin {"done", "aliases"}
        /\ \A q \in Requests \ {p} : seen'[q] = seen[q]
    <3>1. CASE LoadArtifact(p) \/ Reread(p) \/ SelectFavorite(p)
      BY <1>0, <3>1 DEF LoadArtifact, Reread, SelectFavorite
    <3>2. CASE BeginImmediate(p) \/ CommitFavorite(p) \/ UpdateProvenance(p)
      BY <3>2 DEF BeginImmediate, CommitFavorite, UpdateProvenance, local
    <3>3. CASE Delete(p) \/ FindTopic(p) \/ UpsertAlias(p)
      BY <3>3 DEF Delete, FindTopic, UpsertAlias, local
    <3>4. QED BY <1>3, <3>1, <3>2, <3>3
  <2>2. at'[p] # "aliases" /\ \A q \in Requests \ {p} : at'[q] = at[q]
    <3>1. \/ Goto(p, "begin") \/ Goto(p, "update") \/ Goto(p, "select") \/ Goto(p, "commit")
          \/ Goto(p, "reread") \/ Goto(p, "upsert") \/ \E code : Answer(p, code)
      <4>1. CASE LoadArtifact(p) \/ Reread(p) \/ SelectFavorite(p)
        BY <4>1 DEF LoadArtifact, Reread, SelectFavorite
      <4>2. CASE BeginImmediate(p) \/ CommitFavorite(p) \/ UpdateProvenance(p)
        BY <4>2 DEF BeginImmediate, CommitFavorite, UpdateProvenance
      <4>3. CASE Delete(p) \/ FindTopic(p) \/ UpsertAlias(p)
        BY <4>3 DEF Delete, FindTopic, UpsertAlias
      <4>4. QED BY <1>3, <4>1, <4>2, <4>3
    <3>2. QED BY <1>0, <3>1 DEF Goto, Answer
  <2>3. QED BY <2>1, <2>2, PagesStay
<1>4. ASSUME NEW a \in Artifacts, Expire(a) PROVE PagesInv'
  BY <1>4, PagesStay DEF Expire, local
<1>5. CASE Crash
  <2>1. /\ UNCHANGED <<page, call, seen>>
        /\ \A q \in Requests : at'[q] = IF at[q] = "start" THEN "start" ELSE "done"
    BY <1>5 DEF Crash, local
  <2>2. QED BY <2>1, PagesStay
<1>6. CASE UNCHANGED vars
  BY <1>6, PagesStay DEF vars
<1>7. ASSUME NEW p \in Requests, Raise(p) PROVE PagesInv'
  <2>1. UNCHANGED <<page, call, seen>> /\ at' = [at EXCEPT ![p] = "done"]
    BY <1>7 DEF Raise, Answer, local
  <2>2. QED BY <1>0, <2>1, PagesStay
<1>8. QED BY <1>1, <1>2, <1>3, <1>4, <1>5, <1>6, <1>7 DEF Next, Handle, Finished

LEMMA PagesInit == Init => PagesInv
BY DEF Init, PagesInv, PageAgrees

\* Between its two reads a page holds a listing in its order, and a page that was given stays.
THEOREM PagesInvariant == Spec => []PagesInv
BY LibraryInvariant, PagesInit, PagesStep, PTL DEF Spec

(* The library page is made of two reads, and agrees with itself whatever changes between  *)
(* them (viewer.py:233-307): every heading is a label of its topic, the counts are right,  *)
(* the page of a topic has that topic's artifacts, favourites first.                       *)
THEOREM PagesAgreeWithThemselves == Spec => []PageAgrees
BY PagesInvariant, PTL DEF PagesInv
=============================================================================
