--------------------------- MODULE ArtifactStore ---------------------------
(***************************************************************************)
(* How an artifact is published, read, deleted, expired and swept.         *)
(*                                                                         *)
(* storage.py keeps every artifact twice: a metadata row in SQLite and a   *)
(* directory artifacts/<id> on the filesystem.  The two are changed by     *)
(* separate steps and no lock covers both, so this module interleaves      *)
(*   - one publish at a time (publish_artifact is an `async def` that calls *)
(*     ArtifactStore.create synchronously on the event loop),              *)
(*   - any number of worker threads that read or delete artifacts,         *)
(*   - one janitor sweep at a time (run_janitor awaits a thread; at start  *)
(*     startup_sweep runs before anything is served),                      *)
(*   - process crashes, power losses and failing system calls,             *)
(*   - a wall clock, because the janitor decides by age.                   *)
(***************************************************************************)
EXTENDS Integers, FiniteSets

CONSTANTS
    Ids,         \* artifact ids: 192 random bits, never drawn twice
    Workers,     \* threads of the pool that runs the synchronous endpoints
    None,        \* no value: a NULL expires_at, a local of a call not running
    Lifetimes,   \* lifetimes a publish may ask for, besides none at all
    Grace,       \* ORPHAN_GRACE_SECONDS, in ticks
    StagingMax,  \* STAGING_MAX_AGE_SECONDS, in ticks
    StartLag,    \* how long a submitted sweep may wait for its thread
    MaxTime,     \* bound of the model: last tick of the clock
    MaxFaults    \* bound of the model: crashes and failed calls in a behaviour

\* A sweep's thread starts before a directory made after the sweep was
\* submitted can have reached either age limit.
ASSUME StoreAssumption ==
    /\ Grace \in Nat /\ StagingMax \in Nat /\ StartLag \in Nat
    /\ StartLag < Grace /\ StartLag < StagingMax
    /\ MaxTime \in Nat /\ MaxFaults \in Nat
    /\ Lifetimes \subseteq Nat
    /\ None \notin Nat /\ None \notin Ids

\* What a directory holds: nothing there, a publish still writing, every byte,
\* or less than every byte because an rmtree reached it.
Contents == {"none", "part", "whole", "torn"}

VARIABLES
    now, faults,
    mode,        \* "down", "booting" (startup sweep) or "serving"
    rows,        \* ids with a committed row in table artifacts
    expiry,      \* expires_at of each id drawn so far
    used,        \* ids drawn by new_artifact_id so far
    art,         \* contents of artifacts/<id>
    tmp,         \* contents of the staging directory made for <id>
    mtime,       \* modification time of whichever directory holds <id>
    unsynced,    \* ids whose entry in artifacts/ changed since its last fsync
    cpc, cid,    \* create: next step, and its artifact id
    wpc, wid,    \* workers: next step, and the id of the request
    jpc, jid,    \* sweep: next step, and the id being removed
    wall,        \* sweep's `wall`: the clock when it started
    queued,      \* when the sweep was handed to its thread
    todo,        \* what the sweep's current loop has still to visit
    known        \* sweep's `known`

disk  == <<art, tmp, mtime, unsynced>>
db    == <<rows, expiry>>
pub   == <<cpc, cid>>
work  == <<wpc, wid>>
sweep == <<jpc, jid, wall, queued, todo, known>>
vars  == <<now, faults, mode, used, disk, db, pub, work, sweep>>

Expired(id, at) == expiry[id] # None /\ expiry[id] <= at

TypeOK ==
    /\ now \in Nat /\ faults \in Nat
    /\ mode \in {"down", "booting", "serving"}
    /\ rows \subseteq Ids /\ used \subseteq Ids /\ unsynced \subseteq Ids
    /\ expiry \in [Ids -> Nat \cup {None}]
    /\ art \in [Ids -> Contents] /\ tmp \in [Ids -> Contents]
    /\ mtime \in [Ids -> Nat]
    /\ cpc \in {"idle", "staging", "staged", "replaced", "synced", "unstage", "undo"}
    /\ cid \in Ids \cup {None}
    /\ wpc \in [Workers -> {"idle", "opened", "listed", "bare", "served",
                            "partial", "missing", "erase"}]
    /\ wid \in [Workers -> Ids \cup {None}]
    /\ jpc \in {"idle", "queued", "expire", "expireRm", "list", "scan",
                "orphanRm", "stage", "stageRm"}
    /\ jid \in Ids \cup {None}
    /\ wall \in Nat /\ queued \in Nat
    /\ todo \subseteq Ids /\ known \subseteq Ids

Init ==
    /\ now = 0 /\ faults = 0 /\ mode = "down"
    /\ rows = {} /\ used = {} /\ unsynced = {}
    /\ expiry = [id \in Ids |-> None]
    /\ art = [id \in Ids |-> "none"] /\ tmp = [id \in Ids |-> "none"]
    /\ mtime = [id \in Ids |-> 0]
    /\ cpc = "idle" /\ cid = None
    /\ wpc = [w \in Workers |-> "idle"] /\ wid = [w \in Workers |-> None]
    /\ jpc = "idle" /\ jid = None
    /\ wall = 0 /\ queued = 0 /\ todo = {} /\ known = {}

(***************************************************************************)
(* The environment: the clock, and one failure out of the bounded supply.  *)
(***************************************************************************)
Fault == faults < MaxFaults /\ faults' = faults + 1

Tick ==
    /\ now < MaxTime
    /\ jpc = "queued" => now < queued + StartLag
    /\ now' = now + 1
    /\ UNCHANGED <<faults, mode, used, disk, db, pub, work, sweep>>

(***************************************************************************)
(* shutil.rmtree(..., ignore_errors=True): the entries go one by one, and  *)
(* what cannot be removed is left behind without a word.                   *)
(***************************************************************************)
TearArtifact(id) ==
    /\ art[id] \in {"part", "whole"}
    /\ art' = [art EXCEPT ![id] = "torn"]
    /\ mtime' = [mtime EXCEPT ![id] = now]
    /\ unsynced' = unsynced \cup {id}
    /\ UNCHANGED <<tmp, faults>>

ClearArtifact(id) ==
    /\ \/ art[id] = "none" /\ UNCHANGED <<art, mtime, unsynced, faults>>
       \/ /\ art[id] = "torn"
          /\ art' = [art EXCEPT ![id] = "none"]
          /\ mtime' = [mtime EXCEPT ![id] = 0]
          /\ unsynced' = unsynced \cup {id}
          /\ UNCHANGED faults
       \/ art[id] = "torn" /\ Fault /\ UNCHANGED <<art, mtime, unsynced>>
    /\ UNCHANGED tmp

TearStaging(id) ==
    /\ tmp[id] \in {"part", "whole"}
    /\ tmp' = [tmp EXCEPT ![id] = "torn"]
    /\ mtime' = [mtime EXCEPT ![id] = now]
    /\ UNCHANGED <<art, unsynced, faults>>

ClearStaging(id) ==
    /\ \/ tmp[id] = "none" /\ UNCHANGED <<tmp, mtime, faults>>
       \/ /\ tmp[id] = "torn"
          /\ tmp' = [tmp EXCEPT ![id] = "none"]
          /\ mtime' = [mtime EXCEPT ![id] = 0]
          /\ UNCHANGED faults
       \/ tmp[id] = "torn" /\ Fault /\ UNCHANGED <<tmp, mtime>>
    /\ UNCHANGED <<art, unsynced>>

(***************************************************************************)
(* ArtifactStore.create                                                    *)
(***************************************************************************)
CreateReturns == cpc' = "idle" /\ cid' = None

\* Mutant: an id derived from the content is drawn again.
CreateStagingIdReused(id, expires) ==
    /\ mode = "serving" /\ cpc = "idle" /\ id \notin rows /\ art[id] = "none"
    /\ used' = used \cup {id}
    /\ tmp' = [tmp EXCEPT ![id] = "part"]
    /\ mtime' = [mtime EXCEPT ![id] = now]
    /\ expiry' = [expiry EXCEPT ![id] = expires]
    /\ cpc' = "staging" /\ cid' = id
    /\ UNCHANGED <<now, faults, mode, art, unsynced, rows, work, sweep>>

CreateStaging(id, expires) ==
    /\ mode = "serving" /\ cpc = "idle" /\ id \notin used
    /\ used' = used \cup {id}
    /\ tmp' = [tmp EXCEPT ![id] = "part"]
    /\ mtime' = [mtime EXCEPT ![id] = now]
    /\ expiry' = [expiry EXCEPT ![id] = expires]
    /\ cpc' = "staging" /\ cid' = id
    /\ UNCHANGED <<now, faults, mode, art, unsynced, rows, work, sweep>>

\* Source, then assets, every file flushed, then the directory itself.  The
\* directory's own mtime is that of its last new entry, so it may lie anywhere
\* between the mkdir and the end of the writing.
WriteStaging ==
    /\ cpc = "staging" /\ tmp[cid] # "none"
    /\ tmp' = [tmp EXCEPT ![cid] = IF @ = "part" THEN "whole" ELSE "torn"]
    /\ \E t \in mtime[cid]..now : mtime' = [mtime EXCEPT ![cid] = t]
    /\ cpc' = "staged"
    /\ UNCHANGED <<now, faults, mode, used, art, unsynced, db, cid, work, sweep>>

\* os.replace moves the directory as it is, its mtime included.
Replace ==
    /\ cpc = "staged" /\ tmp[cid] # "none"
    /\ art' = [art EXCEPT ![cid] = tmp[cid]]
    /\ tmp' = [tmp EXCEPT ![cid] = "none"]
    /\ unsynced' = unsynced \cup {cid}
    /\ cpc' = "replaced"
    /\ UNCHANGED <<now, faults, mode, used, mtime, db, cid, work, sweep>>

SyncArtifactsDir ==
    /\ cpc = "replaced"
    /\ unsynced' = {}
    /\ cpc' = "synced"
    /\ UNCHANGED <<now, faults, mode, used, art, tmp, mtime, db, cid, work, sweep>>

\* BEGIN IMMEDIATE ... COMMIT, with synchronous=FULL: all or nothing, durable.
InsertRow ==
    /\ cpc = "synced"
    /\ rows' = rows \cup {cid}
    /\ CreateReturns
    /\ UNCHANGED <<now, faults, mode, used, disk, expiry, work, sweep>>

\* Any step may raise; before the row the staging directory is removed, at
\* the row the published directory is.
CreateFails ==
    /\ \/ cpc \in {"staging", "staged"} /\ tmp[cid] = "none" /\ UNCHANGED faults
       \/ cpc \in {"staging", "staged", "replaced", "synced"} /\ Fault
    /\ cpc' = IF cpc = "synced" THEN "undo" ELSE "unstage"
    /\ UNCHANGED <<now, mode, used, disk, db, cid, work, sweep>>

Unstage ==
    /\ cpc = "unstage"
    /\ \/ TearStaging(cid) /\ UNCHANGED pub
       \/ ClearStaging(cid) /\ CreateReturns
    /\ UNCHANGED <<now, mode, used, db, work, sweep>>

UndoReplace ==
    /\ cpc = "undo"
    /\ \/ TearArtifact(cid) /\ UNCHANGED pub
       \/ ClearArtifact(cid) /\ CreateReturns
    /\ UNCHANGED <<now, mode, used, db, work, sweep>>

Create ==
    \/ \E id \in Ids, e \in {now + t : t \in Lifetimes} \cup {None} :
          CreateStaging(id, e)
    \/ WriteStaging \/ Replace \/ SyncArtifactsDir \/ InsertRow
    \/ CreateFails \/ Unstage \/ UndoReplace

(***************************************************************************)
(* Worker threads.  read_artifact loads the row, lists the assets and      *)
(* reads the bytes in three separate steps; delete removes the row (the    *)
(* assets rows cascade) and then the bytes.                                *)
(***************************************************************************)
RequestEnds(w) ==
    wpc' = [wpc EXCEPT ![w] = "idle"] /\ wid' = [wid EXCEPT ![w] = None]

LoadArtifact(w, id) ==
    /\ mode = "serving" /\ wpc[w] = "idle"
    /\ id \in rows /\ ~Expired(id, now)
    /\ wpc' = [wpc EXCEPT ![w] = "opened"]
    /\ wid' = [wid EXCEPT ![w] = id]
    /\ UNCHANGED <<now, faults, mode, used, disk, db, pub, sweep>>

\* list_assets: no row left, no asset rows left.
ListAssets(w) ==
    /\ wpc[w] = "opened"
    /\ wpc' = [wpc EXCEPT ![w] = IF wid[w] \in rows THEN "listed" ELSE "bare"]
    /\ UNCHANGED <<now, faults, mode, used, disk, db, pub, wid, sweep>>

\* The source may or may not be among what an unfinished rmtree left.
ReadSource(w) ==
    /\ wpc[w] \in {"listed", "bare"}
    /\ \/ /\ art[wid[w]] \in {"whole", "torn"}
          /\ wpc' = [wpc EXCEPT ![w] = IF @ = "listed" THEN "served" ELSE "partial"]
       \/ /\ art[wid[w]] # "whole"
          /\ wpc' = [wpc EXCEPT ![w] = "missing"]
    /\ UNCHANGED <<now, faults, mode, used, disk, db, pub, wid, sweep>>

Respond(w) ==
    /\ wpc[w] \in {"served", "partial", "missing"}
    /\ RequestEnds(w)
    /\ UNCHANGED <<now, faults, mode, used, disk, db, pub, sweep>>

\* A caller can only name an id it was given: no id of a publish in flight.
DeleteRow(w, id) ==
    /\ mode = "serving" /\ wpc[w] = "idle"
    /\ id \in used /\ id # cid
    /\ rows' = rows \ {id}
    /\ wpc' = [wpc EXCEPT ![w] = "erase"]
    /\ wid' = [wid EXCEPT ![w] = id]
    /\ UNCHANGED <<now, faults, mode, used, disk, expiry, pub, sweep>>

DeleteBytes(w) ==
    /\ wpc[w] = "erase"
    /\ \/ TearArtifact(wid[w]) /\ UNCHANGED work
       \/ ClearArtifact(wid[w]) /\ RequestEnds(w)
    /\ UNCHANGED <<now, mode, used, db, pub, sweep>>

Worker(w) ==
    \/ \E id \in Ids : LoadArtifact(w, id) \/ DeleteRow(w, id)
    \/ ListAssets(w) \/ ReadSource(w) \/ Respond(w) \/ DeleteBytes(w)

(***************************************************************************)
(* The janitor.  run_janitor lives on the event loop, so it can only hand  *)
(* a sweep to a thread while no create is running; sweep() itself runs in  *)
(* that thread, concurrently with everything.                              *)
(***************************************************************************)
Boot ==
    /\ mode = "down"
    /\ mode' = "booting"
    /\ jpc' = "queued" /\ queued' = now
    /\ UNCHANGED <<now, faults, used, disk, db, pub, work, jid, wall, todo, known>>

SubmitSweep ==
    /\ mode = "serving" /\ cpc = "idle" /\ jpc = "idle"
    /\ jpc' = "queued" /\ queued' = now
    /\ UNCHANGED <<now, faults, mode, used, disk, db, pub, work, jid, wall, todo, known>>

StartSweep ==
    /\ jpc = "queued"
    /\ wall' = now /\ queued' = 0
    /\ todo' = {id \in rows : Expired(id, now)}
    /\ jpc' = "expire"
    /\ UNCHANGED <<now, faults, mode, used, disk, db, pub, work, jid, known>>

ExpireRow ==
    /\ jpc = "expire"
    /\ \E id \in todo :
          /\ rows' = rows \ {id} /\ todo' = todo \ {id} /\ jid' = id
    /\ jpc' = "expireRm"
    /\ UNCHANGED <<now, faults, mode, used, disk, expiry, pub, work, wall, queued, known>>

\* The rmtree of the loop the sweep is in; then the loop goes on.
SweepRmtree ==
    /\ \/ /\ jpc = "expireRm"
          /\ \/ TearArtifact(jid) /\ UNCHANGED <<jpc, jid>>
             \/ ClearArtifact(jid) /\ jpc' = "expire" /\ jid' = None
       \/ /\ jpc = "orphanRm"
          /\ \/ TearArtifact(jid) /\ UNCHANGED <<jpc, jid>>
             \/ ClearArtifact(jid) /\ jpc' = "scan" /\ jid' = None
       \/ /\ jpc = "stageRm"
          /\ \/ TearStaging(jid) /\ UNCHANGED <<jpc, jid>>
             \/ ClearStaging(jid) /\ jpc' = "stage" /\ jid' = None
    /\ UNCHANGED <<now, mode, used, db, pub, work, wall, queued, todo, known>>

ReadKnownIds ==
    /\ jpc = "expire" /\ todo = {}
    /\ known' = rows
    /\ jpc' = "list"
    /\ UNCHANGED <<now, faults, mode, used, disk, db, pub, work, jid, wall, queued, todo>>

\* iterdir lists the names once; the loop visits them later.
ListArtifacts ==
    /\ jpc = "list"
    /\ todo' = {id \in Ids : art[id] # "none"}
    /\ jpc' = "scan"
    /\ UNCHANGED <<now, faults, mode, used, disk, db, pub, work, jid, wall, queued, known>>

\* Mutants: no grace period; no look at the known ids; only complete directories.
OrphanedAtOnce(id) == id \notin known
OrphanedByAge(id) == wall - mtime[id] >= Grace
OrphanedIfWhole(id) == art[id] = "whole" /\ id \notin known /\ wall - mtime[id] >= Grace

Orphaned(id) == id \notin known /\ wall - mtime[id] >= Grace
Abandoned(id) == wall - mtime[id] >= StagingMax

VisitArtifact ==
    /\ jpc = "scan"
    /\ \E id \in todo :
          /\ todo' = todo \ {id}
          /\ IF art[id] # "none" /\ Orphaned(id)
             THEN jpc' = "orphanRm" /\ jid' = id
             ELSE UNCHANGED <<jpc, jid>>
    /\ UNCHANGED <<now, faults, mode, used, disk, db, pub, work, wall, queued, known>>

ListStaging ==
    /\ jpc = "scan" /\ todo = {}
    /\ todo' = {id \in Ids : tmp[id] # "none"}
    /\ jpc' = "stage"
    /\ UNCHANGED <<now, faults, mode, used, disk, db, pub, work, jid, wall, queued, known>>

VisitStaging ==
    /\ jpc = "stage"
    /\ \E id \in todo :
          /\ todo' = todo \ {id}
          /\ IF tmp[id] # "none" /\ Abandoned(id)
             THEN jpc' = "stageRm" /\ jid' = id
             ELSE UNCHANGED <<jpc, jid>>
    /\ UNCHANGED <<now, faults, mode, used, disk, db, pub, work, wall, queued, known>>

SweepReturns ==
    /\ jpc' = "idle" /\ jid' = None
    /\ wall' = 0 /\ queued' = 0 /\ todo' = {} /\ known' = {}

EndSweep ==
    /\ jpc = "stage" /\ todo = {}
    /\ SweepReturns
    /\ mode' = "serving"
    /\ UNCHANGED <<now, faults, used, disk, db, pub, work>>

\* Mutant: an exception ends run_janitor, and with it every later sweep.
AbortJanitor ==
    /\ jpc \in {"expire", "list", "scan", "stage"} /\ Fault
    /\ jpc' = "dead" /\ jid' = None
    /\ UNCHANGED <<now, mode, used, disk, db, pub, work, wall, queued, todo, known>>

\* An exception ends the sweep: a delete whose DELETE fails, or an entry that
\* vanishes between is_dir() and stat().  run_janitor logs it and waits for the
\* next interval; at start-up it ends the process.
AbortSweep ==
    /\ \/ jpc \in {"expire", "list", "scan", "stage"} /\ Fault
       \/ /\ jpc = "scan" /\ \E id \in todo \ known : art[id] = "none"
          /\ UNCHANGED faults
       \/ /\ jpc = "stage" /\ \E id \in todo : tmp[id] = "none"
          /\ UNCHANGED faults
    /\ SweepReturns
    /\ mode' = IF mode = "booting" THEN "down" ELSE mode
    /\ UNCHANGED <<now, used, disk, db, pub, work>>

Janitor ==
    \/ SubmitSweep \/ StartSweep \/ ExpireRow \/ SweepRmtree \/ ReadKnownIds
    \/ ListArtifacts \/ VisitArtifact \/ ListStaging \/ VisitStaging
    \/ EndSweep \/ AbortSweep

(***************************************************************************)
(* Stopping.  A killed process leaves the disk as it is.  A power loss also *)
(* undoes directory changes that were never flushed: an entry of artifacts/ *)
(* that changed since the directory's last fsync may be in any state it    *)
(* passed through, and nothing ever flushes tmp/.                          *)
(***************************************************************************)
Stopped ==
    /\ mode # "down" /\ Fault
    /\ mode' = "down"
    /\ CreateReturns /\ SweepReturns
    /\ wpc' = [w \in Workers |-> "idle"] /\ wid' = [w \in Workers |-> None]
    /\ UNCHANGED <<now, used, db>>

Kill == Stopped /\ UNCHANGED disk

PowerLoss ==
    /\ Stopped
    /\ art' \in [Ids -> Contents] /\ tmp' \in [Ids -> Contents]
    /\ \A id \in Ids :
          /\ art'[id] # art[id] => id \in unsynced /\ art'[id] # "part"
          /\ tmp'[id] # tmp[id] => /\ tmp'[id] \in {"none", "torn"}
                                   /\ \/ tmp[id] # "none"
                                      \/ cpc = "replaced" /\ cid = id
          /\ tmp'[id] = "none" \/ art'[id] = "none"
    /\ unsynced' = {}
    /\ UNCHANGED mtime

Next ==
    \/ Tick \/ Boot \/ Create \/ Janitor \/ Kill \/ PowerLoss
    \/ \E w \in Workers : Worker(w)

Spec == Init /\ [][Next]_vars

(***************************************************************************)
(* Safety.                                                                 *)
(***************************************************************************)

\* "never a metadata row pointing at missing bytes" (storage.py, module
\* docstring): whatever the janitor, the deleters, crashes and power losses do,
\* a committed row always has its whole directory behind it.
RowsHaveBytes == \A id \in rows : art[id] = "whole"

\* What a reader of read_artifact gets wrong, it gets wrong because the artifact
\* was deleted under it: while the row is there, the answer is complete.
ReadersGetLiveArtifacts ==
    \A w \in Workers : wpc[w] \in {"bare", "partial", "missing"} => wid[w] \notin rows

\* A sweep never removes the row of an artifact that has not expired, nor the
\* bytes of one that has a row, however stale its `wall`, `known` and listings.
SweepSparesLive ==
    [][\A id \in Ids :
          /\ Janitor /\ id \in rows \ rows' => Expired(id, now)
          /\ Janitor /\ art'[id] # art[id] => id \notin rows]_vars

(***************************************************************************)
(* Why RowsHaveBytes holds: the inductive strengthening, part by part.     *)
(***************************************************************************)

\* Every row is backed by bytes a power loss cannot take away.
RowsAreDurable ==
    /\ rows \subseteq used
    /\ \A id \in rows : art[id] = "whole" /\ id \notin unsynced

\* A directory belongs to an id that was drawn, and is in one place.
DirectoriesAreOwned ==
    /\ unsynced \subseteq used
    /\ \A id \in Ids :
          /\ art[id] # "none" \/ tmp[id] # "none" => id \in used
          /\ art[id] = "none" \/ tmp[id] = "none"
          /\ mtime[id] <= now

\* The publish in flight has what its next step needs, and no one else does.
PublishIsUndisturbed ==
    /\ cpc = "idle" <=> cid = None
    /\ mode # "serving" => cid = None
    /\ cid # None => cid \in used \ rows
    /\ cpc = "staging" => tmp[cid] = "part"
    /\ cpc = "staged" => tmp[cid] = "whole"
    /\ cpc \in {"replaced", "synced"} => art[cid] = "whole"
    /\ cpc = "synced" => cid \notin unsynced

\* A request is about an artifact that was published; once it has seen it gone,
\* it stays gone.
RequestsAreAboutPublished ==
    \A w \in Workers :
        /\ wpc[w] # "idle" => wid[w] \in used /\ wid[w] # cid
        /\ wpc[w] \in {"bare", "partial", "missing", "erase"} => wid[w] \notin rows

\* Seen from the sweep's `wall`, the publish in flight and every row committed
\* since `known` was read are too young to be taken.
SweepSeesThemYoung ==
    /\ wall <= now
    /\ jpc = "queued" => queued <= now /\ now <= queued + StartLag
    /\ jpc = "queued" /\ cid # None => queued <= mtime[cid]
    /\ jpc \notin {"idle", "queued"} /\ cid # None =>
          wall - mtime[cid] < Grace /\ wall - mtime[cid] < StagingMax
    /\ jpc \in {"list", "scan", "orphanRm"} =>
          \A id \in rows : id \in known \/ wall - mtime[id] < Grace

\* What the sweep deletes has expired; what it removes has no row and no publish.
SweepTakesOnlyDead ==
    /\ jpc \in {"expire", "expireRm"} =>
          \A id \in todo : id \in used /\ id # cid /\ Expired(id, now)
    /\ jpc \in {"expireRm", "orphanRm", "stageRm"} => jid \in used /\ jid # cid
    /\ jpc \in {"expireRm", "orphanRm"} => jid \notin rows

StoreInv ==
    /\ TypeOK /\ RowsAreDurable /\ DirectoriesAreOwned /\ PublishIsUndisturbed
    /\ RequestsAreAboutPublished /\ SweepSeesThemYoung /\ SweepTakesOnlyDead

(***************************************************************************)
(* The store implements ArtifactLifecycle: an id is live while it has a    *)
(* row, gone once it was drawn and neither has a row nor can still get one. *)
(***************************************************************************)
StatusOf(id) == IF id \in rows THEN "live"
                ELSE IF id \in used /\ id # cid THEN "gone" ELSE "fresh"
RequestOf(w) == IF wpc[w] \in {"listed", "bare"} THEN "opened"
                ELSE IF wpc[w] = "erase" THEN "idle" ELSE wpc[w]
TargetOf(w) == IF wpc[w] \in {"idle", "erase"} THEN None ELSE wid[w]

Statuses == [id \in Ids |-> StatusOf(id)]
Requests == [w \in Workers |-> RequestOf(w)]
Targets  == [w \in Workers |-> TargetOf(w)]

Lifecycle == INSTANCE ArtifactLifecycle WITH
    status <- Statuses, request <- Requests, target <- Targets

\* Callers see the promised life cycle whatever the steps underneath do.
ImplementsLifecycle == Lifecycle!Spec

(***************************************************************************)
(* Liveness.  The event loop, the worker threads and the janitor's thread  *)
(* are scheduled, the container is restarted, and time passes; nobody has  *)
(* to publish, read or delete anything.                                    *)
(***************************************************************************)
Fairness ==
    /\ WF_vars(Tick) /\ WF_vars(Boot)
    /\ WF_vars(WriteStaging \/ Replace \/ SyncArtifactsDir \/ InsertRow
                 \/ CreateFails \/ Unstage \/ UndoReplace)
    /\ WF_vars(Janitor)
    /\ \A w \in Workers :
          WF_vars(ListAssets(w) \/ ReadSource(w) \/ Respond(w) \/ DeleteBytes(w))

FairSpec == Spec /\ Fairness

\* An expired artifact is gone in the end, row and bytes, even when the process
\* was down while it expired.
ExpiredIsRemoved ==
    \A id \in Ids : id \in rows /\ Expired(id, MaxTime) ~> id \notin rows

\* A directory without a row does not stay: the janitor reclaims it once it has
\* been left alone for the grace period (MaxTime is when the clock stops).
OrphansAreReclaimed ==
    \A id \in Ids : art[id] # "none" /\ id \notin rows /\ mtime[id] + Grace <= MaxTime
                    ~> art[id] = "none" \/ id \in rows \/ mtime[id] + Grace > MaxTime

\* Nor does an abandoned staging directory.
StagingIsReclaimed ==
    \A id \in Ids : tmp[id] # "none" /\ mtime[id] + StagingMax <= MaxTime
                    ~> tmp[id] = "none" \/ mtime[id] + StagingMax > MaxTime

\* Whatever a crash, a failed call or a half-done rmtree leaves behind goes in the
\* end, although a sweep may fail (janitor.py, sweep and run_janitor).
GarbageIsReclaimed == OrphansAreReclaimed /\ StagingIsReclaimed
=============================================================================
