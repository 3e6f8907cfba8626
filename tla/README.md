# Artifact Relay: a verification development

Artifact Relay accepts Markdown or HTML documents ("artifacts") from trusted agents, keeps them on
one machine and shows them to one password-protected reader, or to whoever holds a share link. This
directory holds TLA+ modules of its core, TLC configurations that check them on small instances and
TLAPS proofs that hold for every value of the constants. Paths are relative to the repository.

## The system

| component | state | operations | interacts with |
|---|---|---|---|
| Artifact store (`src/artifact_relay/storage.py`) | SQLite tables `artifacts`, `assets`, `share_links`, `topic_aliases`; directories `artifacts/<id>`, `tmp/stage-*` | create, get, delete, list, read_source, known_ids, expired_ids, metadata updates, shares | every router, the janitor |
| Janitor (`janitor.py`, started by `app.py`) | locals of a sweep: `wall`, `known`, the directory listings | startup_sweep, run_janitor, sweep | the store, in a thread of its own |
| Machine API (`routers/api.py`) | none | publish, read, update provenance, delete | upload limits, store |
| Viewer (`routers/viewer.py`) | none | library, page, assets, embeds, shares, favorites, topic names | store, share sessions, capabilities |
| Login (`routers/auth.py`, `ratelimit.py`, `security.py`) | failure windows per client, slots of the verification gate | login, logout | session cookies |
| Shares (`storage.py`, `viewer.py`, `security.py`) | rows of `share_links`, share cookies | create, redeem, revoke, view | store |
| Upload limits (`validation.py`, `middleware.py`, `dependencies.py`) | bytes counted so far, the middleware's `exceeded` and `response_started` | bounded receive, watched send, form parsing, validators, bounded reads | machine API, share forms |
| Library (`storage.py`, `viewer.py`, `api.py`) | the flag and the provenance in a row, `topic_aliases` | toggle_favorite, update_provenance, set_topic_name, index | store |
| Restore (`scripts/restore.sh`, `restore_archive.py`) | the data directory, `.restore-staging`, `.restore-previous` with its manifest, `$phase` | validate, ready, apply, commit, rollback, the EXIT trap | docker, the running service, an operator |
| Backup (`scripts/backup.sh`) | `$running`, the archive at `$DEST` | stop, pack, the EXIT trap | docker, the running service |
| Schema (`db.py`) | `PRAGMA user_version`, tables, indexes and columns | init_db, connect | store, restore |
| Rendering (`rendering.py`, `assets.py`) | none that lasts: ids given out, table of contents | anchors, sanitising, rewriting of references | viewer, the browser |
| Pages, styles, cards, logging, configuration | none that changes | pure functions of their input | viewer |

What makes it hard:

* **Two stores, no common lock.** An artifact is a row and a directory. Publishing makes the
  directory first, deleting removes the row first, and a crash may fall between.
* **Threads.** Synchronous endpoints run in a thread pool and a sweep in another thread, while
  `publish_artifact` and `run_janitor` share the event loop.
* **Age as evidence.** The janitor cannot ask whether a publish is in flight; it compares an old
  reading of the clock with a modification time, and uses a list of ids it read earlier.
* **Crashes.** A killed process leaves the disk as it is; a power loss also takes back renames that
  were never flushed. `rmtree(ignore_errors=True)` may stop half-way without saying so.
* **Unguarded shared memory.** The login throttle is an `OrderedDict` that all threads of the pool use
  without a lock.
* **Credentials without records.** Cookies, iframe tokens and capabilities are signed, dated and
  stored nowhere. Nothing can be taken back, so every request checks the rows again, in several reads.
* **Reads and writes in transactions of their own.** Most handlers open a connection for every read;
  only `toggle_favorite` holds the write lock from its read to its write.
* **Limits counted in several places.** The middleware, the framework, a dependency, the bounded reads
  and the validators each count part of a request, and must agree at every boundary.
* **Schema changes without a transaction.** `init_db` is a dozen autocommitted statements.
* **Names that two parties resolve.** A document refers to its files by relative paths, which the
  sanitiser rewrites on some pages and the browser resolves on the others.
* **A multi-step restore outside the service**, driven by a shell script over docker commands that
  may fail, time out or report a success as a failure.

Correctness, component by component: a committed row has its bytes; readers see an artifact appear
and disappear at one instant; a sweep removes only the dead, and in the end all of the dead; a restore
never lets the service run on a mixture, never loses the old data before the commit, and its rollback
can be resumed; whatever ends a link, an artifact or a credential ends all access that rested on it at
once, and refuses nobody else; the gate neither loses nor invents a slot, and the throttle stays
within its bounds although nothing guards it; an upload is accepted exactly when it is within every
limit, never held beyond them, and answered once; no change of a row's metadata is lost or answered
with something older; a schema change that is cut short can be repeated, and ends in what the restore
tool accepts; a backup that announces itself can be restored; headings keep distinct anchors, and a
reference means the same file wherever the document is shown.

## The modules

| module | what it is |
|---|---|
| `ArtifactStore` | publish, read, delete and sweep, with clock, faults, kills and power losses |
| `ArtifactLifecycle` | what callers are promised: fresh, live, gone, and what an answer may be |
| `ArtifactStoreProofs` | the inductive invariant, its consequences and the refinement, proved |
| `RestoreTransaction` | `restore_archive.py`, `restore.sh`, the service, the host and the operator |
| `RestoreTransactionProofs` | the inductive invariants of a restore, with and without power losses, and their consequences, proved |
| `LoginGate` | `POST /login`: the throttle and the gate, between any two calls of any thread |
| `LoginGateProofs` | the inductive invariants of the gate, the throttle and its table, proved |
| `ShareAccess` | share links, cookies, iframe tokens and capabilities, read by read |
| `ShareAccessProofs` | the inductive invariant of sharing and all its properties, proved |
| `RestorePowerLoss` | the same restore on a machine that may lose power |
| `UploadLimits` | one request through the middleware, the framework and every validator |
| `UploadLimitsProofs` | the inductive invariant of an upload and its consequences, and that its answer is exact, proved |
| `Library` | favourites, provenance, topic names and the library page on one SQLite database |
| `LibraryProofs` | the inductive invariants of the library and of its page, proved |
| `SchemaMigration` | `init_db` statement by statement, and the restore tool's look at the result |
| `Backup` | `backup.sh` beside a service that writes |
| `MaintenanceProofs` | the inductive invariants of a backup and of a start-up, proved |
| `HeadingAnchors` | anchors, sanitiser and table of contents of a rendered document |
| `AssetReferences` | a document's references to its files, through sanitiser, browser and routes |
| `RenderingProofs` | the inductive invariants of anchors, of the table of contents and of references, proved |
| `MCRestore`, `MCLoginGate`, `MCShareAccess`, `MCUploadLimits`, `MCLibrary`, `MCRendering` | instances for TLC; the other modules are checked as they stand |

Definitions marked "Mutant" are never part of a specification: each is a plausible bug in the
definition that follows it, kept to show that a property would catch it.

### ArtifactStore

The variables are the state of the code and nothing else: `rows` and `expiry` are the table
`artifacts`; `art` and `tmp` say what `artifacts/<id>` and the staging directory of `<id>` hold
(nothing, a part, everything, or what an unfinished `rmtree` left); `mtime` is the directory's
modification time, which `os.replace` carries over; `unsynced` names the entries of `artifacts/` that
changed since that directory was last flushed. `cpc`/`cid`, `wpc`/`wid` and `jpc`/`jid`/`wall`/
`todo`/`known` are the program counters and locals of `create`, of the requests in the thread pool and
of the sweep. `queued` is the moment a sweep was handed to its thread.

* `CreateStaging`, `WriteStaging`, `Replace`, `SyncArtifactsDir`, `InsertRow` are the lines of
  `create` in their order; `CreateFails` with `Unstage` and `UndoReplace` are its two handlers. Note
  what the first handler does after a failed `fsync` of `artifacts/`: it removes the staging path,
  which is already gone, and leaves the published directory to the janitor.
* There is one publish at a time because `publish_artifact` is `async` and calls `create` without
  awaiting anything. For the same reason `SubmitSweep` needs `cpc = "idle"`: `run_janitor` gets the
  event loop only when no `create` runs. The sweep itself (`StartSweep` and later) has its own thread.
* `LoadArtifact`, `ListAssets`, `ReadSource`, `Respond` are `read_artifact`; `DeleteRow` and
  `DeleteBytes` are `delete`, whose `assets` rows cascade. `ExpireRow` with `SweepRmtree` is the same
  `delete` called by the sweep.
* `AbortSweep` is an exception inside `sweep`: a failing DELETE, or an entry that a deleter removed
  between `is_dir()` and `stat()`. `run_janitor` survives it; at start-up it ends the process.
* `Kill` keeps the disk. `PowerLoss` lets every unflushed entry of `artifacts/` fall back to any state
  it passed through, and takes any part of `tmp/`, which nobody flushes. Committed rows stay
  (`synchronous=FULL`).

`ArtifactLifecycle` has no disk, no janitor and no clock. A store id maps to `live` while it has a
row, to `gone` once it was drawn, has no row and is not the id of the publish in flight, and to
`fresh` otherwise; a request maps to its answer. Every step of the store is then one step of the life
cycle or none.

### RestoreTransaction

`live` and `prev` give the generation ("old", "new" or none) of every name of `DATA_NAMES` in the data
directory and in `.restore-previous`; `manifest` and `original` are the manifest in it, which a failed
write may leave torn. `phase` is the script's variable, `step` the command it is at, `tool` the next
step of the Python program in its container. `app` is the service, which works on its files while it
is up (`AppTouches`: SQLite makes and removes `-wal` and `-shm`).

Every command may fail; a docker command may also report a failure although it did its work
(`ToolReturns`, `RestartApp`, `StopApp`). `ToolDies` is a death of the tool that runs none of its
handlers, `Killed` the death of the host. `Operator` does what the messages of the script ask for:
finish the rollback while the service is down, commit while it is healthy, start it when nothing is
pending. The names are visited in any order; the code's order is one of them.

### LoginGate

`login_submit` is a synchronous endpoint, so attempts run on threads of a pool. The gate
(`security.py`) is guarded by a semaphore and a lock; the throttle (`ratelimit.py`) by nothing. What
CPython runs between two calls on the table is one step: `Get` is the `get` of `_current`, `Judge` the
rest of it (`del` or `move_to_end`), `Count` the insertion or the increment, `Evict` and `Pop` one
round of the `while`. `pc`, `moment`, `seen`, `outcome` and `wait` are a thread's locals.

A window is an object, here a cell: a thread may hold one that has left the table. `order` is the
order of the `OrderedDict`, `win` its values. So the model has what the code has: two failures of one
address may each make a window and the second replaces the first; a failure may be counted on a window
nobody will look at again; `_current` may delete or move another window than the one it judged.

* `Admit`, `Enter`, `Verify`, `Leave`, `Release` are `admit` around `verify_view_password`, which may
  find the password right or wrong or raise. A refused attempt ends with 503 at once.
* `Second` is the number of ticks in a second: `time.monotonic()` has fractions, Retry-After has not.

### ShareAccess

`links` and `arts` are the rows of `share_links` and of `artifacts`; `enabled` and `secretKey` what
the process was started with; `held` what it has handed out: the secret in a link's URL, the cookie of
a redemption, the token or capability in an iframe's URL. `req` is the request each thread serves.

* A request goes from read to read, each on a connection of its own: `ReadShare` (`get_share`,
  `is_active`, the check of the credential), `LoadArtifact`, `GetAsset`, then what it is for:
  `Respond`, `InsertLink` or `UpdateRevoked`. `AfterLoad` gives the order of each handler.
  `RefusedUnread` is what is answered before any read: sharing turned off, a bad capability.
* `create_share` looks the artifact up again (`LookUpAgain`) and inserts the link in another
  transaction, which only the foreign key guards (`ForeignKeyHolds`).
* `DeleteArtifact` is any delete of the store; the links go with the row (`ON DELETE CASCADE`), the
  bytes a little later, so that a response may or may not still find them.
* `Restart` may turn sharing on or off and rotate the key. `Moot` says from the outside, without the
  code's operators, when nothing may come of a request any more; each request records whether it was
  moot when it arrived and, if it was refused, when it was refused.

### RestorePowerLoss

Extends `RestoreTransaction` by `disk`, the tree a power loss would leave, and `written`, whether the
manifest's bytes are on the disk. Nothing in `restore_archive.py` is flushed. The filesystem is taken
to journal the entries of its directories in order (`Journal`), so that a power loss takes back the
last of the renames, and to write the bytes of the manifest at any time (`Writeback`). SQLite's
`synchronous=FULL` takes every earlier entry to the disk when the service starts or writes.

`OldIsRecoverable` does not hold here and is not claimed: the renames may survive a manifest that does
not. The rollback then refuses to guess, and a person has to sort out the parts, none of which is lost
(`OldBytesSurvive`) and none of which is mixed with the other generation under a running service
(`NoMixedGenerations`).

### UploadLimits

`stage` says where the handling of the request is, from the middleware's `gate` over the `body`, which
the framework parses before it resolves the route's `dependencies`, and the stages of
`publish_artifact` (`fields`, `content`, `count`, `assets`, `names`, `create`), to the `answer` on its
way back through `watched_send`. `received`, `parsed`, `exceeded` and `started` are the middleware's;
`pulled`, `part` and `remaining` the locals of `read_bounded` and `_collect_assets`. Every request has
counters of its own, so one request is the whole system.

* `Receive(n)` is one message of the body: it is handed on, or `bounded_receive` raises and the
  framework makes a 400 of it, which `Answer` drops and `Returned` replaces by a 413. Under
  `create_share_link`, which reads its form itself, the exception goes straight to the middleware.
* `Chunk` is what one turn of `read_bounded` gets, never more than a byte past the limit; the limit of
  every attached file is what the files before it left (`remaining`).
* A client may declare any length, or none, and may go away (`Disconnect`).

### Library

One SQLite database in WAL mode and one thread and connection per request. A read sees what is
committed. `writer` is the holder of `BEGIN IMMEDIATE`'s lock, which only `toggle_favorite` keeps
across statements; every other write is a single statement that needs the lock for itself. Any
statement may raise, a write that has waited for `busy_timeout` among them (`Raise`): the answer is 500,
and the `finally` of `connect` closes the connection, with which an open transaction and its lock go
(`Close`). `Close` ends every other way out as well, so that the explicit ROLLBACK of
`src/artifact_relay/storage.py:218` makes no difference and is part of `SelectFavorite`. `Crash` drops
what was not committed and answers nobody. `rev`, `odd`, `mine` and `known` are auxiliary: they count PATCHes and toggles and remember topics, and no action of
the code looks at them.

`ListLive` and `RenderIndex` are the library page in its two reads, between which a rename or a PATCH
may fall. `Listing` is what `list_live` returns and `Page` what the page makes of it; `Heading` is the
loop that builds the topics, where a later artifact's name replaces the heading of its topic unless an
alias is known. `Those` picks the elements of a list that lie in a set.

### SchemaMigration

The state is the file: its `objects`, the `columns` of `artifacts` as they are declared and in the order
of `PRAGMA table_info`, its `version`; `stage` and `step` are where the process is, `copy` is the last
backup. `CreateIfNotExists` is one of the `Statements` of `SCHEMA`, `Inspect` and `AddColumn` the loop
over `migrations`, `Stamp` the `PRAGMA user_version`. The process may die between any two of them.

The columns of `artifacts` are written down three times in the code, and so they are here: `Columns` is
the CREATE, `Migrations` the declarations that `init_db` repeats, and `ExpectedColumns` the list that
`restore_archive.py` keeps for itself, in which a column is what `PRAGMA table_info` tells of it
(`Info`). `Validates` is what `_validate_database` asks: the tables, the two indexes, the columns of
`artifacts` in order, and its two CHECKs; it does not look for `topic_aliases`, which a restored file
gets when the service starts. The columns of the two other tables, the details of the indexes and the
foreign keys never change after their CREATE and are left out.

A file is new, or one that an earlier release left at any point of its own way, with the columns declared
as they are now. The old table that `tests/test_library.py:42` builds has no CHECK on `format`: such a
file would be served, and its backups refused (`scripts/restore_archive.py:138`). That releases had the
CHECK is an assumption about them.

### Backup

`rows` is what is committed, `db` what of it is in `artifacts.db` itself. The two differ while a
connection is open (`open`); the last one to close moves the rows over, a process that is killed does
not, and the next start recovers them from the WAL. `Stop` is `docker compose stop`, which kills a
service that is not done in time. An archive of an earlier run may lie at `$DEST`. Every command may
fail, after which `set -e` and the trap decide (`Fails`, `Restart`). `Accepts` is what the restore tool
asks of the members of an archive. `killed` and `cut` are auxiliary: whether the service was given the
time to close its connections, and what was committed when the script had stopped it.

### HeadingAnchors and AssetReferences

A heading's text is the sequence of words that `slugify` makes of it, a word is one unit long, and
a number of two digits is two units; so the cut at 120 characters and the length that `_SAFE_ANCHOR`
allows become `MaxBase` and `MaxAnchor`. `AssignAnchor` is one turn of the loop of `_assign_anchors`,
`Sanitize` what the attribute filter does to ids, `FilterToc` the last lines of `render_markdown`. A
heading written as raw HTML keeps the id its author wrote (`PassRaw`). An author's number of two digits
is a word that no repetition's number equals; where it does in the code (the thirteenth "A" and "A 12"),
the heading ends in a number, and `PlainAnchorsUnique` does not speak of it. Prose that spells out an id
attribute is left out.

A reference is a kind and a path between slashes. `AttributeFilter` is the sanitiser on the two pages
that hold rendered Markdown; the two frames show an HTML document as it was published. `Resolved` is
the browser, `Served` the routes: `view_asset`, `shared_asset`, the frame's two routes and their twins
for a share, with the redirect of an address that has slashes too many, which is the framework's (`Below`). A
document cannot spell its own id or a token, which are drawn after it is written; no segment is
percent-coded. Paths with dots other than a leading `./` are resolved like all others, but
`PagesAgree` does not speak of them: the pages lie at different depths, and a document that climbs out
of its directory means another thing on each.

## What TLC checks

| run | instance | shows |
|---|---|---|
| `store` | `ArtifactStore`: 1 id, 2 workers, clock 0..4, grace and staging age 2, start lag 1, 1 fault; fairness | `RowsHaveBytes`, `SweepSparesLive`, `ImplementsLifecycle`, `ExpiredIsRemoved`, `GarbageIsReclaimed` |
| `restore` | `MCRestore`: names db, artifacts, tmp, wal; 3 faults; fairness | `OldIsRecoverable`, `HealthyIsFinal`, `RollbackIsResumable` |
| `restore_retry` | the same, 1 fault | a violation: see Findings |
| `restore_power` | `RestorePowerLoss`: the same names, 3 faults, power losses among them | `OldBytesSurvive`, `NoMixedGenerations` |
| `login` | `MCLoginGate`: 2 threads, 2 addresses, 1 slot, 1 attempt, a table of 1 key, a window of 1 tick, 2 ticks to a second, clock 0..1; fairness | `TableBounded`, `FailuresBounded`, `WaitCoversWindow`, `OnlyWrongPasswordsCount`, `GateReopens` |
| `login_race` | the same with 2 attempts, a window of 2 ticks, clock 0..3 | a violation: see Findings |
| `share` | `MCShareAccess`: 1 artifact, 2 links, 2 threads, 1 restart, clock 0..1 | `NothingAfterTheEnd`, `RefusedForAReason`, `LinksHaveArtifacts`, `EndIsFinal` |
| `upload` | `MCUploadLimits`: requests around every limit; content, attached files and messages of up to 3 bytes, chunks of 2, 2 files, 2 bytes of envelope and of share form; fairness | `HeldBounded`, `RejectedLeavesNothing`, `VerdictsExact`, `EveryBodyAnsweredOnce` |
| `library` | `MCLibrary`: 2 requests, up to 3 artifacts, 2 topics | `ToggleParity`, `AnswerNotStale`, `AliasNamesKnownTopic`, `PageAgrees`, `AnsweredHoldsNoLock` |
| `schema` | `SchemaMigration`: a new file and every older one, 2 crashes; fairness | `SchemaInv`, `ServedIsRestorable`, `EventuallyServes` |
| `backup` | `Backup`: 2 artifacts; fairness | `ToldIsRestorable`, `CleanStopIsWhole`, `ServiceAsBefore` |
| `rendering` | `MCRendering`: documents of up to 4 headings, references of up to 4 segments | `PlainAnchorsUnique`, `TocMatchesPage`, `FirstTenKeepAnchors`, `EverySpellingServes`, `OwnAssetsOnly`, `PagesAgree` |

What they show, in a sentence each, is in `PROJECT.json`. Every passing run has for each of its
properties a mutant of a definition, and TLC refutes the property for the mutant.

**Bounds.** `MaxTime` ends the clock, `MaxFaults` and `MaxCrashes` the supply of failures and
`MaxRestarts` the restarts; `Cells` only gives window objects names, and `LoginAssumption` makes it
large enough.

* `store`: the clock reaches the grace period twice, so a directory made at the start is an orphan old
  enough to be swept, and a sweep that waits for its thread starts up to `StartLag` late. Two workers
  are a reader beside a deleter, the publish and the sweep come on top. Several ids, which differ only
  in what a sweep knew of them, are covered by the proofs, which hold for every set of ids.
* `restore`: three faults are a failed swap, a failed automatic rollback and a failed rollback of the
  trap, or a failed restart, a kill in the rollback and a kill in its retry. `restore_power` has the
  same three, any of which may be a power loss.
* `login`: a table of one key makes two addresses evict each other; one attempt and a window of one
  tick are enough for a window to be full, to be over, and to be held by one thread after the other
  has removed it. Half a tick is what Retry-After rounds. The proofs have no bound on threads,
  addresses, slots or time.
* `share`: a link, an artifact and a credential each end within the clock. Two requests are a visitor
  beside the viewer, or two of either; two links to one artifact are what a credential could be
  mistaken for. The constraint `Modest` explores two requests at once, two links, or a restart, one of
  these at a time; their combinations are covered by the proof of the same four properties.
* `upload`: the requests are every combination of the sizes one below, at and above each limit, of
  the fields' boundaries, of names that are safe, repeated or not safe, and of declared lengths that
  are right, too small, too large or absent, cut into messages of every size.
* `library`: two requests are the smallest number that can interleave; three artifacts in two topics
  are a topic with two artifacts beside one with another. A PATCH that moves an artifact, an expiry and
  a deletion fall between any two steps.
* `schema`: a file may already stop anywhere; two crashes are one in a migration and one in its repeat.
* `rendering`: four headings are a repetition of a repetition beside two others; the texts lie around
  the cut at two words, the longest id of three units, and `Ten` at two so that the second repetition
  is already the one that is too long. Four segments are `./assets/x` with one to spare. The two
  artifacts own a file of the same name, and one file is called `assets`.

The browser keeps the last cookie of a name (`Replaced` in `ShareAccess`): an older one opens nothing
more. Ids are never drawn again, the clock stops and faults run out, so the store and a restore come
to rest: deadlock is not checked in `store`, `restore`, `restore_retry` and `restore_power`. It is
checked everywhere else; where a request, a script or a start-up ends, the end is a step that changes
nothing.

**Fairness.** `store` assumes that time passes, that a stopped container is restarted
(`restart: unless-stopped` in `docker-compose.yml`), and that the event loop, the janitor's thread and
requests that have begun go on. No publish, read or delete has to happen; an artifact that nobody
deletes is removed by the janitor alone. `restore` assumes that the tool and the script go on and that
an operator acts on a pending recovery tree. In `login` only an admitted attempt has to go on: its
thread is scheduled and an Argon2 check ends. In `upload` the event loop runs what is ready, and
nothing makes a client send. In `schema` the container restarts until the service runs. In `backup` each
command of the script returns. `share`, `library`, `rendering` and `restore_power` assume nothing.

## What is proved

For all constants that satisfy `StoreAssumption`, `RestoreAssumption`, `LoginAssumption`,
`ShareAssumption`, `UploadAssumption`, `LibraryAssumption`, `MigrationAssumption`,
`BackupAssumption`, `AnchorsAssumption` and `ReferencesAssumption`; nothing else is assumed. Every
safety invariant and every action property that a passing run checks is stated by a theorem, and so
are the type invariants and the inductive invariants behind them. Liveness is left to TLC.

* `StoreInvariant`: `Spec => []StoreInv`. `RowsHaveBytes` alone is not inductive: that a sweep does
  not take a directory rests on what the sweep knew when it started. `StoreInv` adds that rows rest on
  flushed entries (`RowsAreDurable`), that the directory of the publish in flight is where the next
  step expects it (`PublishIsUndisturbed`), that, seen from the sweep's `wall`, the directory of the
  publish in flight and of every row newer than `known` is too young (`SweepSeesThemYoung`), and that
  whatever the sweep is about to remove has no row and no publish (`SweepTakesOnlyDead`).
  From it follow `StoreTypeOK`, `StoreRowsHaveBytes`, `StoreReadersGetLive`, `StoreSweepSparesLive`.
* What the proof needs of time is less than one might think: **not** that a publish is shorter than
  the grace period, because a sweep cannot be submitted while one runs, but only that a submitted
  sweep gets its thread within the grace period (`StartLag < Grace`, `StartLag < StagingMax`) and that
  the wall clock does not jump. Code that moved `create` to a thread would lose that argument.
* `StoreImplementsLifecycle`: `Spec => ImplementsLifecycle`, step by step from the same invariant.
* `RestoreInvariant`: `Spec => []RestoreInv`. Without a complete manifest nothing was moved and the
  tree is whole (`UnmovedIsWhole`); with one, every part of the old generation is on exactly one side
  (`MovedIsKept`), as far as `SwapGoesOn` says; the service is up only on a whole tree
  (`ServedIsWhole`). `RestoreTypeOK`, `RestoreNoMixedGenerations`, `RestoreOldIsRecoverable` and
  `RestoreHealthyIsFinal` follow.
* `PowerInvariant`: `PowerSpec => []PowerInv`. On a machine that may lose power `RestoreInv` holds or a
  manifest is torn over moved parts, from where neither the script nor its rollback goes on (`TornInv`);
  the tree a power loss would leave is one the transaction has had (`TreeOK`), and it is the tree the service works on while it is
  up (`DiskFollows`). `PowerOldBytesSurvive` and `PowerNoMixedGenerations` follow.
* `LoginInvariant`: `Spec => []LoginInv`, from which `LoginGateAccounted` and `LoginFailuresBounded`
  follow. `LoginWaitCoversWindow` follows with `WaitOK`: a window that is about to be judged has not
  expired, and nobody moves its start.
  A bound on a window's count is not inductive; what is, is the count plus the number of
  threads that are still loose for that window (`RoomForLoose`): let in, or about to decide on another
  window. That needs every window to be in the hands of one address only (`OneOwner`).
* `LoginTableInvariant`: `Spec => []TableInv`. The table's size is the size of its order, in which no
  key occurs twice (`OrderFits`), however `move_to_end`, `del` and `popitem` of different threads mix.
  `LoginTableBounded` follows, and from `BookingIsWrong` that only a wrong password adds to a count
  (`LoginOnlyWrongPasswordsCount`, an action property).
* `ShareInvariant`: `Spec => []ShareInv`. The idea is in `Caught`: a request that was moot when it
  arrived, and is not answered yet, has the read that will find out still ahead of it. It rests on the
  fact that what has ended stays ended (`WorldMoves` in the proofs; a restart, which changes the key,
  takes the requests with it). `ShareNothingAfterTheEnd`, `ShareRefusedForAReason`,
  `ShareRevocationIsDone`, `ShareLinksHaveArtifacts`, `ShareEndIsFinal` and `ShareTypeOK` follow.
* `UploadInvariant`: `Spec => []UploadInv`. The bounds on what is held are not inductive by
  themselves: a read is one byte past its limit only if it is the last, which `BudgetOK` says stage by
  stage; the reads start only on a body that arrived whole (`CountersOK`), and an answer is due exactly
  where none was sent (`RepliesOK`). `UploadTypeOK`, `PeakIsBounded`, `ParsedIsBounded`,
  `HeldIsBounded`, `AnsweredOnce` and `RejectionLeavesNothing` follow, for every request, limit,
  message and chunk.
* `AnswersAreExact`: `Spec => []VerdictsExact`. The loops over the attached files end with the sum of
  what they read: `BytesUpTo` is that sum as a recursive function, and as it grows with every file, the
  first file that does not fit in what is left is there exactly when the sum is too large. The first
  attempt failed at a request without an expiry: `default_ttl_days` is never compared with
  `max_ttl_days` (`src/artifact_relay/config.py:46`), so that with a default above the maximum every
  publish that leaves its expiry out is refused with 422. `WellFormed` says so now.
* `LibraryInvariant`: `Spec => []LibraryInv`. That no toggle is lost rests on `OneWriter`: between the
  SELECT and the COMMIT nobody else writes, so what was read is still there. `RevisionsGrow` is why the
  answer to a PATCH is never older than the PATCH, `LiveTopicsKnown` why a topic may be named although
  the look and the upsert are two transactions. `LibraryTypeOK`, `TogglesAreCounted`,
  `PatchAnswersItself`, `NamesAreOfTopics` and `AnsweredLetGo` follow, the last for every statement at
  which a request may fail.
* `PagesInvariant` and `PagesAgreeWithThemselves`: what the first read of the page brings is in its
  order, and whatever happens before the second, the page made of it agrees with itself. The lemmas
  about `Those` say that it keeps the elements it is asked for, their number and their order.
* `BackupInvariant`: `Spec => []BackupInv`. `DataFit` relates the file, the WAL and the tree while the
  service runs, `ArchiveFits` says of every step of the script what the archive holds then and that
  nothing moves under it. `BackupTypeOK`, `BackupToldIsRestorable`, `BackupCleanStopIsWhole` and
  `BackupStoppedStaysStopped` follow.
* `StartUpInvariant`: `SchemaSpec => []StartUpInv`. A file has the first columns of the list, in its
  order (`FileFits`), and what the loop looked at before its first `ALTER TABLE` is the list up to some
  column (`ProcessFits`): so the next migration is either seen there or exactly the next column.
  `StampedSchemaIsComplete` follows, for any number of crashes. `ServedDatabasesAreRestorable` needs
  `ListsAgree` besides: the list of the restore tool is, column by column, what `PRAGMA table_info` tells
  of the CREATE in `db.py`.
* `AnchorsInvariant`: `Spec => []AnchorsInv`. `Counted` says that headings of one base were given
  different numbers, all below the count; so two anchors can only be equal if a base itself ends in a
  number. `SafeAreKept` says that the sanitiser takes an anchor for its length only, for which
  `MaxBase < MaxAnchor` leaves room up to the tenth repetition. `AnchorsTypeOK`,
  `PlainHeadingsAreDistinct` and `FirstTenHeadingsKeepAnchors` follow, for every document and cut.
* `TocIsThePage`: `Spec => []TocMatchesPage`. Until the filter runs, the entries are the headings
  passed so far, in their order (`TocSoFar`); `Surviving` drops what is not on the page and nothing else.
* `ReferencesInvariant`: `RefSpec => []RefInv`, each stage has what the one before made.
  `ReferencesStayInside` follows because no path that begins in a share or a frame can come to an
  address of another artifact, with however many dots: the routes compare what a document cannot spell.
  `PagesServeAlike` and `EverySpellingIsServed` compute the address a reference without dots comes to on
  each page (`Undotted` leaves such a path as it is) and look at the routes one by one.

**How loops and sums are proved.** No installed prover can instantiate an induction theorem with a
property, and none is needed. A loop over a sequence is a recursive function on `0..n`
(`BytesUpTo`, `Those`, `Surviving`, `Undotted`). That it has the value its definition says, and what that
value is, is shown for the *set* of numbers up to which it holds: were a number missing, there would be
a least one (`WFMin` with `NatLessThanWellFounded`), and the definition gives the step to it from the
one below.

Only model-checked: the liveness properties (`ExpiredIsRemoved`, `GarbageIsReclaimed`,
`RollbackIsResumable`, `GateReopens`, `EventuallyServes`) and the halves of
`ServiceAsBefore` and `EveryBodyAnsweredOnce` that say something happens; fairness and ENABLED are
beyond the prover. The halves that say something never happens are `BackupStoppedStaysStopped` and
`AnsweredOnce`.

## Findings

* `restore_retry`: `apply` writes the manifest with `write_text`, which creates the file before it
  fills it. If the write fails (on a full disk), the recovery tree stays with a torn manifest although
  the swap never began; the trap's rollback refuses it, the service stays down with its data untouched,
  and the next restore is refused too. `scripts/restore.sh:44` and `scripts/restore_archive.py:216`
  say otherwise. A tool that is killed before the swap leaves a recovery tree that blocks in the same
  way; the property does not speak of it.

* `login_race`: `_current` gets a window and then moves or deletes its key. If another attempt of the
  same address has removed the window in between (`reset` after a right password, or the same window
  found expired), the call raises `KeyError` and the login answers 500. `retry_after` is documented to
  return a number (`src/artifact_relay/ratelimit.py:50`). The failures that are lost when two threads
  insert a window at once are no finding: nothing in the repository promises an exact count, and
  `FailuresBounded` says what does hold.

Four more places where the code does something else than a comment, a document or a test says were
seen while modelling. They are modelled as the code has them; no run is spent on them:

* `src/artifact_relay/dependencies.py:97` says that `require_api_token` runs before the body is
  parsed. The framework parses the form first, as `src/artifact_relay/middleware.py:73` says; what
  protects the server is the ceiling of the middleware (`ParsedBounded`).
* `src/artifact_relay/storage.py:350`: a topic name of white space only passes the form's check and
  raises `ValueError`, so that the answer is a 500 (`UpsertAlias`).
* `scripts/backup.sh:21` promises a point-in-time copy. A service that is killed by
  `docker compose stop` with a connection open leaves committed rows in the WAL, which `:30` does not
  pack; `CleanStopIsWhole` says what holds otherwise.
* `tests/test_markdown_page.py:76` asks duplicate headings to get distinct anchors. The headings "A",
  "A" and "A 1" do not (`src/artifact_relay/rendering.py:306`); `PlainAnchorsUnique` says what holds
  otherwise.

## What is not modelled

Parts of the modelled components that are left out:

* the check for a viewer's session, which answers 403 before any read (the viewer's requests here are
  those that carry one); the session cookie itself, which is signed like the credentials of
  `ShareAccess` and stored nowhere; how a client's address is found;
* `download_source`, which makes the reads of `view_artifact` and hands nothing out; the shell that a
  visitor without a session gets, and its card; the viewer's list of links;
* ids that no link ever had, which are answered like those of links that are gone;
* in `validate` of the restore tool: the columns of `assets` and `share_links`, the details of indexes
  and foreign keys and the safety of member names, which decide only whether an archive is refused;
* wall clocks that jump: the janitor compares the wall clock with modification times and has no
  defence against a jump forward during a publish (`src/artifact_relay/janitor.py:60`).

Left out for good: templates, styles, content-security policies, preview cards and logging
(formatting, no state); configuration, which is read once at start and appears as the constants of
the modules (`DefaultDays` and `MaxDays` are any numbers, as `default_ttl_days` and `max_ttl_days` are
not compared); Markdown, sanitising and highlighting as such (library
calls); the publisher, bootstrap and smoke scripts (straight-line I/O around curl and docker).

Steps from here: abstract specifications of a share and of a restore, shown to be implemented as that of
the store is, and `ShareAccess` taking its deletions from `ArtifactStore`, whose deletes it now repeats
as one step.
