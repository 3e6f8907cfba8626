------------------------------- MODULE Backup -------------------------------
(***************************************************************************)
(* scripts/backup.sh beside a service that is writing: the script stops    *)
(* the service, packs artifacts.db and artifacts/ into one archive, and    *)
(* its EXIT trap starts what was running.  Committed rows may still be in  *)
(* artifacts.db-wal: the last connection to close moves them into the      *)
(* file, a process that is killed does not.  Accepts is what               *)
(* restore_archive.py asks of the finished archive; the schema it also     *)
(* looks at is in SchemaMigration, the restore itself in                   *)
(* RestoreTransaction.                                                     *)
(***************************************************************************)
EXTENDS Naturals, Sequences

CONSTANTS Ids, NoArchive

ArchiveType ==
  [members: Seq([name: {"artifacts.db", "artifacts"}, content: SUBSET Ids]), closed: BOOLEAN]
CutType == [rows: SUBSET Ids, killed: BOOLEAN]

ASSUME BackupAssumption ==
  (\A S \in SUBSET Ids : S # NoArchive) /\ NoArchive \notin ArchiveType /\ NoArchive \notin CutType

VARIABLES
  app,       \* "up", "dying" (docker will restart it) or "stopped"
  rows,      \* the artifacts whose row is committed
  db,        \* those whose row is in artifacts.db itself, NoArchive if there is no file
  tree,      \* the directories under artifacts/
  open,      \* a connection is open, so that the WAL is not yet in the file
  at,        \* the script's next step
  ran,       \* the script's $running
  archive,   \* what lies at $DEST: its members in order, and whether it was closed
  told,      \* "Backup written to ..." was printed
  upFailed,  \* docker compose up in the trap failed
  \* Auxiliary.
  killed,    \* the service was not given the time to close a connection
  cut        \* the committed rows, and `killed`, when the script had stopped it

vars == <<app, rows, db, tree, open, at, ran, archive, told, upFailed, cut, killed>>
service == <<app, rows, db, tree, open>>
script == <<at, ran, archive, told, upFailed, cut>>

Member(name, content) == [name |-> name, content |-> content]

\* An archive of an earlier run at the same $DEST.
Old == [members |-> <<Member("artifacts.db", {}), Member("artifacts", {})>>, closed |-> TRUE]

Init ==
  /\ app \in {"up", "stopped"}
  /\ rows = {} /\ tree = {} /\ open = FALSE
  /\ db \in IF app = "up" THEN {{}} ELSE {{}, NoArchive}
  /\ at = "ps" /\ ran = FALSE /\ archive \in {NoArchive, Old}
  /\ told = FALSE /\ upFailed = FALSE /\ cut = NoArchive /\ killed = FALSE

-----------------------------------------------------------------------------
(* The service, as ArtifactStore has it: a directory comes before its row,  *)
(* and goes after it.                                                        *)
Serves == app = "up" /\ UNCHANGED <<app, script, killed>>

Replace(a) == Serves /\ a \notin tree /\ tree' = tree \union {a} /\ UNCHANGED <<rows, db, open>>
InsertRow(a) ==
  Serves /\ a \in tree \ rows /\ rows' = rows \union {a} /\ open' = TRUE /\ UNCHANGED <<db, tree>>
DeleteRow(a) ==
  Serves /\ a \in rows /\ rows' = rows \ {a} /\ open' = TRUE /\ UNCHANGED <<db, tree>>
Rmtree(a) == Serves /\ a \in tree \ rows /\ tree' = tree \ {a} /\ UNCHANGED <<rows, db, open>>

(* connect's conn.close(), the last one: SQLite checkpoints and drops the WAL. *)
Close == Serves /\ open /\ open' = FALSE /\ db' = rows /\ UNCHANGED <<rows, tree>>

(* The container dies and docker brings it back; start-up opens and closes the *)
(* database, which recovers what the WAL holds.                                *)
Die ==
  /\ app = "up" /\ app' = "dying" /\ open' = FALSE
  /\ killed' = (killed \/ open)
  /\ UNCHANGED <<rows, db, tree, script>>
Up ==
  IF app = "up" THEN UNCHANGED <<app, db, open, killed>>
  ELSE app' = "up" /\ db' = rows /\ open' = FALSE /\ killed' = FALSE
Revive == app = "dying" /\ Up /\ UNCHANGED <<rows, tree, script>>

-----------------------------------------------------------------------------
Then(next) == at' = next /\ UNCHANGED <<ran, archive, told, upFailed, cut>>

(* docker compose ps: before it the trap is not set. *)
Ps ==
  /\ at = "ps"
  /\ \/ at' = "stop" /\ ran' = (app = "up")
     \/ at' = "exit" /\ ran' = FALSE
  /\ UNCHANGED <<service, killed, archive, told, upFailed, cut>>

\* Mutant: a step that fails ends the script, and only the end of it starts the service.
FailsForGood ==
  /\ at \in {"stop", "rm", "run", "database", "tree"}
  /\ Then("exit")
  /\ UNCHANGED <<service, killed>>
(* set -e: whatever fails, the trap is next. *)
Fails ==
  /\ at \in {"stop", "rm", "run", "database", "tree"}
  /\ Then("trap")
  /\ UNCHANGED <<service, killed>>

\* Mutant: the service is left running.
StopNothing ==
  /\ at = "stop"
  /\ at' = "rm" /\ cut' = [rows |-> rows, killed |-> killed]
  /\ UNCHANGED <<service, killed, ran, archive, told, upFailed>>
(* docker compose stop: SIGTERM, and SIGKILL for one that is not done in time. *)
Stop ==
  /\ at = "stop"
  /\ app' = "stopped" /\ open' = FALSE /\ at' = "rm"
  /\ \/ db' = (IF app = "up" THEN rows ELSE db) /\ UNCHANGED killed
     \/ killed' = (killed \/ open) /\ UNCHANGED db
  /\ cut' = [rows |-> rows, killed |-> killed']
  /\ UNCHANGED <<rows, tree, ran, archive, told, upFailed>>

RmOld ==
  /\ at = "rm"
  /\ at' = "run" /\ archive' = NoArchive
  /\ UNCHANGED <<service, killed, ran, told, upFailed, cut>>

(* The container that packs: tarfile.open, then each of the two that exists. *)
OpenTar ==
  /\ at = "run"
  /\ at' = "database" /\ archive' = [members |-> <<>>, closed |-> FALSE]
  /\ UNCHANGED <<service, killed, ran, told, upFailed, cut>>

PackDatabase ==
  /\ at = "database"
  /\ at' = "tree"
  /\ archive' = IF db = NoArchive THEN archive
                ELSE [archive EXCEPT !.members = Append(@, Member("artifacts.db", db))]
  /\ UNCHANGED <<service, killed, ran, told, upFailed, cut>>

PackTree ==
  /\ at = "tree"
  /\ at' = "tell"
  /\ archive' = [members |-> Append(archive.members, Member("artifacts", tree)), closed |-> TRUE]
  /\ UNCHANGED <<service, killed, ran, told, upFailed, cut>>

\* Mutant: no set -e; the message comes whether the packing worked or not.
TellAnyway ==
  /\ at \in {"database", "tree", "tell"}
  /\ at' = "trap" /\ told' = TRUE
  /\ UNCHANGED <<service, killed, ran, archive, upFailed, cut>>
Tell ==
  /\ at = "tell"
  /\ at' = "trap" /\ told' = TRUE
  /\ UNCHANGED <<service, killed, ran, archive, upFailed, cut>>

(* restart, the EXIT trap. *)
Restart ==
  /\ at = "trap" /\ at' = "exit"
  /\ IF ~ran THEN UNCHANGED <<app, db, open, killed, upFailed>>
     ELSE \/ Up /\ UNCHANGED upFailed
          \/ upFailed' = TRUE /\ UNCHANGED <<app, db, open, killed>>
  /\ UNCHANGED <<rows, tree, ran, archive, told, cut>>

Script == Ps \/ Fails \/ Stop \/ RmOld \/ OpenTar \/ PackDatabase \/ PackTree \/ Tell \/ Restart
Service ==
  \/ \E a \in Ids : Replace(a) \/ InsertRow(a) \/ DeleteRow(a) \/ Rmtree(a)
  \/ Close \/ Die \/ Revive
Finished == at = "exit" /\ UNCHANGED vars
Next == Script \/ (at # "exit" /\ Service) \/ Finished

(* Each command of the script returns. *)
Spec == Init /\ [][Next]_vars /\ WF_vars(Script)

-----------------------------------------------------------------------------
Named(name) == {i \in DOMAIN archive.members : archive.members[i].name = name}

(* _members and validate: the archive can be read to its end, holds exactly *)
(* one artifacts.db, and nothing but that and artifacts.                     *)
Accepts ==
  /\ archive # NoArchive /\ archive.closed
  /\ \E i \in DOMAIN archive.members : Named("artifacts.db") = {i}
  /\ Named("artifacts.db") \union Named("artifacts") = DOMAIN archive.members

Packed(name) == archive.members[CHOOSE i \in Named(name) : TRUE].content

(* Every variable keeps its type, and an archive is given each of its two    *)
(* members at most once.                                                     *)
TypeOK ==
  /\ archive # NoArchive =>
       /\ archive \in ArchiveType
       /\ \A i \in DOMAIN archive.members : Named(archive.members[i].name) = {i}
  /\ app \in {"up", "dying", "stopped"} /\ rows \subseteq Ids /\ tree \subseteq Ids
  /\ db \in (SUBSET Ids) \union {NoArchive} /\ cut \in CutType \union {NoArchive}
  /\ open \in BOOLEAN /\ ran \in BOOLEAN /\ told \in BOOLEAN
  /\ upFailed \in BOOLEAN /\ killed \in BOOLEAN
  /\ at \in {"ps", "stop", "rm", "run", "database", "tree", "tell", "trap", "exit"}

(* backup.sh:37 prints its message only over an archive that the restore     *)
(* tool takes, unless the service has never made a database.                 *)
ToldIsRestorable == told /\ db # NoArchive => Accepts

(* A service that closed its connections is copied as it was when it         *)
(* stopped: every committed row, and for every row its directory             *)
(* (backup.sh:21-34).                                                        *)
CleanStopIsWhole ==
  told /\ db # NoArchive /\ ~cut.killed =>
    Packed("artifacts.db") = cut.rows /\ cut.rows \subseteq Packed("artifacts")

(* What was stopped before a backup is not started by it (backup.sh:13-19).  *)
StoppedStaysStopped == at = "exit" /\ cut # NoArchive /\ ~ran => app = "stopped"

(* The service is afterwards as it was before (backup.sh:13-19): one that was *)
(* not running is not started, and whatever step fails, one that was running *)
(* is started again, or docker itself says that it cannot.                   *)
ServiceAsBefore ==
  /\ []StoppedStaysStopped
  /\ (at = "stop" /\ ran) ~> (at = "exit" /\ (app = "up" \/ upFailed))

-----------------------------------------------------------------------------
(* The inductive invariant: what the file and the tree hold while the service *)
(* runs, and what has become of them in the archive step by step.             *)
DataFit ==
  /\ rows \subseteq tree
  /\ db = NoArchive => rows = {} /\ app = "stopped" /\ ~ran
  /\ ~open /\ ~killed /\ db # NoArchive => db = rows
  /\ app = "up" => ~killed
  /\ open => app = "up"

DatabaseMember(content) ==
  IF content = NoArchive THEN <<>> ELSE <<Member("artifacts.db", content)>>
Whole(content) ==
  [members |-> Append(DatabaseMember(content), Member("artifacts", tree)), closed |-> TRUE]

ArchiveFits ==
  /\ at \in {"ps", "stop"} => ~told /\ cut = NoArchive
  /\ at \in {"rm", "run", "database", "tree", "tell"} =>
       app = "stopped" /\ ~told /\ cut = [rows |-> rows, killed |-> killed]
  /\ at = "database" => archive = [members |-> <<>>, closed |-> FALSE]
  /\ at = "tree" => archive = [members |-> DatabaseMember(db), closed |-> FALSE]
  /\ at = "tell" => archive = Whole(db)
  /\ at = "trap" /\ cut # NoArchive => app = "stopped"
  /\ told => at \in {"trap", "exit"} /\ cut \in CutType /\ cut.rows \subseteq tree
  /\ told /\ db # NoArchive =>
       \E content \in SUBSET Ids : archive = Whole(content) /\ (~cut.killed => content = cut.rows)

BackupInv == TypeOK /\ DataFit /\ ArchiveFits /\ StoppedStaysStopped

=============================================================================
