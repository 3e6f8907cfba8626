--------------------------- MODULE SchemaMigration ---------------------------
(***************************************************************************)
(* The database's schema: what init_db (db.py) does to a new file or to    *)
(* one an earlier release left, one autocommitted statement at a time, and *)
(* what the restore tool asks of the database in a backup before it trusts *)
(* it (restore_archive.py).  The process may die between two statements.   *)
(***************************************************************************)
EXTENDS Integers, Sequences, Functions

CONSTANTS
  MaxCrashes,   \* bound: how often the process dies or is stopped
  NoCopy

ASSUME MigrationAssumption == MaxCrashes \in Nat

\* What SCHEMA creates, in its order; each CREATE says IF NOT EXISTS.
Statements == <<"artifacts", "idx_artifacts_expires_at", "assets", "share_links",
                "idx_share_links_artifact", "topic_aliases">>
Objects == Range(Statements)

\* A column as it is declared: TEXT, the key, NOT NULL, a number, and the two with a CHECK
\* (favorite's DEFAULT 0, without which no table with rows could get it, is left out).
Text(name) == [name |-> name, type |-> "TEXT", notnull |-> 0, pk |-> 0, check |-> ""]
Key(name) == [Text(name) EXCEPT !.pk = 1]
Required(name) == [Text(name) EXCEPT !.notnull = 1]
Number(name) == [Required(name) EXCEPT !.type = "INTEGER"]
Format == [Required("format") EXCEPT !.check = "format IN ('markdown', 'html')"]
Flag == [Number("favorite") EXCEPT !.check = "favorite IN (0, 1)"]

\* The columns of artifacts that CREATE TABLE lists; the first release had the first eight.
Columns ==
  <<Key("id"), Required("title"), Text("summary"), Format, Required("source_filename"),
    Number("content_bytes"), Required("created_at"), Text("expires_at"),
    Text("session_id"), Text("session_title"), Text("platform"), Text("chat_name"),
    Text("topic_id"), Text("topic_name"), Flag>>
FirstRelease == 8

\* init_db's `migrations`, which repeats seven of the declarations.
Migrations ==
  <<Text("session_id"), Text("session_title"), Text("platform"), Text("chat_name"),
    Text("topic_id"), Text("topic_name"), Flag>>

NamesIn(cols) == {column.name : column \in Range(cols)}

SchemaVersion == 2

VARIABLES
  objects,   \* the tables and indexes the file holds
  columns,   \* the columns of artifacts as declared, in the order of PRAGMA table_info
  version,   \* PRAGMA user_version
  stage,     \* where the process is; "failed": a statement raised
  step,      \* which statement of the script, or of the loop, is next
  present,   \* init_db's `columns`: the names it found
  crashes,
  copy       \* the last backup: the file as it was, and whether the service had run on it

schemaVars == <<objects, columns, version, stage, step, present, crashes, copy>>
file == <<objects, columns, version>>

\* A new file, or one of an earlier release that was stopped anywhere on its own way.
SchemaInit ==
  /\ \/ objects = {} /\ columns = <<>> /\ version = 0
     \/ /\ objects \in {o \in SUBSET Objects : "artifacts" \in o}
        /\ columns \in {SubSeq(Columns, 1, n) : n \in FirstRelease..Len(Columns)}
        /\ version \in {0, 1}
  /\ stage = "down" /\ step = 1 /\ present = {} /\ crashes = 0
  /\ copy = NoCopy

Start ==
  /\ stage = "down"
  /\ stage' = "script" /\ step' = 1
  /\ UNCHANGED <<file, present, crashes, copy>>

\* Mutant: the version is written with the tables, before the columns are there.
CreateAndStamp ==
  LET object == Statements[step] IN
  /\ stage = "script"
  /\ objects' = objects \union {object}
  /\ columns' = IF object = "artifacts" /\ object \notin objects THEN Columns ELSE columns
  /\ version' = IF step = Len(Statements) THEN SchemaVersion ELSE version
  /\ IF step = Len(Statements) THEN stage' = "inspect" /\ step' = 1
     ELSE UNCHANGED stage /\ step' = step + 1
  /\ UNCHANGED <<present, crashes, copy>>

(* conn.executescript(SCHEMA), one statement of it. *)
CreateIfNotExists ==
  LET object == Statements[step] IN
  /\ stage = "script"
  /\ objects' = objects \union {object}
  /\ columns' = IF object = "artifacts" /\ object \notin objects THEN Columns ELSE columns
  /\ IF step = Len(Statements) THEN stage' = "inspect" /\ step' = 1
     ELSE UNCHANGED stage /\ step' = step + 1
  /\ UNCHANGED <<version, present, crashes, copy>>

(* The names in PRAGMA table_info(artifacts), read once. *)
Inspect ==
  /\ stage = "inspect"
  /\ present' = NamesIn(columns)
  /\ stage' = "alter"
  /\ UNCHANGED <<file, step, crashes, copy>>

\* Mutant: every column is added, whether it is there or not.
AddAnyColumn ==
  /\ stage = "alter"
  /\ columns' = Append(columns, Migrations[step])
  /\ step' = step + 1
  /\ stage' = IF Migrations[step].name \in NamesIn(columns) THEN "failed"
             ELSE IF step = Len(Migrations) THEN "stamp" ELSE "alter"
  /\ UNCHANGED <<objects, version, present, crashes, copy>>

(* One turn of the loop over migrations: ALTER TABLE refuses a column that exists. *)
AddColumn ==
  LET column == Migrations[step]
      after == IF step = Len(Migrations) THEN "stamp" ELSE "alter"
  IN
  /\ stage = "alter"
  /\ IF column.name \in present THEN stage' = after /\ UNCHANGED columns
     ELSE IF column.name \in NamesIn(columns) THEN stage' = "failed" /\ UNCHANGED columns
     ELSE stage' = after /\ columns' = Append(columns, column)
  /\ step' = step + 1
  /\ UNCHANGED <<objects, version, present, crashes, copy>>

Stamp ==
  /\ stage = "stamp"
  /\ version' = SchemaVersion /\ stage' = "serving"
  /\ UNCHANGED <<objects, columns, step, present, crashes, copy>>

(* The process dies, or the service is stopped. *)
Crash ==
  /\ stage # "down" /\ crashes < MaxCrashes
  /\ stage' = "down" /\ crashes' = crashes + 1
  /\ UNCHANGED <<file, step, present, copy>>

-----------------------------------------------------------------------------
\* What PRAGMA table_info tells of a table's columns, as far as the tool reads it.
Info(column) == <<column.name, column.type, column.notnull, column.pk>>
TableInfo(cols) == [i \in DOMAIN cols |-> Info(cols[i])]

\* Mutant: a column of db.py was not added to the list of the restore tool.
ExpectedForgets == SubSeq(TableInfo(Columns), 1, 14)
\* EXPECTED_COLUMNS["artifacts"]: the tool's own list, compared in order.
ExpectedColumns ==
  <<<<"id", "TEXT", 0, 1>>, <<"title", "TEXT", 1, 0>>, <<"summary", "TEXT", 0, 0>>,
    <<"format", "TEXT", 1, 0>>, <<"source_filename", "TEXT", 1, 0>>,
    <<"content_bytes", "INTEGER", 1, 0>>, <<"created_at", "TEXT", 1, 0>>,
    <<"expires_at", "TEXT", 0, 0>>, <<"session_id", "TEXT", 0, 0>>,
    <<"session_title", "TEXT", 0, 0>>, <<"platform", "TEXT", 0, 0>>,
    <<"chat_name", "TEXT", 0, 0>>, <<"topic_id", "TEXT", 0, 0>>,
    <<"topic_name", "TEXT", 0, 0>>, <<"favorite", "INTEGER", 1, 0>>>>

(* _validate_database, for a file SQLite itself finds intact.  topic_aliases *)
(* is not looked for; what the two other tables and the indexes consist of   *)
(* never changes after their CREATE, and is left out.                        *)
Validates(image) ==
  /\ image.version = SchemaVersion
  /\ {"artifacts", "assets", "share_links"} \subseteq image.objects
  /\ {"idx_artifacts_expires_at", "idx_share_links_artifact"} \subseteq image.objects
  /\ TableInfo(image.columns) = ExpectedColumns
  /\ {"format IN ('markdown', 'html')", "favorite IN (0, 1)"}
       \subseteq {column.check : column \in Range(image.columns)}

(* backup.sh, while the service is down; the file may be in any state then. *)
Backup ==
  /\ stage = "down" /\ objects # {}
  /\ copy' = [objects |-> objects, columns |-> columns, version |-> version]
  /\ UNCHANGED <<file, stage, step, present, crashes>>

(* restore_archive.py apply: an archive that does not validate changes nothing. *)
Restore ==
  /\ stage = "down" /\ copy # NoCopy /\ Validates(copy)
  /\ objects' = copy.objects /\ columns' = copy.columns /\ version' = copy.version
  /\ UNCHANGED <<stage, step, present, crashes, copy>>

InitDb == Start \/ CreateIfNotExists \/ Inspect \/ AddColumn \/ Stamp
Stay == stage \in {"serving", "failed"} /\ UNCHANGED schemaVars
SchemaNext == InitDb \/ Crash \/ Backup \/ Restore \/ Stay

(* The container restarts until the service runs, and start-up does not stall. *)
SchemaSpec == SchemaInit /\ [][SchemaNext]_schemaVars /\ WF_schemaVars(InitDb)

-----------------------------------------------------------------------------
(* Every variable keeps its type. *)
SchemaTypeOK ==
  /\ objects \subseteq Objects /\ columns \in Seq(Range(Columns)) /\ version \in 0..SchemaVersion
  /\ stage \in {"down", "script", "inspect", "alter", "stamp", "serving", "failed"}
  /\ step \in 1..(Len(Migrations) + 1) /\ present \subseteq NamesIn(Columns)
  /\ crashes \in 0..MaxCrashes

(* init_db (db.py:66-83) stops between two statements and starts again: a    *)
(* file that says it is at SCHEMA_VERSION has every table and index, and the *)
(* columns declared as SCHEMA declares them, in its order, though seven of   *)
(* an old file's come from `migrations`.                                     *)
StampedIsComplete ==
  /\ stage = "serving" => version = SchemaVersion
  /\ version = SchemaVersion => objects = Objects /\ columns = Columns

(* No ALTER TABLE adds a column that is there (db.py:70-82): start-up never  *)
(* fails on its own half-finished work.                                      *)
NoDuplicateColumn ==
  /\ stage # "failed"
  /\ \A i, j \in DOMAIN columns : columns[i].name = columns[j].name => i = j

(* What holds between any two statements. *)
SchemaInv == SchemaTypeOK /\ StampedIsComplete /\ NoDuplicateColumn

(* Every database the service has run on can be backed up and restored       *)
(* (restore_archive.py:82-142): the list the restore tool keeps for itself   *)
(* says what init_db makes of a new file and of an old one alike.            *)
ServedIsRestorable ==
  /\ stage = "serving" => Validates([objects |-> objects, columns |-> columns, version |-> version])
  /\ copy # NoCopy /\ copy.version = SchemaVersion => Validates(copy)

(* However often it dies on the way, the service comes up. *)
EventuallyServes == <>(stage = "serving")

-----------------------------------------------------------------------------
(* The inductive invariant.  A file, the service's own or the last backup's,  *)
(* has the first n columns of the list, in its order, for some n; and as long *)
(* as init_db is adding columns, what it saw before the first is the list up  *)
(* to some m.                                                                 *)
FileFits(o, c, v) ==
  /\ o \subseteq Objects /\ v \in 0..SchemaVersion /\ c \in Seq(Range(Columns))
  /\ IF "artifacts" \in o THEN Len(c) \in FirstRelease..Len(Columns) ELSE c = <<>>
  /\ \A i \in DOMAIN c : c[i] = Columns[i]
  /\ v = SchemaVersion => o = Objects /\ Len(c) = Len(Columns)

Seen(m) == {Columns[i].name : i \in 1..m}

ProcessFits ==
  /\ stage = "script" =>
       step \in 1..Len(Statements) /\ \A i \in 1..(step - 1) : Statements[i] \in objects
  /\ stage \in {"inspect", "alter", "stamp", "serving"} => objects = Objects
  /\ stage = "inspect" => step = 1
  /\ stage = "alter" =>
       /\ step \in 1..Len(Migrations)
       /\ \E m \in FirstRelease..Len(Columns) :
            /\ present = Seen(m)
            /\ Len(columns) = IF m < FirstRelease + step - 1 THEN FirstRelease + step - 1 ELSE m
  /\ stage = "stamp" => Len(columns) = Len(Columns)
  /\ stage = "serving" => version = SchemaVersion
  /\ stage # "failed"

StartUpInv ==
  /\ SchemaTypeOK /\ FileFits(objects, columns, version) /\ ProcessFits
  /\ copy # NoCopy => FileFits(copy.objects, copy.columns, copy.version)

=============================================================================
