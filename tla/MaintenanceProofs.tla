--------------------------- MODULE MaintenanceProofs ---------------------------
(***************************************************************************)
(* Theorems about what happens to the data while the service is down:      *)
(* about Backup for every set of artifacts, and about SchemaMigration for  *)
(* every number of crashes.                                                *)
(***************************************************************************)
EXTENDS Backup, SchemaMigration, SequenceTheorems, TLAPS

\* The members an archive may have, and how they are told apart by name.
LEMMA MembersFit ==
  ASSUME NEW d \in SUBSET Ids, NEW t \in SUBSET Ids
  PROVE  LET none == <<>>
             one == <<Member("artifacts.db", d)>>
             both == Append(one, Member("artifacts", t))
             only == Append(none, Member("artifacts", t))
             M == [name: {"artifacts.db", "artifacts"}, content: SUBSET Ids]
         IN /\ none \in Seq(M) /\ one \in Seq(M) /\ both \in Seq(M) /\ only \in Seq(M)
            /\ DOMAIN none = {} /\ DOMAIN one = {1} /\ DOMAIN both = {1, 2} /\ DOMAIN only = {1}
            /\ one[1].name = "artifacts.db" /\ both[1] = one[1] /\ one[1].content = d
            /\ both[2].name = "artifacts" /\ both[2].content = t /\ only[1].name = "artifacts"
<1>1. /\ Member("artifacts.db", d) \in [name: {"artifacts.db", "artifacts"}, content: SUBSET Ids]
      /\ Member("artifacts", t) \in [name: {"artifacts.db", "artifacts"}, content: SUBSET Ids]
      /\ Member("artifacts.db", d).name = "artifacts.db" /\ Member("artifacts.db", d).content = d
      /\ Member("artifacts", t).name = "artifacts" /\ Member("artifacts", t).content = t
  BY DEF Member
<1>. HIDE DEF Member
<1>2. QED BY <1>1

LEMMA TwoMembers ==
  ASSUME NEW d \in SUBSET Ids, NEW t \in SUBSET Ids
  PROVE  LET both == Append(<<Member("artifacts.db", d)>>, Member("artifacts", t))
         IN /\ both \in Seq([name: {"artifacts.db", "artifacts"}, content: SUBSET Ids])
            /\ \A i, j \in DOMAIN both : both[i].name = both[j].name => i = j
<1> DEFINE both == Append(<<Member("artifacts.db", d)>>, Member("artifacts", t))
<1>1. /\ both \in Seq([name: {"artifacts.db", "artifacts"}, content: SUBSET Ids])
      /\ DOMAIN both = {1, 2} /\ both[2].name = "artifacts"
  BY MembersFit
<1>2. both[1].name = "artifacts.db"
  BY MembersFit
<1> HIDE DEF both
<1>3. \A i, j \in DOMAIN both : both[i].name = both[j].name => i = j
  BY <1>1, <1>2
<1>4. QED BY <1>1, <1>3 DEF both

LEMMA InitFits == Init => BackupInv
<1>. SUFFICES ASSUME Init PROVE BackupInv
  OBVIOUS
<1>1. Old \in ArchiveType /\ Old.members = Append(<<Member("artifacts.db", {})>>, Member("artifacts", {}))
  <2>1. Old.members = Append(<<Member("artifacts.db", {})>>, Member("artifacts", {}))
    BY DEF Old
  <2>2. Old.members \in Seq([name: {"artifacts.db", "artifacts"}, content: SUBSET Ids])
    BY <2>1, MembersFit
  <2>3. QED BY <2>1, <2>2 DEF Old, ArchiveType
<1>2. archive # NoArchive => \A i \in DOMAIN archive.members : Named(archive.members[i].name) = {i}
  BY <1>1, MembersFit DEF Init, Named
<1>3. TypeOK
  BY <1>1, <1>2 DEF Init, TypeOK
<1>4. DataFit /\ ArchiveFits /\ StoppedStaysStopped
  BY BackupAssumption DEF Init, DataFit, ArchiveFits, StoppedStaysStopped
<1>5. QED BY <1>3, <1>4 DEF BackupInv

\* A step of the service: the script has not stopped it, or is through with it.
LEMMA ServiceKeeps == ASSUME BackupInv, at # "exit", Service PROVE BackupInv'
<1>1. app # "stopped" /\ db # NoArchive /\ UNCHANGED script
  BY DEF Service, Replace, InsertRow, DeleteRow, Rmtree, Serves, Close, Die, Revive, BackupInv,
     DataFit
<1>2. at \in {"ps", "stop", "trap"} /\ ~told /\ cut = NoArchive
  BY <1>1, BackupAssumption DEF BackupInv, ArchiveFits, TypeOK
<1>3. /\ app' \in {"up", "dying"} /\ rows' \subseteq Ids /\ tree' \subseteq Ids /\ db' \in SUBSET Ids
      /\ open' \in BOOLEAN /\ killed' \in BOOLEAN
  BY <1>1 DEF Service, Replace, InsertRow, DeleteRow, Rmtree, Serves, Close, Die, Revive, Up,
     BackupInv, TypeOK
<1>4. TypeOK'
  BY <1>1, <1>3 DEF BackupInv, TypeOK, script, Named
<1>5. DataFit'
  <2>1. db' # NoArchive
    BY <1>3, BackupAssumption
  <2>2. CASE \E a \in Ids : Replace(a) \/ InsertRow(a) \/ DeleteRow(a) \/ Rmtree(a)
    BY <1>1, <2>1, <2>2 DEF Replace, InsertRow, DeleteRow, Rmtree, Serves, BackupInv, DataFit,
       TypeOK
  <2>3. CASE Close
    BY <1>1, <2>1, <2>3 DEF Close, Serves, BackupInv, DataFit
  <2>4. CASE Die
    BY <1>1, <2>1, <2>4 DEF Die, BackupInv, DataFit, TypeOK
  <2>5. CASE Revive
    BY <1>1, <2>1, <2>5 DEF Revive, Up, BackupInv, DataFit
  <2>6. QED BY <2>2, <2>3, <2>4, <2>5 DEF Service
<1>6. ArchiveFits' /\ StoppedStaysStopped'
  BY <1>1, <1>2 DEF script, ArchiveFits, StoppedStaysStopped
<1>7. QED BY <1>4, <1>5, <1>6 DEF BackupInv

\* Up to the stop, and whatever fails: nothing has been packed yet, or nothing is told.
LEMMA EarlyStepsKeep == ASSUME BackupInv, Ps \/ Fails \/ Stop \/ RmOld PROVE BackupInv'
<1>1. CASE Ps
  BY <1>1 DEF Ps, service, BackupInv, TypeOK, DataFit, ArchiveFits, StoppedStaysStopped, Named
<1>2. CASE Fails
  BY <1>2 DEF Fails, Then, service, BackupInv, TypeOK, DataFit, ArchiveFits, StoppedStaysStopped,
     Named
<1>3. CASE Stop
  <2>1. /\ app' = "stopped" /\ open' = FALSE /\ at = "stop" /\ at' = "rm" /\ rows' = rows /\ tree' = tree
        /\ ran' = ran /\ archive' = archive /\ told' = told /\ ~told
        /\ cut' = [rows |-> rows, killed |-> killed']
    BY <1>3 DEF Stop, BackupInv, ArchiveFits
  <2>2. /\ killed' \in BOOLEAN /\ db' \in (SUBSET Ids) \union {NoArchive}
        /\ db' = NoArchive => db = NoArchive
        /\ ~killed' /\ db' # NoArchive => db' = rows
    BY <1>3, BackupAssumption DEF Stop, BackupInv, TypeOK, DataFit
  <2>3. TypeOK'
    <3>1. cut' \in CutType
      BY <2>1, <2>2 DEF BackupInv, TypeOK, CutType
    <3>2. archive' # NoArchive =>
            /\ archive' \in ArchiveType
            /\ \A i \in DOMAIN archive'.members : Named(archive.members[i].name)' = {i}
      BY <2>1 DEF BackupInv, TypeOK, Named
    <3>3. QED
      BY <1>3, <2>1, <2>2, <3>1, <3>2 DEF Stop, BackupInv, TypeOK
  <2>4. DataFit' /\ ArchiveFits' /\ StoppedStaysStopped'
    BY <2>1, <2>2 DEF BackupInv, DataFit, ArchiveFits, StoppedStaysStopped
  <2>5. QED BY <2>3, <2>4 DEF BackupInv
<1>4. CASE RmOld
  BY <1>4 DEF RmOld, service, BackupInv, TypeOK, DataFit, ArchiveFits, StoppedStaysStopped
<1>5. QED BY <1>1, <1>2, <1>3, <1>4

\* The container packs: the archive is what ArchiveFits says of the next place.
LEMMA PackingKeeps == ASSUME BackupInv, OpenTar \/ PackDatabase \/ PackTree PROVE BackupInv'
<1>1. /\ UNCHANGED <<service, killed, ran, told, cut, upFailed>>
      /\ at \in {"run", "database", "tree"} /\ at' \in {"database", "tree", "tell"}
      /\ app = "stopped" /\ ~told /\ cut = [rows |-> rows, killed |-> killed]
  BY DEF OpenTar, PackDatabase, PackTree, BackupInv, ArchiveFits
<1>2. tree \in SUBSET Ids /\ db \in (SUBSET Ids) \union {NoArchive}
  BY DEF BackupInv, TypeOK
<1>. DEFINE M == [name: {"artifacts.db", "artifacts"}, content: SUBSET Ids]
            Fits(a) == /\ a \in ArchiveType
                       /\ \A i \in DOMAIN a.members :
                            {j \in DOMAIN a.members : a.members[j].name = a.members[i].name} = {i}
<1>3. /\ at' = "database" => archive' = [members |-> <<>>, closed |-> FALSE]
      /\ at' = "tree" => archive' = [members |-> DatabaseMember(db), closed |-> FALSE]
      /\ at' = "tell" => archive' = Whole(db)
  <2>1. CASE OpenTar
    BY <2>1 DEF OpenTar
  <2>2. CASE PackDatabase
    <3>1. at' = "tree" /\ archive = [members |-> <<>>, closed |-> FALSE]
      BY <2>2 DEF PackDatabase, BackupInv, ArchiveFits
    <3>2. CASE db = NoArchive
      BY <2>2, <3>1, <3>2 DEF PackDatabase, DatabaseMember
    <3>3. CASE db # NoArchive
      <4>1. archive' = [archive EXCEPT !.members = Append(archive.members, Member("artifacts.db", db))]
        BY <2>2, <3>3 DEF PackDatabase
      <4>2. archive' = [members |-> Append(<<>>, Member("artifacts.db", db)), closed |-> FALSE]
        BY <3>1, <4>1
      <4>3. QED BY <3>1, <3>3, <4>2 DEF DatabaseMember
    <3>4. QED BY <3>2, <3>3
  <2>3. CASE PackTree
    <3>1. at' = "tell" /\ archive.members = DatabaseMember(db)
      BY <2>3 DEF PackTree, BackupInv, ArchiveFits
    <3>2. QED BY <2>3, <3>1 DEF PackTree, Whole
  <2>4. QED BY <2>1, <2>2, <2>3
<1>4. /\ archive' \in ArchiveType
      /\ \A i \in DOMAIN archive'.members : Named(archive.members[i].name)' = {i}
  <2>1. \/ DatabaseMember(db) = <<>>
        \/ \E d \in SUBSET Ids : DatabaseMember(db) = <<Member("artifacts.db", d)>>
    <3>1. CASE db = NoArchive
      BY <3>1 DEF DatabaseMember
    <3>2. CASE db # NoArchive
      <4>1. db \in SUBSET Ids /\ DatabaseMember(db) = <<Member("artifacts.db", db)>>
        BY <1>2, <3>2 DEF DatabaseMember
      <4>2. QED BY <4>1
    <3>3. QED BY <3>1, <3>2
  <2>2. \A m, c : m \in Seq(M) /\ c \in BOOLEAN => [members |-> m, closed |-> c] \in ArchiveType
    BY DEF ArchiveType
  <2>2a. ASSUME NEW m \in Seq(M), NEW c \in BOOLEAN,
               \A i, j \in DOMAIN m : m[i].name = m[j].name => i = j
        PROVE  Fits([members |-> m, closed |-> c])
    BY <2>2, <2>2a
  <2>3. CASE at' = "database"
    <3>1. Fits([members |-> <<>>, closed |-> FALSE])
      BY <1>2, <2>2, MembersFit
    <3>2. Fits(archive')
      BY <1>3, <2>3, <3>1
    <3>3. QED BY <3>2 DEF Named
  <2>4. CASE at' = "tree"
    <3>1. Fits([members |-> DatabaseMember(db), closed |-> FALSE])
      <4>. DEFINE m == DatabaseMember(db)
      <4>1. m \in Seq(M) /\ \A i, j \in DOMAIN m : m[i].name = m[j].name => i = j
        <5>1. CASE DatabaseMember(db) = <<>>
          BY <1>2, <5>1, MembersFit
        <5>2. ASSUME NEW d \in SUBSET Ids, DatabaseMember(db) = <<Member("artifacts.db", d)>>
              PROVE  m \in Seq(M) /\ \A i, j \in DOMAIN m : m[i].name = m[j].name => i = j
          <6>1. m \in Seq(M)
            BY <1>2, <5>2, MembersFit
          <6>2. DOMAIN m = {1}
            BY <1>2, <5>2, MembersFit
          <6>3. QED BY <6>1, <6>2
        <5>3. QED BY <2>1, <5>1, <5>2
      <4>2. QED BY <2>2a, <4>1
    <3>2. Fits(archive')
      BY <1>3, <2>4, <3>1
    <3>3. QED BY <3>2 DEF Named
  <2>5. CASE at' = "tell"
    <3>1. Fits([members |-> Append(DatabaseMember(db), Member("artifacts", tree)), closed |-> TRUE])
      <4>. DEFINE m == Append(DatabaseMember(db), Member("artifacts", tree))
      <4>1. m \in Seq(M) /\ \A i, j \in DOMAIN m : m[i].name = m[j].name => i = j
        <5>1. CASE DatabaseMember(db) = <<>>
          BY <1>2, <5>1, MembersFit
        <5>2. ASSUME NEW d \in SUBSET Ids, DatabaseMember(db) = <<Member("artifacts.db", d)>>
              PROVE  m \in Seq(M) /\ \A i, j \in DOMAIN m : m[i].name = m[j].name => i = j
          <6>1. m = Append(<<Member("artifacts.db", d)>>, Member("artifacts", tree))
            BY <5>2
          <6>2. QED BY <1>2, <5>2, <6>1, TwoMembers
        <5>3. QED BY <2>1, <5>1, <5>2
      <4>2. QED BY <2>2a, <4>1
    <3>2. Fits(archive')
      BY <1>3, <2>5, <3>1 DEF Whole
    <3>3. QED BY <3>2 DEF Named
  <2>6. QED BY <1>1, <2>3, <2>4, <2>5
<1>5. TypeOK'
  BY <1>1, <1>4 DEF BackupInv, TypeOK, service
<1>6. DataFit' /\ StoppedStaysStopped'
  BY <1>1 DEF BackupInv, DataFit, StoppedStaysStopped, service
<1>7. ArchiveFits'
  <2>1. DatabaseMember(db)' = DatabaseMember(db) /\ Whole(db)' = Whole(db)
    BY <1>1 DEF service, DatabaseMember, Whole
  <2>2. QED BY <1>1, <1>3, <2>1 DEF ArchiveFits, service
<1>8. QED BY <1>5, <1>6, <1>7 DEF BackupInv

LEMMA LateStepsKeep == ASSUME BackupInv, Tell \/ Restart PROVE BackupInv'
<1>1. CASE Tell
  <2>1. /\ UNCHANGED <<service, killed, ran, archive, upFailed, cut>>
        /\ at = "tell" /\ at' = "trap" /\ told' = TRUE
        /\ app = "stopped" /\ cut = [rows |-> rows, killed |-> killed] /\ archive = Whole(db)
    BY <1>1 DEF Tell, BackupInv, ArchiveFits
  <2>2. TypeOK' /\ DataFit' /\ StoppedStaysStopped'
    BY <2>1 DEF BackupInv, TypeOK, DataFit, StoppedStaysStopped, service, Named
  <2>3. ASSUME db # NoArchive
        PROVE  db \in SUBSET Ids /\ archive = Whole(db) /\ (~cut.killed => db = cut.rows)
    BY <2>1, <2>3 DEF BackupInv, TypeOK, DataFit
  <2>4. cut \in CutType /\ cut.rows \subseteq tree
    BY <2>1 DEF BackupInv, TypeOK, DataFit, CutType
  <2>5. ArchiveFits'
    BY <2>1, <2>3, <2>4 DEF ArchiveFits, service, Whole, DatabaseMember
  <2>6. QED BY <2>2, <2>5 DEF BackupInv
<1>2. CASE Restart
  <2>1. at = "trap" /\ at' = "exit" /\ UNCHANGED <<rows, tree, ran, archive, told, cut>>
    BY <1>2 DEF Restart
  <2>2. /\ db' = NoArchive <=> db = NoArchive
        /\ db' = db \/ db' = rows
        /\ app' = app \/ (ran /\ app' = "up")
        /\ open' = open \/ open' = FALSE
        /\ killed' \in BOOLEAN /\ upFailed' \in BOOLEAN
    BY <1>2, BackupAssumption DEF Restart, Up, BackupInv, TypeOK, DataFit
  <2>3. TypeOK'
    BY <2>1, <2>2 DEF BackupInv, TypeOK, Named
  <2>4. DataFit'
    BY <1>2, <2>1, <2>2 DEF Restart, Up, BackupInv, DataFit, TypeOK
  <2>5. ArchiveFits' /\ StoppedStaysStopped'
    BY <2>1, <2>2 DEF BackupInv, ArchiveFits, StoppedStaysStopped, Whole, DatabaseMember
  <2>6. QED BY <2>3, <2>4, <2>5 DEF BackupInv
<1>3. QED BY <1>1, <1>2

LEMMA StepKeeps == BackupInv /\ [Next]_vars => BackupInv'
<1>. SUFFICES ASSUME BackupInv, [Next]_vars PROVE BackupInv'
  OBVIOUS
<1>1. CASE UNCHANGED vars
  BY <1>1 DEF vars, BackupInv, TypeOK, DataFit, ArchiveFits, StoppedStaysStopped, Whole,
     DatabaseMember, Named
<1>2. CASE Script
  BY <1>2, EarlyStepsKeep, PackingKeeps, LateStepsKeep DEF Script
<1>3. QED BY <1>1, <1>2, ServiceKeeps DEF Next, Finished

\* What was packed whole is accepted, and holds what the invariant says.
LEMMA WholeIsAccepted ==
  ASSUME BackupInv, told, db # NoArchive
  PROVE  /\ Accepts
         /\ ~cut.killed => Packed("artifacts.db") = cut.rows /\ cut.rows \subseteq Packed("artifacts")
<1>1. PICK d \in SUBSET Ids : archive = Whole(d) /\ (~cut.killed => d = cut.rows)
  BY DEF BackupInv, ArchiveFits
<1>2. /\ archive.members = Append(<<Member("artifacts.db", d)>>, Member("artifacts", tree))
      /\ archive.closed = TRUE /\ tree \in SUBSET Ids /\ cut.rows \subseteq tree
  BY <1>1, BackupAssumption DEF Whole, DatabaseMember, BackupInv, TypeOK, ArchiveFits
<1>3. /\ DOMAIN archive.members = {1, 2}
      /\ archive.members[1].name = "artifacts.db" /\ archive.members[1].content = d
      /\ archive.members[2].name = "artifacts" /\ archive.members[2].content = tree
  BY <1>2, MembersFit
<1>4. Named("artifacts.db") = {1} /\ Named("artifacts") = {2}
  BY <1>3 DEF Named
<1>5. archive \in ArchiveType
  <2>1. archive.members \in Seq([name: {"artifacts.db", "artifacts"}, content: SUBSET Ids])
    BY <1>2, MembersFit
  <2>2. QED BY <1>1, <1>2, <2>1 DEF ArchiveType, Whole
<1>6. Accepts
  BY <1>2, <1>3, <1>4, <1>5, BackupAssumption DEF Accepts
<1>7. Packed("artifacts.db") = d /\ Packed("artifacts") = tree
  BY <1>3, <1>4 DEF Packed
<1>8. QED BY <1>1, <1>2, <1>6, <1>7

(* What is in place, and what of it is in the archive, step by step (backup.sh:13-37). *)
THEOREM BackupInvariant == Spec => []BackupInv
BY InitFits, StepKeeps, PTL DEF Spec

(* Every variable keeps its type, and no member is packed twice. *)
THEOREM BackupTypeOK == Spec => []TypeOK
BY BackupInvariant, PTL DEF BackupInv

(* The message comes only over an archive the restore tool takes (backup.sh:37). *)
THEOREM BackupToldIsRestorable == Spec => []ToldIsRestorable
<1>1. BackupInv => ToldIsRestorable
  BY WholeIsAccepted DEF ToldIsRestorable
<1>2. QED BY <1>1, BackupInvariant, PTL

(* After a clean stop the archive holds every row and every row's directory, *)
(* whatever the artifacts are and whatever was published until the stop.     *)
THEOREM BackupCleanStopIsWhole == Spec => []CleanStopIsWhole
<1>1. BackupInv => CleanStopIsWhole
  BY WholeIsAccepted DEF CleanStopIsWhole
<1>2. QED BY <1>1, BackupInvariant, PTL

(* What was stopped before is not started (backup.sh:13-19). *)
THEOREM BackupStoppedStaysStopped == Spec => []StoppedStaysStopped
BY BackupInvariant, PTL DEF BackupInv

-----------------------------------------------------------------------------
\* What PRAGMA table_info tells of each kind of declaration.
LEMMA Declarations ==
  /\ \A name : Info(Text(name)) = <<name, "TEXT", 0, 0>> /\ Text(name).name = name
  /\ \A name : Info(Key(name)) = <<name, "TEXT", 0, 1>> /\ Key(name).name = name
  /\ \A name : Info(Required(name)) = <<name, "TEXT", 1, 0>> /\ Required(name).name = name
  /\ \A name : Info(Number(name)) = <<name, "INTEGER", 1, 0>> /\ Number(name).name = name
  /\ Info(Format) = <<"format", "TEXT", 1, 0>> /\ Format.name = "format"
  /\ Info(Flag) = <<"favorite", "INTEGER", 1, 0>> /\ Flag.name = "favorite"
<1>1. \A name : Info(Text(name)) = <<name, "TEXT", 0, 0>> /\ Text(name).name = name
  BY DEF Text, Info
<1>2. \A name : Info(Key(name)) = <<name, "TEXT", 0, 1>> /\ Key(name).name = name
  BY DEF Text, Key, Info
<1>3. \A name : Info(Required(name)) = <<name, "TEXT", 1, 0>> /\ Required(name).name = name
  BY DEF Text, Required, Info
<1>4. \A name : Info(Number(name)) = <<name, "INTEGER", 1, 0>> /\ Number(name).name = name
  BY DEF Text, Required, Number, Info
<1>5. Info(Format) = <<"format", "TEXT", 1, 0>> /\ Format.name = "format"
  BY DEF Text, Required, Format, Info
<1>6. Info(Flag) = <<"favorite", "INTEGER", 1, 0>> /\ Flag.name = "favorite"
  BY DEF Text, Required, Number, Flag, Info
<1>7. QED BY <1>1, <1>2, <1>3, <1>4, <1>5, <1>6

\* What the list of db.py is, position by position.
LEMMA ColumnsAre ==
  /\ Columns[1] = Key("id") /\ Columns[2] = Required("title") /\ Columns[3] = Text("summary")
  /\ Columns[4] = Format /\ Columns[5] = Required("source_filename")
  /\ Columns[6] = Number("content_bytes") /\ Columns[7] = Required("created_at")
  /\ Columns[8] = Text("expires_at") /\ Columns[9] = Text("session_id")
  /\ Columns[10] = Text("session_title") /\ Columns[11] = Text("platform")
  /\ Columns[12] = Text("chat_name") /\ Columns[13] = Text("topic_id")
  /\ Columns[14] = Text("topic_name") /\ Columns[15] = Flag
BY DEF Columns

\* What the two lists of columns are, position by position.
LEMMA ListsFit ==
  /\ Len(Columns) = 15 /\ Columns \in Seq(Range(Columns)) /\ DOMAIN Columns = 1..15
  /\ Len(Migrations) = 7 /\ Len(Statements) = 6
  /\ \A s \in 1..7 : Migrations[s] = Columns[8 + s]
  /\ \A i, j \in 1..15 : Columns[i].name = Columns[j].name => i = j
<1>1. Len(Columns) = 15 /\ DOMAIN Columns = 1..15 /\ Len(Migrations) = 7 /\ Len(Statements) = 6
  BY DEF Columns, Migrations, Statements
<1>2. Columns \in Seq(Range(Columns))
  <2>1. Columns = [i \in 1..15 |-> Columns[i]]
    BY DEF Columns
  <2>2. \A i \in 1..15 : Columns[i] \in Range(Columns)
    BY <1>1 DEF Range
  <2>. HIDE DEF Columns
  <2>3. [i \in 1..15 |-> Columns[i]] \in [1..15 -> Range(Columns)]
    BY <2>2
  <2>4. QED BY <2>1, <2>3, SeqDef
<1>3. \A s \in 1..7 : Migrations[s] = Columns[8 + s]
  BY DEF Columns, Migrations
<1>4. \A i, j \in 1..15 : Columns[i].name = Columns[j].name => i = j
  <2>1. /\ Columns[1].name = "id" /\ Columns[2].name = "title" /\ Columns[3].name = "summary"
        /\ Columns[4].name = "format" /\ Columns[5].name = "source_filename"
        /\ Columns[6].name = "content_bytes" /\ Columns[7].name = "created_at"
        /\ Columns[8].name = "expires_at" /\ Columns[9].name = "session_id"
        /\ Columns[10].name = "session_title" /\ Columns[11].name = "platform"
        /\ Columns[12].name = "chat_name" /\ Columns[13].name = "topic_id"
        /\ Columns[14].name = "topic_name" /\ Columns[15].name = "favorite"
    BY ColumnsAre, Declarations
  <2>2. QED BY <2>1
<1>5. QED BY <1>1, <1>2, <1>3, <1>4

\* PRAGMA table_info of the table that CREATE TABLE makes is the list of the restore tool.
LEMMA ListsAgree ==
  /\ TableInfo(Columns) = ExpectedColumns
  /\ {"format IN ('markdown', 'html')", "favorite IN (0, 1)"}
       \subseteq {column.check : column \in Range(Columns)}
<1>1. DOMAIN Columns = 1..15
  BY ListsFit
<1>2. TableInfo(Columns) = ExpectedColumns
  <2>1. \A i \in 1..15 : ExpectedColumns[i] = Info(Columns[i])
    <3>1. ExpectedColumns[1] = Info(Columns[1])
      BY ColumnsAre, Declarations DEF ExpectedColumns
    <3>2. ExpectedColumns[2] = Info(Columns[2])
      BY ColumnsAre, Declarations DEF ExpectedColumns
    <3>3. ExpectedColumns[3] = Info(Columns[3])
      BY ColumnsAre, Declarations DEF ExpectedColumns
    <3>4. ExpectedColumns[4] = Info(Columns[4])
      BY ColumnsAre, Declarations DEF ExpectedColumns
    <3>5. ExpectedColumns[5] = Info(Columns[5])
      BY ColumnsAre, Declarations DEF ExpectedColumns
    <3>6. ExpectedColumns[6] = Info(Columns[6])
      BY ColumnsAre, Declarations DEF ExpectedColumns
    <3>7. ExpectedColumns[7] = Info(Columns[7])
      BY ColumnsAre, Declarations DEF ExpectedColumns
    <3>8. ExpectedColumns[8] = Info(Columns[8])
      BY ColumnsAre, Declarations DEF ExpectedColumns
    <3>9. ExpectedColumns[9] = Info(Columns[9])
      BY ColumnsAre, Declarations DEF ExpectedColumns
    <3>10. ExpectedColumns[10] = Info(Columns[10])
      BY ColumnsAre, Declarations DEF ExpectedColumns
    <3>11. ExpectedColumns[11] = Info(Columns[11])
      BY ColumnsAre, Declarations DEF ExpectedColumns
    <3>12. ExpectedColumns[12] = Info(Columns[12])
      BY ColumnsAre, Declarations DEF ExpectedColumns
    <3>13. ExpectedColumns[13] = Info(Columns[13])
      BY ColumnsAre, Declarations DEF ExpectedColumns
    <3>14. ExpectedColumns[14] = Info(Columns[14])
      BY ColumnsAre, Declarations DEF ExpectedColumns
    <3>15. ExpectedColumns[15] = Info(Columns[15])
      BY ColumnsAre, Declarations DEF ExpectedColumns
    <3>16. QED BY <3>1, <3>2, <3>3, <3>4, <3>5, <3>6, <3>7, <3>8, <3>9, <3>10, <3>11, <3>12, <3>13, <3>14, <3>15
  <2>2. ExpectedColumns = [i \in 1..15 |-> ExpectedColumns[i]]
    BY DEF ExpectedColumns
  <2> HIDE DEF ExpectedColumns
  <2>3. QED BY <1>1, <2>1, <2>2 DEF TableInfo
<1>3. Columns[4] \in Range(Columns) /\ Columns[15] \in Range(Columns)
  BY <1>1 DEF Range
<1>4. /\ Columns[4].check = "format IN ('markdown', 'html')"
      /\ Columns[15].check = "favorite IN (0, 1)"
  BY ColumnsAre DEF Text, Required, Number, Format, Flag
<1>5. QED BY <1>2, <1>3, <1>4

LEMMA StatementsFit ==
  /\ Objects = {Statements[i] : i \in 1..6}
  /\ Statements[1] = "artifacts"
  /\ {"artifacts", "assets", "share_links"} \subseteq Objects
  /\ {"idx_artifacts_expires_at", "idx_share_links_artifact"} \subseteq Objects
BY DEF Objects, Statements, Range

\* A list of columns that is as long as Columns and begins like it is Columns.
LEMMA WholeList ==
  ASSUME NEW c \in Seq(Range(Columns)), Len(c) = Len(Columns), \A i \in DOMAIN c : c[i] = Columns[i]
  PROVE  c = Columns
<1>1. Columns \in Seq(Range(Columns))
  BY ListsFit
<1>2. \A i \in 1..Len(c) : c[i] = Columns[i]
  BY LenProperties
<1>3. QED BY <1>1, <1>2, SeqEqual, Zenon

\* What FileFits says of the columns of a file, by position.
LEMMA ColumnsFit ==
  ASSUME NEW o, NEW c, NEW v, FileFits(o, c, v)
  PROVE  /\ c \in Seq(Range(Columns)) /\ Len(c) \in 0..15 /\ DOMAIN c = 1..Len(c)
         /\ "artifacts" \in o => Len(c) \in 8..15
         /\ \A i \in 1..Len(c) : c[i] = Columns[i]
         /\ NamesIn(c) = Seen(Len(c)) /\ NamesIn(c) \subseteq NamesIn(Columns)
<1>1. c \in Seq(Range(Columns)) /\ DOMAIN c = 1..Len(c) /\ Len(c) \in Nat
  BY LenProperties DEF FileFits
<1>2. "artifacts" \in o => Len(c) \in 8..15
  BY ListsFit DEF FileFits, FirstRelease
<1>3. "artifacts" \notin o => Len(c) = 0
  <2>1. "artifacts" \notin o => c = <<>>
    BY DEF FileFits
  <2>2. QED BY <2>1, EmptySeq
<1>4. \A i \in 1..Len(c) : c[i] = Columns[i]
  BY <1>1 DEF FileFits
<1>5. Len(c) \in 0..15
  <2>1. CASE "artifacts" \in o
    <3>1. Len(c) \in 8..15
      BY <1>2, <2>1
    <3>2. QED BY <3>1
  <2>2. CASE "artifacts" \notin o
    <3>1. Len(c) = 0
      BY <1>3, <2>2
    <3>2. QED BY <3>1
  <2>3. QED BY <2>1, <2>2
<1>6. NamesIn(c) = Seen(Len(c))
  BY <1>1, <1>4 DEF NamesIn, Range, Seen
<1>7. NamesIn(c) \subseteq NamesIn(Columns)
  <2>1. \A i \in 1..Len(c) : i \in 1..15
    <3>1. PICK n : n = Len(c)
      OBVIOUS
    <3>2. n \in 0..15
      BY <1>5, <3>1
    <3>3. \A i \in 1..n : i \in 1..15
      BY <3>2
    <3>4. QED BY <3>1, <3>3
  <2>. DOMAIN Columns = 1..15
    BY ListsFit
  <2>2. QED BY <1>1, <1>4, <2>1 DEF NamesIn, Range
<1>8. QED BY <1>1, <1>2, <1>4, <1>5, <1>6, <1>7

LEMMA SchemaInitFits == SchemaInit => StartUpInv
<1>. SUFFICES ASSUME SchemaInit PROVE StartUpInv
  OBVIOUS
<1>. USE ListsFit
<1>1. CASE objects = {} /\ columns = <<>> /\ version = 0
  BY <1>1, MigrationAssumption
  DEF SchemaInit, StartUpInv, SchemaTypeOK, FileFits, ProcessFits, SchemaVersion
<1>2. CASE /\ objects \in {o \in SUBSET Objects : "artifacts" \in o}
           /\ columns \in {SubSeq(Columns, 1, n) : n \in FirstRelease..Len(Columns)}
           /\ version \in {0, 1}
  <2>1. PICK n \in 8..15 : columns = SubSeq(Columns, 1, n)
    BY <1>2 DEF FirstRelease
  <2>2. /\ columns \in Seq(Range(Columns)) /\ Len(columns) = n
        /\ \A i \in DOMAIN columns : columns[i] = Columns[i]
    <3>1. \A i \in 1..n : i \in 1..15 /\ i \in DOMAIN Columns
      OBVIOUS
    <3>2. \A i \in 1..n : Columns[i] \in Range(Columns)
      BY <3>1 DEF Range
    <3>3. /\ SubSeq(Columns, 1, n) \in Seq(Range(Columns)) /\ Len(SubSeq(Columns, 1, n)) = n
          /\ \A i \in 1..n : SubSeq(Columns, 1, n)[i] = Columns[i]
      <4> HIDE ListsFit
      <4>1. n \in Int /\ 1 <= n /\ n - 1 + 1 = n /\ \A i \in 1..n : 1 + i - 1 = i
        OBVIOUS
      <4>2. QED BY <3>2, <4>1, SubSeqProperties
    <3>4. DOMAIN SubSeq(Columns, 1, n) = 1..n
      BY <3>3, LenProperties
    <3>5. QED BY <2>1, <3>3, <3>4
  <2>3. FileFits(objects, columns, version)
    BY <1>2, <2>2 DEF FileFits, SchemaVersion, FirstRelease
  <2>4. QED BY <1>2, <2>2, <2>3, MigrationAssumption
        DEF SchemaInit, StartUpInv, SchemaTypeOK, ProcessFits, SchemaVersion
<1>3. QED BY <1>1, <1>2 DEF SchemaInit

\* One CREATE of the script: the table of artifacts gets all its columns, or has had some.
LEMMA CreateKeeps == ASSUME StartUpInv, CreateIfNotExists PROVE StartUpInv'
<1>. USE ListsFit, StatementsFit
<1>1. /\ step \in 1..6 /\ objects' = objects \union {Statements[step]} /\ objects' \subseteq Objects
      /\ \A i \in 1..(step - 1) : Statements[i] \in objects
  <2>. HIDE ListsFit, StatementsFit
  <2>1. step \in 1..Len(Statements) /\ \A i \in 1..(step - 1) : Statements[i] \in objects
    BY DEF StartUpInv, ProcessFits, CreateIfNotExists
  <2>2. step \in 1..6
    BY <2>1, ListsFit
  <2>3. objects \subseteq Objects /\ objects' = objects \union {Statements[step]}
    BY DEF StartUpInv, FileFits, CreateIfNotExists
  <2>4. Statements[step] \in Objects
    BY <2>2, StatementsFit
  <2>5. QED BY <2>1, <2>2, <2>3, <2>4
<1>2. \A i \in 1..step : Statements[i] \in objects'
  BY <1>1
<1>3. FileFits(objects, columns, version)'
  <2>1. CASE Statements[step] = "artifacts" /\ Statements[step] \notin objects
    BY <1>1, <2>1 DEF StartUpInv, CreateIfNotExists, FileFits, FirstRelease
  <2>2. CASE ~(Statements[step] = "artifacts" /\ Statements[step] \notin objects)
    BY <1>1, <2>2 DEF StartUpInv, CreateIfNotExists, FileFits, FirstRelease
  <2>3. QED BY <2>1, <2>2
<1>4. SchemaTypeOK' /\ ProcessFits'
  <2>1. CASE step = 6
    <3>1. objects' = Objects
      BY <1>1, <1>2, <2>1
    <3>2. QED BY <1>1, <1>3, <2>1, <3>1
          DEF StartUpInv, CreateIfNotExists, FileFits, SchemaTypeOK, ProcessFits
  <2>2. CASE step # 6
    <3>1. step' = step + 1 /\ step' \in 1..6 /\ stage' = "script"
      BY <1>1, <2>2 DEF CreateIfNotExists
    <3>2. SchemaTypeOK'
      BY <1>3, <3>1 DEF StartUpInv, CreateIfNotExists, FileFits, SchemaTypeOK
    <3>3. \A i \in 1..(step' - 1) : Statements[i] \in objects'
      <4>1. step' - 1 = step
        BY <1>1, <3>1
      <4>2. QED BY <1>2, <4>1
    <3>4. ProcessFits'
      BY <3>1, <3>3 DEF ProcessFits
    <3>5. QED BY <3>2, <3>4
  <2>3. QED BY <2>1, <2>2
<1>5. QED BY <1>3, <1>4 DEF StartUpInv, CreateIfNotExists

LEMMA InspectKeeps == ASSUME StartUpInv, Inspect PROVE StartUpInv'
<1>. USE ListsFit, StatementsFit
<1>1. Len(columns) \in 8..15 /\ step = 1 /\ "artifacts" \in objects
  BY ColumnsFit DEF StartUpInv, ProcessFits, Inspect
<1>2. present' = Seen(Len(columns)) /\ present' \subseteq NamesIn(Columns)
  BY ColumnsFit DEF StartUpInv, Inspect
<1>3. SchemaTypeOK' /\ FileFits(objects, columns, version)'
  BY <1>2 DEF StartUpInv, Inspect, FileFits, SchemaTypeOK, file
<1>4. ProcessFits'
  <2>1. /\ step' \in 1..Len(Migrations) /\ objects' = Objects
        /\ Len(columns') = IF Len(columns) < FirstRelease + step' - 1
                           THEN FirstRelease + step' - 1 ELSE Len(columns)
    <3>1. step' = 1 /\ objects' = Objects /\ columns' = columns
      BY <1>1 DEF StartUpInv, ProcessFits, Inspect, file
    <3>2. FirstRelease + step' - 1 = 8
      BY <3>1 DEF FirstRelease
    <3>3. PICK n : n = Len(columns)
      OBVIOUS
    <3>4. n \in 8..15
      BY <1>1, <3>3
    <3>5. ~(n < 8)
      BY <3>4
    <3>6. step' \in 1..Len(Migrations)
      BY <3>1
    <3>7. QED BY <3>1, <3>2, <3>3, <3>5, <3>6
  <2>2. QED BY <1>1, <1>2, <2>1 DEF ProcessFits, Inspect, FirstRelease
<1>5. QED BY <1>3, <1>4 DEF StartUpInv, Inspect

\* A turn of the loop: the migration is one of those seen, or the next column of the list.
LEMMA AddKeeps == ASSUME StartUpInv, AddColumn PROVE StartUpInv'
<1>1. PICK m \in 8..15 : /\ present = Seen(m)
                         /\ Len(columns) = IF m < 8 + step - 1 THEN 8 + step - 1 ELSE m
  BY ListsFit DEF StartUpInv, ProcessFits, AddColumn, FirstRelease
<1>2. /\ step \in 1..7 /\ stage = "alter" /\ objects = Objects /\ "artifacts" \in objects
      /\ FileFits(objects, columns, version) /\ SchemaTypeOK
  BY ListsFit, StatementsFit DEF StartUpInv, ProcessFits, AddColumn
<1>3. /\ columns \in Seq(Range(Columns)) /\ Len(columns) \in 8..15
      /\ DOMAIN columns = 1..Len(columns) /\ NamesIn(columns) = Seen(Len(columns))
      /\ \A i \in 1..Len(columns) : columns[i] = Columns[i]
  BY <1>2, ColumnsFit
<1>4. /\ UNCHANGED <<objects, version, present, crashes, copy>> /\ step' = step + 1
  BY DEF AddColumn
<1>5. \A k \in 8..15 : Migrations[step].name \in Seen(k) <=> 8 + step <= k
  <2>1. Migrations[step] = Columns[8 + step] /\ 8 + step \in 1..15
    BY <1>2, ListsFit
  <2>2. TAKE k \in 8..15
  <2>3. \A i \in 1..k : i \in 1..15 /\ (Columns[i].name = Columns[8 + step].name <=> i = 8 + step)
    <3>. TAKE i \in 1..k
    <3>1. i \in 1..15
      OBVIOUS
    <3>2. \A a, b \in 1..15 : Columns[a].name = Columns[b].name => a = b
      BY ListsFit
    <3>3. QED BY <2>1, <3>1, <3>2, Zenon
  <2>4. Migrations[step].name \in Seen(k) <=> \E i \in 1..k : i = 8 + step
    BY <2>1, <2>3 DEF Seen
  <2>5. QED BY <1>2, <2>4
<1>6. /\ stage' = IF step = 7 THEN "stamp" ELSE "alter"
      /\ columns' = IF 8 + step <= m THEN columns ELSE Append(columns, Columns[8 + step])
  <2>1. Migrations[step].name \in present <=> 8 + step <= m
    BY <1>1, <1>5
  <2>2. Migrations[step].name \in NamesIn(columns) <=> 8 + step <= Len(columns)
    BY <1>3, <1>5
  <2>3. 8 + step <= Len(columns) => 8 + step <= m
    BY <1>1, <1>2
  <2>4. Migrations[step].name \in NamesIn(columns) => Migrations[step].name \in present
    BY <2>1, <2>2, <2>3
  <2>5. Migrations[step] = Columns[8 + step] /\ Len(Migrations) = 7
    BY <1>2, ListsFit
  <2>6. QED BY <2>1, <2>4, <2>5 DEF AddColumn
<1>7. /\ columns' \in Seq(Range(Columns)) /\ \A i \in DOMAIN columns' : columns'[i] = Columns[i]
      /\ Len(columns') = IF m < 8 + step THEN 8 + step ELSE m
      /\ ~(8 + step <= m) => Len(columns) < 15
  <2>1. CASE 8 + step <= m
    BY <1>1, <1>2, <1>3, <1>6, <2>1
  <2>2. CASE ~(8 + step <= m)
    <3>1. Len(columns) = 8 + step - 1 /\ Len(columns) < 15
      BY <1>1, <1>2, <2>2
    <3>2. 8 + step \in 1..15
      BY <1>2
    <3>3. Columns[8 + step] \in Range(Columns)
      BY <3>2, ListsFit DEF Range
    <3>4. columns' = Append(columns, Columns[8 + step])
      BY <1>6, <2>2
    <3>5. /\ columns' \in Seq(Range(Columns)) /\ Len(columns') = Len(columns) + 1
          /\ DOMAIN columns' = 1..(Len(columns) + 1)
          /\ \A i \in 1..Len(columns) : columns'[i] = columns[i]
          /\ columns'[Len(columns) + 1] = Columns[8 + step]
      BY <1>3, <3>3, <3>4, AppendProperties
    <3>6. Len(columns') = 8 + step /\ m < 8 + step
      BY <1>2, <2>2, <3>1, <3>5
    <3>7. ASSUME NEW i \in DOMAIN columns' PROVE columns'[i] = Columns[i]
      <4>1. CASE i = 8 + step
        BY <1>2, <3>1, <3>5, <4>1
      <4>2. CASE i # 8 + step
        <5>1. i \in 1..Len(columns)
          BY <1>2, <3>1, <3>5, <4>2
        <5>2. QED BY <1>3, <3>5, <5>1
      <4>3. QED BY <4>1, <4>2
    <3>8. QED BY <3>1, <3>5, <3>6, <3>7
  <2>3. QED BY <2>1, <2>2
<1>8. Len(columns') \in 8..15
  BY <1>1, <1>2, <1>7
<1>9. FileFits(objects, columns, version)'
  <2>1. objects' \subseteq Objects /\ version' \in 0..SchemaVersion
    BY <1>2, <1>4 DEF FileFits
  <2>2. version' = SchemaVersion => Len(columns') = Len(Columns)
    <3>. SUFFICES ASSUME version' = SchemaVersion PROVE Len(columns') = Len(Columns)
      OBVIOUS
    <3>1. Len(columns) = Len(Columns) /\ Len(Columns) = 15
      BY <1>2, <1>4, ListsFit DEF FileFits
    <3>2. 8 + step <= m
      BY <1>7, <3>1
    <3>3. QED BY <1>6, <3>1, <3>2
  <2>3. Len(columns') \in FirstRelease..Len(Columns)
    BY <1>8, ListsFit DEF FirstRelease
  <2>4. QED BY <1>2, <1>4, <1>7, <2>1, <2>2, <2>3 DEF FileFits
<1>10. SchemaTypeOK'
  <2>1. step' \in 1..(Len(Migrations) + 1) /\ stage' \in {"alter", "stamp"}
    BY <1>2, <1>4, <1>6, ListsFit
  <2>2. QED BY <1>2, <1>4, <1>7, <1>9, <2>1 DEF SchemaTypeOK, FileFits
<1>11. ProcessFits'
  <2>1. CASE step = 7
    <3>1. stage' = "stamp" /\ objects' = Objects
      BY <1>2, <1>4, <1>6, <2>1
    <3>2. Len(columns') = Len(Columns)
      <4>1. Len(columns') = 15
        BY <1>1, <1>7, <2>1
      <4>2. QED BY <4>1, ListsFit
    <3>3. QED BY <3>1, <3>2 DEF ProcessFits
  <2>2. CASE step # 7
    <3>1. stage' = "alter" /\ step' \in 1..Len(Migrations) /\ present' = Seen(m)
      BY <1>1, <1>2, <1>4, <1>6, <2>2, ListsFit
    <3>2. Len(columns') = IF m < FirstRelease + step' - 1 THEN FirstRelease + step' - 1 ELSE m
      BY <1>2, <1>4, <1>7 DEF FirstRelease
    <3>3. m \in FirstRelease..Len(Columns) /\ objects' = Objects
      BY <1>1, <1>2, <1>4, ListsFit DEF FirstRelease
    <3>4. QED BY <3>1, <3>2, <3>3 DEF ProcessFits
  <2>3. QED BY <2>1, <2>2
<1>12. QED BY <1>4, <1>9, <1>10, <1>11 DEF StartUpInv

LEMMA SchemaNextFits == StartUpInv /\ [SchemaNext]_schemaVars => StartUpInv'
<1>. SUFFICES ASSUME StartUpInv, [SchemaNext]_schemaVars PROVE StartUpInv'
  OBVIOUS
<1>. USE ListsFit, StatementsFit
<1>1. CASE Start
  <2>1. UNCHANGED <<file, present, crashes, copy>> /\ stage' = "script" /\ step' = 1
    BY <1>1 DEF Start
  <2>2. 1 \in 1..Len(Statements) /\ 1 \in 1..(Len(Migrations) + 1) /\ 1..0 = {}
    OBVIOUS
  <2>3. FileFits(objects, columns, version)' /\ SchemaTypeOK' /\ ProcessFits'
    BY <2>1, <2>2 DEF StartUpInv, FileFits, SchemaTypeOK, ProcessFits, file
  <2>4. QED BY <2>1, <2>3 DEF StartUpInv
<1>2. CASE CreateIfNotExists
  BY <1>2, CreateKeeps
<1>3. CASE Inspect
  BY <1>3, InspectKeeps
<1>4. CASE AddColumn
  BY <1>4, AddKeeps
<1>5. CASE Stamp
  BY <1>5 DEF StartUpInv, Stamp, FileFits, SchemaTypeOK, ProcessFits, SchemaVersion
<1>6. CASE Crash
  BY <1>6, MigrationAssumption DEF StartUpInv, Crash, FileFits, SchemaTypeOK, ProcessFits, file
<1>7. CASE Backup
  BY <1>7 DEF StartUpInv, Backup, FileFits, SchemaTypeOK, ProcessFits, file
<1>8. CASE Restore
  BY <1>8 DEF StartUpInv, Restore, FileFits, SchemaTypeOK, ProcessFits
<1>9. CASE UNCHANGED schemaVars
  BY <1>9 DEF StartUpInv, schemaVars, FileFits, SchemaTypeOK, ProcessFits
<1>10. QED
  BY <1>1, <1>2, <1>3, <1>4, <1>5, <1>6, <1>7, <1>8, <1>9 DEF SchemaNext, InitDb, Stay

\* A file of the current version is complete, and so passes the restore tool's look at it.
LEMMA StampedIsWhole ==
  ASSUME NEW o, NEW c, NEW v, FileFits(o, c, v), v = SchemaVersion
  PROVE  o = Objects /\ c = Columns
BY WholeList DEF FileFits

LEMMA StampedValidates ==
  ASSUME NEW image, FileFits(image.objects, image.columns, image.version),
         image.version = SchemaVersion
  PROVE  Validates(image)
<1>1. image.objects = Objects /\ image.columns = Columns
  BY StampedIsWhole
<1>2. QED BY <1>1, StatementsFit, ListsAgree DEF Validates

\* What StartUpInv is for.
LEMMA StartUpInvSays == StartUpInv => SchemaInv /\ ServedIsRestorable
<1>. SUFFICES ASSUME StartUpInv PROVE SchemaInv /\ ServedIsRestorable
  OBVIOUS
<1>1. version = SchemaVersion =>
        /\ objects = Objects /\ columns = Columns
        /\ Validates([objects |-> objects, columns |-> columns, version |-> version])
  <2> DEFINE image == [objects |-> objects, columns |-> columns, version |-> version]
  <2>1. FileFits(image.objects, image.columns, image.version) /\ image.version = version
    BY DEF StartUpInv
  <2>2. version = SchemaVersion => objects = Objects /\ columns = Columns
    BY StampedIsWhole DEF StartUpInv
  <2> HIDE DEF image
  <2>3. version = SchemaVersion => Validates(image)
    BY <2>1, StampedValidates
  <2>4. QED BY <2>2, <2>3 DEF image
<1>2. copy # NoCopy /\ copy.version = SchemaVersion => Validates(copy)
  <2>. SUFFICES ASSUME copy # NoCopy, copy.version = SchemaVersion PROVE Validates(copy)
    OBVIOUS
  <2>1. FileFits(copy.objects, copy.columns, copy.version)
    BY DEF StartUpInv
  <2>2. QED BY <2>1, StampedValidates
<1>3. \A i, j \in DOMAIN columns : columns[i].name = columns[j].name => i = j
  <2>1. /\ Len(columns) \in 0..15 /\ DOMAIN columns = 1..Len(columns)
        /\ \A i \in 1..Len(columns) : columns[i] = Columns[i]
    BY ColumnsFit DEF StartUpInv
  <2>2. \A i \in DOMAIN columns : i \in 1..15 /\ columns[i] = Columns[i]
    <3>1. \A n \in 0..15 : 1..n \subseteq 1..15
      OBVIOUS
    <3>2. QED BY <2>1, <3>1
  <2>3. TAKE i, j \in DOMAIN columns
  <2>4. /\ i \in 1..15 /\ j \in 1..15
        /\ columns[i].name = Columns[i].name /\ columns[j].name = Columns[j].name
    BY <2>2
  <2>5. Columns[i].name = Columns[j].name => i = j
    BY <2>4, ListsFit
  <2>6. QED BY <2>4, <2>5
<1>4. QED BY <1>1, <1>2, <1>3
      DEF StartUpInv, SchemaInv, StampedIsComplete, NoDuplicateColumn, ServedIsRestorable,
         ProcessFits

\* What a start-up has done, and how far the file has come, whenever it stops.
THEOREM StartUpInvariant == SchemaSpec => []StartUpInv
<1>1. QED BY SchemaInitFits, SchemaNextFits, PTL DEF SchemaSpec

\* init_db (db.py:66-83), stopped between any two statements and as often as one likes: a
\* file that says it is current is complete, in the order of SCHEMA, and no ALTER TABLE fails.
THEOREM StampedSchemaIsComplete == SchemaSpec => []SchemaInv
<1>1. QED BY StartUpInvariant, StartUpInvSays, PTL

\* Every database the service has run on passes the look that the restore tool takes at the
\* one in a backup (restore_archive.py:82-142), whatever release began it: the list the tool
\* keeps (restore_archive.py:47-64) is what PRAGMA table_info says of that database.
THEOREM ServedDatabasesAreRestorable == SchemaSpec => []ServedIsRestorable
<1>1. QED BY StartUpInvariant, StartUpInvSays, PTL

==============================================================================
