-------------------------- MODULE RestorePowerLoss --------------------------
(***************************************************************************)
(* RestoreTransaction on a machine that may lose power.  Nothing in        *)
(* restore_archive.py is flushed: the filesystem journals the entries of   *)
(* its directories in order, so that a power loss takes back the last of   *)
(* the renames, and writes the bytes of the manifest when it likes, so     *)
(* that the renames which came after it may survive it.                    *)
(***************************************************************************)
EXTENDS RestoreTransaction

VARIABLES
    disk,    \* the tree that a power loss leaves: the last one the journal has
    written  \* the bytes of the manifest are on the disk

allVars == <<vars, disk, written>>

Tree == [live |-> live, old |-> old, previous |-> previous, prev |-> prev,
         manifest |-> manifest, original |-> original, staged |-> staged,
         committed |-> committed]

PowerInit == Init /\ disk = Tree /\ written = FALSE

\* SQLite runs with synchronous=FULL: a start of the service, and what it
\* writes, takes every earlier entry to the disk.
AppSyncs == app' # "stopped" /\ (app = "stopped" \/ AppTouches)

Step ==
    /\ Next
    /\ disk' = IF AppSyncs THEN Tree' ELSE disk
    /\ written' = (written /\ manifest' = manifest)

Journal == disk' = Tree /\ UNCHANGED <<vars, written>>
Writeback == written' = TRUE /\ UNCHANGED <<vars, disk>>

\* Docker starts again what was up (`restart: unless-stopped`).
PowerLoss ==
    /\ phase # "idle" \/ tool # "idle" \/ disk # Tree
    /\ Fault
    /\ live' = disk.live /\ old' = disk.old /\ previous' = disk.previous
    /\ prev' = disk.prev /\ staged' = disk.staged /\ committed' = disk.committed
    /\ IF disk.manifest = "complete" /\ ~written
       THEN manifest' = "torn" /\ original' = {}
       ELSE manifest' = disk.manifest /\ original' = disk.original
    /\ disk' = Tree' /\ written' = TRUE
    /\ ScriptEnds /\ tool' = "idle" /\ todo' = {} /\ nested' = FALSE
    /\ UNCHANGED app

PowerNext == Step \/ Journal \/ Writeback \/ PowerLoss
PowerSpec == PowerInit /\ [][PowerNext]_allVars

-----------------------------------------------------------------------------
(* Whatever was renamed and whatever of it the power loss took back, no part *)
(* of the old generation is gone before a restore is committed; though       *)
(* without a manifest only a person can tell the parts (restore_archive.py:  *)
(* 240-273 refuses to guess).                                                *)
OldBytesSurvive == ~committed => \A n \in old : live[n] = "old" \/ prev[n] = "old"

(***************************************************************************)
(* Why they hold: a tree that a power loss brings back was a tree of the   *)
(* transaction, except that its manifest may be torn over parts that have  *)
(* been moved.  From there neither tool goes on without a person.          *)
(***************************************************************************)
WholeOld(t) == \A n \in Names : t.live[n] = (IF n \in t.old THEN "old" ELSE "none")
WholeNew(t) == (\A n \in Names : t.live[n] # "old") /\ (\A n \in Archive : t.live[n] = "new")

\* Every part of the old generation is on one side or the other.
Kept(t) ==
    \A n \in Names :
        /\ t.prev[n] \in {"none", "old"} /\ (t.prev[n] = "old" => n \in t.old)
        /\ t.live[n] = "old" => n \in t.old /\ t.prev[n] = "none"
        /\ n \in t.old => t.live[n] = "old" \/ t.prev[n] = "old"

\* What holds of the tree, and of the one on the disk, whatever runs.
TreeOK(t) ==
    /\ t.live \in [Names -> Generations] /\ t.prev \in [Names -> Generations]
    /\ t.old \subseteq Names /\ Db \in t.old
    /\ t.staged \subseteq Names /\ t.manifest \in {"none", "torn", "complete"}
    /\ t.previous \in BOOLEAN /\ t.committed \in BOOLEAN
    /\ t.original = (IF t.manifest = "complete" THEN t.old ELSE {})
    /\ t.manifest # "none" =>
          t.previous /\ ~t.committed /\ Kept(t) /\ (app # "stopped" => WholeNew(t))
    /\ t.manifest = "none" =>
          /\ \A n \in Names : t.prev[n] = "none"
          /\ IF t.committed THEN WholeNew(t) /\ ~t.previous ELSE WholeOld(t)
          /\ t.previous => app = "stopped"

\* A manifest torn over moved parts stops restore.sh and rollback; only the
\* commit of a service that is up on the new generation ends it.
TornInv ==
    /\ TypeOK /\ TreeOK(Tree) /\ manifest = "torn"
    /\ phase = "idle" /\ step = "idle" /\ todo = {} /\ nested = FALSE
    /\ tool \in {"idle", "rollback", "commit", "failed"}
    /\ tool = "rollback" => app = "stopped"
    /\ tool = "commit" => WholeNew(Tree)

\* While the service is up, the disk has the tree it works on.
DiskFollows == disk.old = old /\ (app # "stopped" => disk.live = live)

PowerInv ==
    /\ RestoreInv \/ TornInv
    /\ TreeOK(disk) /\ DiskFollows
    /\ written \in BOOLEAN
=============================================================================
