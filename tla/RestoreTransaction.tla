------------------------- MODULE RestoreTransaction -------------------------
(***************************************************************************)
(* Restoring a backup: scripts/restore.sh stops the service, runs the      *)
(* steps of scripts/restore_archive.py against the data volume, starts the *)
(* service and commits or rolls back.  Every step may fail, the script may *)
(* be killed between any two of them, and an operator may resume by hand.  *)
(***************************************************************************)
EXTENDS Naturals, FiniteSets

CONSTANTS
    Names,      \* DATA_NAMES
    Db,         \* artifacts.db
    Tmp,        \* tmp
    Volatile,   \* what a running service creates and removes: -wal, -shm
    Archive,    \* what the backup holds: Db, and artifacts unless it was absent
    MaxFaults   \* bound of the model: failed steps and kills in a behaviour

ASSUME RestoreAssumption ==
    /\ Db \in Names /\ Tmp \in Names /\ Volatile \subseteq Names
    /\ Db \notin Volatile /\ Tmp \notin Volatile \cup {Db}
    /\ Archive \subseteq Names /\ Db \in Archive
    /\ Archive \cap (Volatile \cup {Tmp}) = {}
    /\ MaxFaults \in Nat

VARIABLES
    live,      \* what each name of the data directory holds: "none", "old", "new"
    old,       \* the names the old generation consists of
    previous,  \* .restore-previous exists
    prev,      \* what it holds
    manifest,  \* .restore-manifest.json in it: "none", "torn" or "complete"
    original,  \* the names a complete manifest lists
    staged,    \* candidates in .restore-staging
    app,       \* the service: "stopped", "unhealthy" or "running"
    phase,     \* restore.sh: $phase, "idle" while the script is not running
    step,      \* restore.sh: the command it is at
    tool,      \* restore_archive.py: its next step, "idle" when not running
    todo,      \* names the rollback loop has still to visit
    nested,    \* this rollback was called by apply
    committed, \* a commit has succeeded
    faults

data   == <<live, old, previous, prev, manifest, original, staged>>
script == <<phase, step>>
proc   == <<tool, todo, nested>>
vars   == <<data, app, script, proc, committed, faults>>

Generations == {"none", "old", "new"}

ShapesOK ==
    /\ live \in [Names -> Generations] /\ prev \in [Names -> Generations]
    /\ old \subseteq Names /\ original \subseteq Names /\ staged \subseteq Names
    /\ manifest \in {"none", "torn", "complete"}
    /\ app \in {"stopped", "unhealthy", "running"}
    /\ phase \in {"idle", "before_stop", "stopped", "pending", "healthy"}
    /\ step \in {"idle", "stop", "tool", "restart", "recover_stop",
                 "recover_tool", "recover_restart"}
    /\ tool \in {"idle", "begin", "extract", "manifest", "swap_out", "swap_in",
                 "abandon", "rollback", "loop", "commit", "ok", "failed"}
    /\ todo \subseteq Names /\ faults \in Nat

FlagsOK == previous \in BOOLEAN /\ nested \in BOOLEAN /\ committed \in BOOLEAN

TypeOK == ShapesOK /\ FlagsOK

Init ==
    /\ old \in {s \in SUBSET Names : Db \in s}
    /\ live = [n \in Names |-> IF n \in old THEN "old" ELSE "none"]
    /\ previous = FALSE /\ prev = [n \in Names |-> "none"]
    /\ manifest = "none" /\ original = {} /\ staged = {}
    /\ app = "running" /\ phase = "idle" /\ step = "idle"
    /\ tool = "idle" /\ todo = {} /\ nested = FALSE
    /\ committed = FALSE /\ faults = 0

Fault == faults < MaxFaults /\ faults' = faults + 1

(***************************************************************************)
(* restore_archive.py apply.  A failed step before the swap abandons it; a *)
(* failed step of the swap rolls back first.                               *)
(***************************************************************************)
ApplyBegin ==
    /\ tool = "begin"
    /\ \/ ~previous /\ tool' = "extract" /\ previous' = TRUE /\ UNCHANGED faults
       \/ previous /\ tool' = "failed" /\ UNCHANGED <<previous, faults>>
       \/ Fault /\ tool' = "failed" /\ UNCHANGED previous
    /\ staged' = IF previous THEN staged ELSE {}
    /\ UNCHANGED <<live, old, prev, manifest, original, app, script, todo, nested, committed>>

ApplyExtract ==
    /\ tool = "extract"
    /\ \/ staged' = Archive /\ tool' = "manifest" /\ UNCHANGED faults
       \/ Fault /\ staged' \in SUBSET Archive /\ tool' = "abandon"
    /\ UNCHANGED <<live, old, previous, prev, manifest, original, app, script,
                   todo, nested, committed>>

\* write_text creates the file, then fills it: a failure may leave it torn.
ApplyManifest ==
    /\ tool = "manifest"
    /\ \/ /\ manifest' = "complete" /\ original' = {n \in Names : live[n] # "none"}
          /\ tool' = "swap_out" /\ UNCHANGED faults
       \/ /\ Fault /\ manifest' \in {"none", "torn"}
          /\ tool' = "abandon" /\ UNCHANGED original
    /\ UNCHANGED <<live, old, previous, prev, staged, app, script, todo, nested, committed>>

ApplySwapOut ==
    /\ tool = "swap_out"
    /\ \/ \E n \in original :
             /\ live[n] # "none"
             /\ prev' = [prev EXCEPT ![n] = live[n]]
             /\ live' = [live EXCEPT ![n] = "none"]
             /\ UNCHANGED tool
       \/ /\ \A n \in original : live[n] = "none"
          /\ tool' = "swap_in" /\ UNCHANGED <<prev, live>>
    /\ UNCHANGED <<old, previous, manifest, original, staged, app, script, todo,
                   nested, committed, faults>>

ApplySwapIn ==
    /\ tool = "swap_in"
    /\ \/ \E n \in staged :
             /\ live' = [live EXCEPT ![n] = "new"]
             /\ staged' = staged \ {n}
             /\ UNCHANGED tool
       \/ /\ staged = {}
          /\ live' = [live EXCEPT ![Tmp] = "new"]
          /\ tool' = "ok" /\ UNCHANGED staged
    /\ UNCHANGED <<old, previous, prev, manifest, original, app, script, todo,
                   nested, committed, faults>>

ApplySwapFails ==
    /\ tool \in {"swap_out", "swap_in"} /\ Fault
    /\ tool' = "rollback" /\ nested' = TRUE
    /\ UNCHANGED <<data, app, script, todo, committed>>

\* Remove the staging tree, and the recovery tree if nothing is in it.
ApplyAbandon ==
    /\ tool = "abandon"
    /\ \/ /\ staged' = {} /\ UNCHANGED faults
          /\ previous' = (previous /\ (manifest # "none" \/ \E n \in Names : prev[n] # "none"))
       \/ Fault /\ staged' \in SUBSET staged /\ UNCHANGED previous
    /\ tool' = "failed"
    /\ UNCHANGED <<live, old, prev, manifest, original, app, script, todo, nested, committed>>

(***************************************************************************)
(* restore_archive.py rollback and commit.                                 *)
(***************************************************************************)
RollbackDone(result) == tool' = (IF nested THEN "abandon" ELSE result) /\ nested' = FALSE

\* Mutant: a manifest that cannot be read means that nothing was moved.
RollbackForgives ==
    /\ tool = "rollback"
    /\ \/ ~previous /\ staged' = {} /\ RollbackDone("ok") /\ UNCHANGED <<todo, previous, prev, manifest>>
       \/ /\ previous /\ manifest = "complete" /\ tool' = "loop" /\ todo' = Names
          /\ UNCHANGED <<staged, nested, previous, prev, manifest>>
       \/ /\ previous /\ manifest # "complete" /\ RollbackDone("ok") /\ UNCHANGED <<staged, todo>>
          /\ previous' = FALSE /\ manifest' = "none" /\ prev' = [n \in Names |-> "none"]
    /\ UNCHANGED <<live, old, original, app, script, committed, faults>>

RollbackBegin ==
    /\ tool = "rollback"
    /\ \/ ~previous /\ staged' = {} /\ RollbackDone("ok") /\ UNCHANGED todo
       \/ /\ previous /\ manifest = "complete" /\ tool' = "loop" /\ todo' = Names
          /\ UNCHANGED <<staged, nested>>
       \/ previous /\ manifest # "complete" /\ RollbackDone("failed") /\ UNCHANGED <<staged, todo>>
    /\ UNCHANGED <<live, old, previous, prev, manifest, original, app, script,
                   committed, faults>>

\* Mutant: what is there is removed even when an earlier attempt put it back.
RollbackAgain ==
    /\ tool = "loop"
    /\ \E n \in todo :
          /\ live' = [live EXCEPT ![n] = IF n \in original THEN prev[n] ELSE "none"]
          /\ prev' = [prev EXCEPT ![n] = "none"]
          /\ todo' = todo \ {n}
    /\ UNCHANGED <<old, previous, manifest, original, staged, app, script, tool,
                   nested, committed, faults>>

\* Mutant: a name whose source is missing fails the rollback.
RollbackNeedsSource ==
    /\ tool = "loop"
    /\ \E n \in todo :
          \/ /\ n \in original /\ prev[n] # "none"
             /\ live' = [live EXCEPT ![n] = prev[n]]
             /\ prev' = [prev EXCEPT ![n] = "none"]
             /\ todo' = todo \ {n} /\ UNCHANGED <<tool, nested>>
          \/ /\ n \in original /\ prev[n] = "none"
             /\ RollbackDone("failed") /\ todo' = {} /\ UNCHANGED <<live, prev>>
          \/ /\ n \notin original
             /\ live' = [live EXCEPT ![n] = "none"]
             /\ todo' = todo \ {n} /\ UNCHANGED <<prev, tool, nested>>
    /\ UNCHANGED <<old, previous, manifest, original, staged, app, script, committed, faults>>

\* A name of the original is put back by removing what is there and renaming,
\* unless an earlier attempt did so already; any other name is removed.
RollbackName ==
    /\ tool = "loop"
    /\ \E n \in todo :
          \/ /\ n \in original /\ prev[n] # "none" /\ live[n] # "none"
             /\ live' = [live EXCEPT ![n] = "none"]
             /\ UNCHANGED <<prev, todo>>
          \/ /\ n \in original /\ prev[n] # "none" /\ live[n] = "none"
             /\ live' = [live EXCEPT ![n] = prev[n]]
             /\ prev' = [prev EXCEPT ![n] = "none"]
             /\ todo' = todo \ {n}
          \/ /\ n \in original /\ prev[n] = "none"
             /\ todo' = todo \ {n} /\ UNCHANGED <<live, prev>>
          \/ /\ n \notin original
             /\ live' = [live EXCEPT ![n] = "none"]
             /\ todo' = todo \ {n} /\ UNCHANGED prev
    /\ UNCHANGED <<old, previous, manifest, original, staged, app, script, tool,
                   nested, committed, faults>>

\* The renamed tree is garbage: whatever becomes of it, it is not read again.
DropPrevious ==
    /\ previous' = FALSE /\ manifest' = "none" /\ original' = {}
    /\ prev' = [n \in Names |-> "none"]

RollbackEnd ==
    /\ tool = "loop" /\ todo = {}
    /\ DropPrevious /\ staged' = {}
    /\ RollbackDone("ok")
    /\ UNCHANGED <<live, old, app, script, todo, committed, faults>>

RollbackFails ==
    /\ tool \in {"rollback", "loop"} /\ Fault
    /\ RollbackDone("failed") /\ todo' = {}
    /\ UNCHANGED <<data, app, script, committed>>

Commit ==
    /\ tool = "commit"
    /\ \/ /\ previous /\ DropPrevious
          /\ tool' = "ok" /\ committed' = TRUE /\ UNCHANGED faults
       \/ /\ ~previous /\ tool' = "failed"
          /\ UNCHANGED <<previous, manifest, original, prev, committed, faults>>
       \/ /\ Fault /\ tool' = "failed"
          /\ UNCHANGED <<previous, manifest, original, prev, committed>>
    /\ UNCHANGED <<live, old, staged, app, script, todo, nested>>

\* A SIGKILL, and a SIGINT too (`except Exception` does not catch it), ends the
\* tool between two steps; no handler of its own runs.
ToolDies ==
    /\ tool \notin {"idle", "ok", "failed"} /\ Fault
    /\ tool' = "failed" /\ todo' = {} /\ nested' = FALSE
    /\ UNCHANGED <<data, app, script, committed>>

Tool ==
    \/ ApplyBegin \/ ApplyExtract \/ ApplyManifest \/ ApplySwapOut \/ ApplySwapIn
    \/ ApplySwapFails \/ ApplyAbandon
    \/ RollbackBegin \/ RollbackName \/ RollbackEnd \/ RollbackFails \/ Commit

(***************************************************************************)
(* restore.sh.  docker reports a stop or a start as failed when it cannot  *)
(* tell; the service is then in any state the attempt may have left.       *)
(***************************************************************************)
ScriptEnds == phase' = "idle" /\ step' = "idle"

\* `validate` and `ready` passed: no recovery tree, old staging removed.
StartRestore ==
    /\ phase = "idle" /\ tool = "idle" /\ ~previous /\ ~committed
    /\ phase' = "before_stop" /\ step' = "stop"
    /\ staged' = {}
    /\ UNCHANGED <<live, old, previous, prev, manifest, original, app, proc, committed, faults>>

StopApp ==
    /\ step = "stop"
    /\ \/ /\ app' = "stopped" /\ phase' = "stopped" /\ step' = "tool"
          /\ tool' = "begin" /\ UNCHANGED faults
       \/ Fault /\ app' \in {app, "stopped"} /\ ScriptEnds /\ UNCHANGED tool
    /\ UNCHANGED <<data, todo, nested, committed>>

\* Mutant: the handler treats a failed commit like a failed start.
RecoverHealthyToo ==
    IF phase = "stopped"
    THEN tool' = "rollback" /\ step' = "recover_tool" /\ UNCHANGED phase
    ELSE tool' = "idle" /\ step' = "recover_stop" /\ UNCHANGED phase

Recover ==
    CASE phase = "stopped" -> tool' = "rollback" /\ step' = "recover_tool" /\ UNCHANGED phase
      [] phase = "pending" -> tool' = "idle" /\ step' = "recover_stop" /\ UNCHANGED phase
      [] OTHER             -> tool' = "idle" /\ ScriptEnds

\* The tool container has exited; docker may also report a success as a failure.
ToolReturns ==
    /\ step = "tool" /\ tool \in {"ok", "failed"}
    /\ \/ /\ tool = "ok" /\ phase = "stopped" /\ UNCHANGED faults
          /\ tool' = "idle" /\ phase' = "pending" /\ step' = "restart"
       \/ tool = "ok" /\ phase = "healthy" /\ tool' = "idle" /\ ScriptEnds /\ UNCHANGED faults
       \/ tool = "failed" /\ Recover /\ UNCHANGED faults
       \/ tool = "ok" /\ Fault /\ Recover
    /\ UNCHANGED <<data, app, todo, nested, committed>>

RestartApp ==
    /\ step = "restart"
    /\ \/ /\ app' = "running" /\ phase' = "healthy" /\ step' = "tool"
          /\ tool' = "commit" /\ UNCHANGED faults
       \/ Fault /\ app' \in {"stopped", "unhealthy", "running"} /\ Recover
    /\ UNCHANGED <<data, todo, nested, committed>>

RecoverStop ==
    /\ step = "recover_stop"
    /\ \/ /\ app' = "stopped" /\ tool' = "rollback" /\ step' = "recover_tool"
          /\ UNCHANGED <<phase, faults>>
       \/ Fault /\ app' \in {app, "stopped"} /\ ScriptEnds /\ UNCHANGED tool
    /\ UNCHANGED <<data, todo, nested, committed>>

RecoverReturns ==
    /\ step = "recover_tool" /\ tool \in {"ok", "failed"}
    /\ tool' = "idle"
    /\ \/ tool = "ok" /\ step' = "recover_restart" /\ UNCHANGED <<phase, faults>>
       \/ tool = "failed" /\ ScriptEnds /\ UNCHANGED faults
       \/ tool = "ok" /\ Fault /\ ScriptEnds
    /\ UNCHANGED <<data, app, todo, nested, committed>>

RecoverRestart ==
    /\ step = "recover_restart"
    /\ \/ app' = "running" /\ UNCHANGED faults
       \/ Fault /\ app' \in {"stopped", "unhealthy"}
    /\ ScriptEnds
    /\ UNCHANGED <<data, proc, committed>>

Script ==
    \/ StopApp \/ ToolReturns \/ RestartApp \/ RecoverStop \/ RecoverReturns \/ RecoverRestart

(***************************************************************************)
(* Around the script: the service works on its files while it is up, the   *)
(* host may go down, and the operator follows the messages.                *)
(***************************************************************************)
\* SQLite makes and removes -wal and -shm; initialize() makes the directories.
AppTouches ==
    /\ app # "stopped"
    /\ \E n \in Names \ {Db} :
          \/ /\ live[n] = "none" /\ live' = [live EXCEPT ![n] = live[Db]]
             /\ old' = IF live[Db] = "old" THEN old \cup {n} ELSE old
          \/ /\ n \in Volatile /\ live' = [live EXCEPT ![n] = "none"]
             /\ old' = IF live[Db] = "old" THEN old \ {n} ELSE old
    /\ UNCHANGED <<previous, prev, manifest, original, staged, app, script, proc,
                   committed, faults>>

\* The host goes down: neither the trap nor an except clause runs; what was up
\* comes up again.
Killed ==
    /\ phase # "idle" \/ tool # "idle"
    /\ Fault /\ ScriptEnds
    /\ tool' = "idle" /\ todo' = {} /\ nested' = FALSE
    /\ UNCHANGED <<data, app, committed>>

\* "recovery data is retained": resume the rollback, with the service stopped.
OperatorRollback ==
    /\ phase = "idle" /\ tool = "idle" /\ previous /\ app = "stopped"
    /\ tool' = "rollback"
    /\ UNCHANGED <<data, app, script, todo, nested, committed, faults>>

\* "application shutdown failed": an unhealthy service is stopped by hand first.
OperatorStop ==
    /\ phase = "idle" /\ tool = "idle" /\ previous /\ app = "unhealthy"
    /\ app' = "stopped"
    /\ UNCHANGED <<data, script, proc, committed, faults>>

\* "recovery cleanup needs operator attention": the restored service is healthy.
OperatorCommit ==
    /\ phase = "idle" /\ tool = "idle" /\ previous /\ app = "running"
    /\ tool' = "commit"
    /\ UNCHANGED <<data, app, script, todo, nested, committed, faults>>

OperatorToolReturns ==
    /\ phase = "idle" /\ tool \in {"ok", "failed"}
    /\ tool' = "idle"
    /\ UNCHANGED <<data, app, script, todo, nested, committed, faults>>

OperatorStart ==
    /\ phase = "idle" /\ tool = "idle" /\ ~previous /\ app # "running"
    /\ app' = "running"
    /\ UNCHANGED <<data, script, proc, committed, faults>>

Operator ==
    \/ OperatorRollback \/ OperatorStop \/ OperatorCommit \/ OperatorToolReturns
    \/ OperatorStart

Next == Tool \/ ToolDies \/ StartRestore \/ Script \/ AppTouches \/ Killed \/ Operator

Spec == Init /\ [][Next]_vars

(***************************************************************************)
(* Safety.                                                                 *)
(***************************************************************************)

IsOld == \A n \in Names : live[n] = (IF n \in old THEN "old" ELSE "none")
IsNew == (\A n \in Names : live[n] # "old") /\ (\A n \in Archive : live[n] = "new")

\* The service never works on a tree put together from two generations, nor on
\* one that lacks a part ("replacing a live SQLite/file tree can mix
\* generations", restore.sh).
NoMixedGenerations == app # "stopped" => IsOld \/ IsNew

\* Until a restore is committed, every part of the old generation exists, in the
\* data directory or in the recovery tree; and a manifest tells which is which.
OldIsRecoverable ==
    ~committed => \A n \in old :
        \/ live[n] = "old"
        \/ prev[n] = "old" /\ manifest = "complete" /\ n \in original

\* A generation that was committed, or passed its health check in a script that
\* is still running, is never rolled back.
HealthyIsFinal ==
    phase = "healthy" \/ committed => live[Db] = "new" /\ tool \notin {"rollback", "loop"}

(***************************************************************************)
(* Why they hold: the inductive strengthening, part by part.               *)
(***************************************************************************)

\* Which steps of the tool, the script and the operator go together, and that
\* the service is down whenever the data directory is being rearranged.
Applying == {"begin", "extract", "manifest", "swap_out", "swap_in", "abandon"}
RollingBack == {"rollback", "loop"}

StepsFit ==
    /\ phase = "idle" <=> step = "idle"
    /\ phase = "before_stop" <=> step = "stop"
    /\ step = "restart" => phase = "pending"
    /\ step = "recover_stop" => phase = "pending"
    /\ step \in {"recover_tool", "recover_restart"} => phase \in {"stopped", "pending"}
    /\ phase = "healthy" => step = "tool" /\ tool \in {"commit", "ok", "failed"}
    /\ step = "tool" => phase \in {"stopped", "healthy"} /\ tool # "idle"
    /\ step \in {"stop", "restart", "recover_stop", "recover_restart"} => tool = "idle"
    /\ tool \in Applying \/ nested => phase = "stopped" /\ step = "tool"
    /\ nested => tool \in RollingBack
    /\ tool \in RollingBack => nested \/ step = "recover_tool" \/ phase = "idle"
    /\ tool = "commit" => phase \in {"idle", "healthy"}
    /\ phase = "stopped" \/ step \in {"recover_tool", "recover_restart"}
         \/ tool \in RollingBack => app = "stopped"
    /\ tool # "loop" => todo = {}

\* Without a complete manifest nothing was moved, and the tree is of one generation.
UnmovedIsWhole ==
    /\ Db \in old
    /\ ~previous => manifest = "none" /\ tool \notin {"extract", "manifest"}
    /\ manifest # "complete" =>
          /\ original = {} /\ \A n \in Names : prev[n] = "none"
          /\ IF committed THEN IsNew ELSE IsOld
          /\ previous => app = "stopped"
          /\ tool \notin {"swap_out", "swap_in", "loop"}

\* With one, every part of the old generation is on one side or the other.
MovedIsKept ==
    manifest = "complete" =>
        /\ ~committed /\ original = old
        /\ \A n \in Names :
              /\ prev[n] \in {"none", "old"} /\ (prev[n] = "old" => n \in old)
              /\ live[n] = "old" => n \in old /\ prev[n] = "none"
              /\ n \in old => live[n] = "old" \/ prev[n] = "old"
        /\ phase # "before_stop" /\ step # "recover_restart"
        /\ tool \notin {"begin", "extract", "manifest"}

\* How far the swap, or the rollback, has come.
SwapGoesOn ==
    /\ tool = "swap_out" =>
          /\ staged = Archive
          /\ \A n \in Names : live[n] # "new" /\ (n \notin old => live[n] = "none")
    /\ tool = "manifest" => staged = Archive
    /\ tool = "swap_in" =>
          /\ staged \subseteq Archive
          /\ \A n \in Names : live[n] # "old" /\ (n \in Archive \ staged => live[n] = "new")
    /\ tool = "loop" => \A n \in Names \ todo : live[n] = (IF n \in old THEN "old" ELSE "none")

\* The service is up, or about to be, on a whole generation.
ServedSoon ==
    \/ app # "stopped" \/ phase = "healthy" \/ tool = "commit"
    \/ step \in {"restart", "recover_stop"}
    \/ step = "tool" /\ tool = "ok"

ServedIsWhole ==
    /\ manifest = "complete" /\ ServedSoon => IsNew
    /\ tool = "ok" /\ phase \in {"idle", "pending"} /\ ~committed => ~previous
    /\ tool = "ok" /\ step = "recover_tool" => ~previous
    /\ step = "recover_restart" => ~previous
    /\ step \in {"restart", "recover_stop"} \/ tool = "commit" => manifest = "complete"
    /\ phase = "stopped" /\ step = "tool" /\ tool = "ok" => manifest = "complete"
    /\ phase = "healthy" => committed \/ manifest = "complete"
    /\ committed => ~previous /\ phase \in {"idle", "healthy"} /\ tool \notin RollingBack

RestoreInv ==
    /\ TypeOK /\ StepsFit /\ UnmovedIsWhole /\ MovedIsKept /\ SwapGoesOn /\ ServedIsWhole

\* "If the swap never began, previous is empty" (restore_archive.py:216), so that
\* "apply either never started a transaction or left retry-safe recovery state"
\* (restore.sh:44): when the write of the manifest fails and apply has cleaned up
\* behind it, no torn manifest is in the way of the EXIT trap's rollback.
FailedApplyIsRetrySafe ==
    step = "recover_tool" /\ tool = "rollback" /\ previous => manifest # "torn"

(***************************************************************************)
(* Liveness, while nothing more goes wrong than MaxFaults allows.          *)
(***************************************************************************)
FairSpec ==
    /\ Spec
    /\ WF_vars(Tool) /\ WF_vars(Script) /\ WF_vars(Operator)

\* A rollback that was cut short anywhere can be resumed until it is complete:
\* with a complete manifest and a stopped service, the old tree comes back whole.
RollbackIsResumable ==
    previous /\ manifest = "complete" /\ app = "stopped" /\ phase = "idle"
        ~> ~previous /\ IsOld
=============================================================================
