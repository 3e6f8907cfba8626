--------------------- MODULE RestoreTransactionProofs ---------------------
(***************************************************************************)
(* Theorems about RestoreTransaction, and about it on a machine that may   *)
(* lose power, for every set of names and every archive that satisfies     *)
(* RestoreAssumption.                                                      *)
(***************************************************************************)
EXTENDS RestorePowerLoss, TLAPS

\* The steps of apply.  The swap rests on SwapGoesOn and MovedIsKept: what it
\* moves out is in the recovery tree before anything takes its place.
LEMMA ApplyKeepsInv ==
    ASSUME RestoreInv, ApplyBegin \/ ApplyExtract \/ ApplyManifest \/ ApplySwapOut
           \/ ApplySwapIn \/ ApplySwapFails \/ ApplyAbandon
    PROVE  RestoreInv'
<1>. USE DEF RestoreInv, data, script, proc
<1>1. CASE ApplyBegin
  <2>1. FlagsOK'
    BY <1>1 DEF TypeOK, FlagsOK, ApplyBegin, Fault
  <2>2. ShapesOK'
    BY <1>1 DEF TypeOK, ShapesOK, Generations, ApplyBegin, Fault
  <2>3. UnmovedIsWhole'
    BY <1>1 DEF UnmovedIsWhole, IsOld, IsNew, StepsFit, Applying, RollingBack,
      ApplyBegin, Fault
  <2>4. ServedIsWhole'
    BY <1>1 DEF ServedIsWhole, ServedSoon, IsNew, RollingBack, StepsFit, Applying,
      ApplyBegin, Fault
  <2>5. StepsFit' /\ MovedIsKept' /\ SwapGoesOn'
    BY <1>1 DEF StepsFit, Applying, RollingBack, MovedIsKept, SwapGoesOn,
      ApplyBegin, Fault
  <2>. QED BY <2>1, <2>2, <2>3, <2>4, <2>5 DEF TypeOK
<1>2. CASE ApplyExtract
  <2>1. FlagsOK'
    BY <1>2 DEF TypeOK, FlagsOK, ApplyExtract, Fault
  <2>2. ShapesOK'
    BY <1>2, RestoreAssumption DEF TypeOK, ShapesOK, Generations, ApplyExtract,
      Fault
  <2>3. StepsFit' /\ UnmovedIsWhole' /\ MovedIsKept' /\ SwapGoesOn' /\
        ServedIsWhole'
    BY <1>2 DEF StepsFit, Applying, RollingBack, UnmovedIsWhole, IsOld, IsNew,
      MovedIsKept, SwapGoesOn, ServedIsWhole, ServedSoon, ApplyExtract, Fault
  <2>. QED BY <2>1, <2>2, <2>3 DEF TypeOK
<1>3. CASE ApplyManifest
  <2>1. FlagsOK'
    BY <1>3 DEF TypeOK, FlagsOK, ApplyManifest, Fault
  <2>2. ShapesOK'
    BY <1>3 DEF TypeOK, ShapesOK, Generations, ApplyManifest, Fault
  <2>3. UnmovedIsWhole'
    BY <1>3 DEF UnmovedIsWhole, IsOld, IsNew, MovedIsKept, ApplyManifest, Fault
  <2>4. MovedIsKept'
    BY <1>3 DEF MovedIsKept, TypeOK, StepsFit, Applying, RollingBack,
      UnmovedIsWhole, IsOld, IsNew, ServedIsWhole, ServedSoon, ShapesOK,
      Generations, ApplyManifest, Fault
  <2>5. SwapGoesOn'
    BY <1>3 DEF SwapGoesOn, UnmovedIsWhole, IsOld, IsNew, MovedIsKept,
      ServedIsWhole, ServedSoon, RollingBack, ApplyManifest, Fault
  <2>6. ServedIsWhole'
    BY <1>3 DEF ServedIsWhole, ServedSoon, IsNew, RollingBack, StepsFit, Applying,
      ApplyManifest, Fault
  <2>7. StepsFit'
    BY <1>3 DEF StepsFit, Applying, RollingBack, ApplyManifest, Fault
  <2>. QED BY <2>1, <2>2, <2>3, <2>4, <2>5, <2>6, <2>7 DEF TypeOK
<1>4. CASE ApplySwapOut
  <2>1. FlagsOK'
    BY <1>4 DEF TypeOK, FlagsOK, ApplySwapOut
  <2>2. ShapesOK'
    BY <1>4 DEF TypeOK, ShapesOK, Generations, ApplySwapOut
  <2>3. MovedIsKept'
    BY <1>4 DEF MovedIsKept, TypeOK, SwapGoesOn, ShapesOK, Generations, ApplySwapOut
  <2>4. SwapGoesOn'
    BY <1>4 DEF SwapGoesOn, TypeOK, UnmovedIsWhole, IsOld, IsNew, MovedIsKept,
      ShapesOK, Generations, ApplySwapOut
  <2>5. ServedIsWhole'
    BY <1>4 DEF ServedIsWhole, ServedSoon, IsNew, RollingBack, StepsFit, Applying,
      ApplySwapOut
  <2>6. StepsFit' /\ UnmovedIsWhole'
    BY <1>4 DEF StepsFit, Applying, RollingBack, UnmovedIsWhole, IsOld, IsNew,
      ApplySwapOut
  <2>. QED BY <2>1, <2>2, <2>3, <2>4, <2>5, <2>6 DEF TypeOK
<1>5. CASE ApplySwapIn
  <2>1. FlagsOK'
    BY <1>5 DEF TypeOK, FlagsOK, ApplySwapIn
  <2>2. ShapesOK'
    BY <1>5 DEF TypeOK, ShapesOK, Generations, ApplySwapIn
  <2>3. MovedIsKept'
    BY <1>5 DEF MovedIsKept, TypeOK, SwapGoesOn, ShapesOK, Generations, ApplySwapIn
  <2>4. SwapGoesOn'
    BY <1>5 DEF SwapGoesOn, TypeOK, ShapesOK, Generations, ApplySwapIn
  <2>5. ServedIsWhole'
    BY <1>5, RestoreAssumption DEF ServedIsWhole, ServedSoon, IsNew, RollingBack,
      TypeOK, StepsFit, Applying, UnmovedIsWhole, IsOld, SwapGoesOn, ShapesOK,
      Generations, ApplySwapIn
  <2>6. StepsFit' /\ UnmovedIsWhole'
    BY <1>5 DEF StepsFit, Applying, RollingBack, UnmovedIsWhole, IsOld, IsNew,
      ApplySwapIn
  <2>. QED BY <2>1, <2>2, <2>3, <2>4, <2>5, <2>6 DEF TypeOK
<1>6. CASE ApplySwapFails
  <2>1. FlagsOK'
    BY <1>6 DEF TypeOK, FlagsOK, ApplySwapFails, Fault
  <2>2. ShapesOK'
    BY <1>6 DEF TypeOK, ShapesOK, Generations, ApplySwapFails, Fault
  <2>3. ServedIsWhole'
    BY <1>6 DEF ServedIsWhole, ServedSoon, IsNew, RollingBack, UnmovedIsWhole,
      IsOld, ApplySwapFails, Fault
  <2>4. StepsFit' /\ UnmovedIsWhole' /\ MovedIsKept' /\ SwapGoesOn'
    BY <1>6 DEF StepsFit, Applying, RollingBack, UnmovedIsWhole, IsOld, IsNew,
      MovedIsKept, SwapGoesOn, ApplySwapFails, Fault
  <2>. QED BY <2>1, <2>2, <2>3, <2>4 DEF TypeOK
<1>7. CASE ApplyAbandon
  <2>1. FlagsOK'
    BY <1>7 DEF TypeOK, FlagsOK, ApplyAbandon, Fault
  <2>2. ShapesOK'
    BY <1>7 DEF TypeOK, ShapesOK, Generations, ApplyAbandon, Fault
  <2>3. UnmovedIsWhole'
    BY <1>7 DEF UnmovedIsWhole, IsOld, IsNew, TypeOK, ShapesOK, FlagsOK, Generations,
      ApplyAbandon, Fault
  <2>4. ServedIsWhole'
    BY <1>7 DEF ServedIsWhole, ServedSoon, IsNew, RollingBack, TypeOK, ShapesOK,
      FlagsOK, Generations, ApplyAbandon, Fault
  <2>5. StepsFit' /\ MovedIsKept' /\ SwapGoesOn'
    BY <1>7 DEF StepsFit, Applying, RollingBack, MovedIsKept, SwapGoesOn,
      ApplyAbandon, Fault
  <2>. QED BY <2>1, <2>2, <2>3, <2>4, <2>5 DEF TypeOK
<1>. QED BY <1>1, <1>2, <1>3, <1>4, <1>5, <1>6, <1>7

\* The steps of rollback and commit, and the death of the tool.
LEMMA RollbackKeepsInv ==
    ASSUME RestoreInv, RollbackBegin \/ RollbackName \/ RollbackEnd \/ RollbackFails
           \/ Commit \/ ToolDies
    PROVE  RestoreInv'
<1>. USE DEF RestoreInv, data, script, proc
<1>1. CASE RollbackBegin
  <2>1. FlagsOK'
    BY <1>1 DEF TypeOK, FlagsOK, RollbackBegin, RollbackDone
  <2>2. ShapesOK'
    BY <1>1 DEF TypeOK, ShapesOK, Generations, RollbackBegin, RollbackDone
  <2>3. ServedIsWhole'
    BY <1>1 DEF ServedIsWhole, ServedSoon, IsNew, RollingBack, StepsFit, Applying,
      RollbackBegin, RollbackDone
  <2>4. StepsFit' /\ UnmovedIsWhole' /\ MovedIsKept' /\ SwapGoesOn'
    BY <1>1 DEF StepsFit, Applying, RollingBack, UnmovedIsWhole, IsOld, IsNew,
      MovedIsKept, SwapGoesOn, RollbackBegin, RollbackDone
  <2>. QED BY <2>1, <2>2, <2>3, <2>4 DEF TypeOK
<1>2. CASE RollbackName
  <2>1. FlagsOK'
    BY <1>2 DEF TypeOK, FlagsOK, RollbackName
  <2>2. ShapesOK'
    BY <1>2 DEF TypeOK, ShapesOK, Generations, RollbackName
  <2>3. MovedIsKept'
    BY <1>2 DEF MovedIsKept, TypeOK, ShapesOK, Generations, RollbackName
  <2>4. SwapGoesOn'
    BY <1>2 DEF SwapGoesOn, TypeOK, UnmovedIsWhole, IsOld, IsNew, MovedIsKept,
      ShapesOK, Generations, RollbackName
  <2>5. ServedIsWhole'
    BY <1>2 DEF ServedIsWhole, ServedSoon, IsNew, RollingBack, StepsFit, Applying,
      RollbackName
  <2>6. StepsFit' /\ UnmovedIsWhole'
    BY <1>2 DEF StepsFit, Applying, RollingBack, UnmovedIsWhole, IsOld, IsNew,
      RollbackName
  <2>. QED BY <2>1, <2>2, <2>3, <2>4, <2>5, <2>6 DEF TypeOK
<1>3. CASE RollbackEnd
  <2>1. FlagsOK'
    BY <1>3 DEF TypeOK, FlagsOK, RollbackEnd, RollbackDone, DropPrevious
  <2>2. ShapesOK'
    BY <1>3 DEF TypeOK, ShapesOK, Generations, RollbackEnd, RollbackDone,
      DropPrevious
  <2>3. UnmovedIsWhole'
    BY <1>3 DEF UnmovedIsWhole, IsOld, IsNew, SwapGoesOn, ServedIsWhole, ServedSoon,
      RollingBack, RollbackEnd, RollbackDone, DropPrevious
  <2>4. ServedIsWhole'
    BY <1>3 DEF ServedIsWhole, ServedSoon, IsNew, RollingBack, StepsFit, Applying,
      RollbackEnd, RollbackDone, DropPrevious
  <2>5. StepsFit' /\ MovedIsKept' /\ SwapGoesOn'
    BY <1>3 DEF StepsFit, Applying, RollingBack, MovedIsKept, SwapGoesOn,
      RollbackEnd, RollbackDone, DropPrevious
  <2>. QED BY <2>1, <2>2, <2>3, <2>4, <2>5 DEF TypeOK
<1>4. CASE RollbackFails
  <2>1. FlagsOK'
    BY <1>4 DEF TypeOK, FlagsOK, RollbackFails, Fault, RollbackDone
  <2>2. ShapesOK'
    BY <1>4 DEF TypeOK, ShapesOK, Generations, RollbackFails, Fault, RollbackDone
  <2>3. StepsFit' /\ UnmovedIsWhole' /\ MovedIsKept' /\ SwapGoesOn' /\
        ServedIsWhole'
    BY <1>4 DEF StepsFit, Applying, RollingBack, UnmovedIsWhole, IsOld, IsNew,
      MovedIsKept, SwapGoesOn, ServedIsWhole, ServedSoon, RollbackFails, Fault,
      RollbackDone
  <2>. QED BY <2>1, <2>2, <2>3 DEF TypeOK
<1>5. CASE Commit
  <2>1. FlagsOK'
    BY <1>5 DEF TypeOK, FlagsOK, Commit, Fault, DropPrevious
  <2>2. ShapesOK'
    BY <1>5 DEF TypeOK, ShapesOK, Generations, Commit, Fault, DropPrevious
  <2>3. UnmovedIsWhole'
    BY <1>5 DEF UnmovedIsWhole, IsOld, IsNew, ServedIsWhole, ServedSoon,
      RollingBack, Commit, Fault, DropPrevious
  <2>4. ServedIsWhole'
    BY <1>5 DEF ServedIsWhole, ServedSoon, IsNew, RollingBack, StepsFit, Applying,
      Commit, Fault, DropPrevious
  <2>5. StepsFit' /\ MovedIsKept' /\ SwapGoesOn'
    BY <1>5 DEF StepsFit, Applying, RollingBack, MovedIsKept, SwapGoesOn, Commit,
      Fault, DropPrevious
  <2>. QED BY <2>1, <2>2, <2>3, <2>4, <2>5 DEF TypeOK
<1>6. CASE ToolDies
  <2>1. FlagsOK'
    BY <1>6 DEF TypeOK, FlagsOK, ToolDies, Fault
  <2>2. ShapesOK'
    BY <1>6 DEF TypeOK, ShapesOK, Generations, ToolDies, Fault
  <2>3. StepsFit' /\ UnmovedIsWhole' /\ MovedIsKept' /\ SwapGoesOn' /\
        ServedIsWhole'
    BY <1>6 DEF StepsFit, Applying, RollingBack, UnmovedIsWhole, IsOld, IsNew,
      MovedIsKept, SwapGoesOn, ServedIsWhole, ServedSoon, ToolDies, Fault
  <2>. QED BY <2>1, <2>2, <2>3 DEF TypeOK
<1>. QED BY <1>1, <1>2, <1>3, <1>4, <1>5, <1>6

\* The steps of restore.sh: the service is started only on a whole tree.
LEMMA ScriptKeepsInv ==
    ASSUME RestoreInv, StartRestore \/ StopApp \/ ToolReturns \/ RestartApp \/
           RecoverStop \/ RecoverReturns \/ RecoverRestart
    PROVE  RestoreInv'
<1>. USE DEF RestoreInv, data, script, proc
<1>1. CASE StartRestore
  <2>1. FlagsOK'
    BY <1>1 DEF TypeOK, FlagsOK, StartRestore
  <2>2. ShapesOK'
    BY <1>1 DEF TypeOK, ShapesOK, Generations, StartRestore
  <2>3. MovedIsKept'
    BY <1>1 DEF MovedIsKept, UnmovedIsWhole, IsOld, IsNew, StartRestore
  <2>4. StepsFit' /\ UnmovedIsWhole' /\ SwapGoesOn' /\ ServedIsWhole'
    BY <1>1 DEF StepsFit, Applying, RollingBack, UnmovedIsWhole, IsOld, IsNew,
      SwapGoesOn, ServedIsWhole, ServedSoon, StartRestore
  <2>. QED BY <2>1, <2>2, <2>3, <2>4 DEF TypeOK
<1>2. CASE StopApp
  <2>1. FlagsOK'
    BY <1>2 DEF TypeOK, FlagsOK, StopApp, Fault, ScriptEnds
  <2>2. ShapesOK'
    BY <1>2 DEF TypeOK, ShapesOK, Generations, StopApp, Fault, ScriptEnds
  <2>3. MovedIsKept'
    BY <1>2 DEF MovedIsKept, StepsFit, Applying, RollingBack, StopApp, Fault,
      ScriptEnds
  <2>4. ServedIsWhole'
    BY <1>2 DEF ServedIsWhole, ServedSoon, IsNew, RollingBack, StepsFit, Applying,
      StopApp, Fault, ScriptEnds
  <2>5. StepsFit' /\ UnmovedIsWhole' /\ SwapGoesOn'
    BY <1>2 DEF StepsFit, Applying, RollingBack, UnmovedIsWhole, IsOld, IsNew,
      SwapGoesOn, StopApp, Fault, ScriptEnds
  <2>. QED BY <2>1, <2>2, <2>3, <2>4, <2>5 DEF TypeOK
<1>3. CASE ToolReturns
  <2>1. FlagsOK'
    BY <1>3 DEF TypeOK, FlagsOK, ToolReturns, Fault, ScriptEnds, Recover
  <2>2. ShapesOK'
    BY <1>3 DEF TypeOK, ShapesOK, Generations, ToolReturns, Fault, ScriptEnds,
      Recover
  <2>3. ServedIsWhole'
    BY <1>3 DEF ServedIsWhole, ServedSoon, IsNew, RollingBack, StepsFit, Applying,
      ToolReturns, Fault, ScriptEnds, Recover
  <2>4. StepsFit' /\ UnmovedIsWhole' /\ MovedIsKept' /\ SwapGoesOn'
    BY <1>3 DEF StepsFit, Applying, RollingBack, UnmovedIsWhole, IsOld, IsNew,
      MovedIsKept, SwapGoesOn, ToolReturns, Fault, ScriptEnds, Recover
  <2>. QED BY <2>1, <2>2, <2>3, <2>4 DEF TypeOK
<1>4. CASE RestartApp
  <2>1. FlagsOK'
    BY <1>4 DEF TypeOK, FlagsOK, RestartApp, Fault, ScriptEnds, Recover
  <2>2. ShapesOK'
    BY <1>4 DEF TypeOK, ShapesOK, Generations, RestartApp, Fault, ScriptEnds,
      Recover
  <2>3. UnmovedIsWhole'
    BY <1>4 DEF UnmovedIsWhole, IsOld, IsNew, ServedIsWhole, ServedSoon,
      RollingBack, RestartApp, Fault, ScriptEnds, Recover
  <2>4. StepsFit' /\ MovedIsKept' /\ SwapGoesOn' /\ ServedIsWhole'
    BY <1>4 DEF StepsFit, Applying, RollingBack, MovedIsKept, SwapGoesOn,
      ServedIsWhole, ServedSoon, IsNew, RestartApp, Fault, ScriptEnds, Recover
  <2>. QED BY <2>1, <2>2, <2>3, <2>4 DEF TypeOK
<1>5. CASE RecoverStop
  <2>1. FlagsOK'
    BY <1>5 DEF TypeOK, FlagsOK, RecoverStop, Fault, ScriptEnds
  <2>2. ShapesOK'
    BY <1>5 DEF TypeOK, ShapesOK, Generations, RecoverStop, Fault, ScriptEnds
  <2>3. ServedIsWhole'
    BY <1>5 DEF ServedIsWhole, ServedSoon, IsNew, RollingBack, StepsFit, Applying,
      RecoverStop, Fault, ScriptEnds
  <2>4. StepsFit' /\ UnmovedIsWhole' /\ MovedIsKept' /\ SwapGoesOn'
    BY <1>5 DEF StepsFit, Applying, RollingBack, UnmovedIsWhole, IsOld, IsNew,
      MovedIsKept, SwapGoesOn, RecoverStop, Fault, ScriptEnds
  <2>. QED BY <2>1, <2>2, <2>3, <2>4 DEF TypeOK
<1>6. CASE RecoverReturns
  <2>1. FlagsOK'
    BY <1>6 DEF TypeOK, FlagsOK, RecoverReturns, Fault, ScriptEnds
  <2>2. ShapesOK'
    BY <1>6 DEF TypeOK, ShapesOK, Generations, RecoverReturns, Fault, ScriptEnds
  <2>3. MovedIsKept'
    BY <1>6 DEF MovedIsKept, UnmovedIsWhole, IsOld, IsNew, ServedIsWhole,
      ServedSoon, RollingBack, RecoverReturns, Fault, ScriptEnds
  <2>4. StepsFit' /\ UnmovedIsWhole' /\ SwapGoesOn' /\ ServedIsWhole'
    BY <1>6 DEF StepsFit, Applying, RollingBack, UnmovedIsWhole, IsOld, IsNew,
      SwapGoesOn, ServedIsWhole, ServedSoon, RecoverReturns, Fault, ScriptEnds
  <2>. QED BY <2>1, <2>2, <2>3, <2>4 DEF TypeOK
<1>7. CASE RecoverRestart
  <2>1. FlagsOK'
    BY <1>7 DEF TypeOK, FlagsOK, RecoverRestart, Fault, ScriptEnds
  <2>2. ShapesOK'
    BY <1>7 DEF TypeOK, ShapesOK, Generations, RecoverRestart, Fault, ScriptEnds
  <2>3. UnmovedIsWhole'
    BY <1>7 DEF UnmovedIsWhole, IsOld, IsNew, ServedIsWhole, ServedSoon,
      RollingBack, RecoverRestart, Fault, ScriptEnds
  <2>4. ServedIsWhole'
    BY <1>7 DEF ServedIsWhole, ServedSoon, IsNew, RollingBack, MovedIsKept,
      RecoverRestart, Fault, ScriptEnds
  <2>5. StepsFit' /\ MovedIsKept' /\ SwapGoesOn'
    BY <1>7 DEF StepsFit, Applying, RollingBack, MovedIsKept, SwapGoesOn,
      RecoverRestart, Fault, ScriptEnds
  <2>. QED BY <2>1, <2>2, <2>3, <2>4, <2>5 DEF TypeOK
<1>. QED BY <1>1, <1>2, <1>3, <1>4, <1>5, <1>6, <1>7

\* The running service, the death of the host, and the operator.
LEMMA SurroundingsKeepInv ==
    ASSUME RestoreInv, AppTouches \/ Killed \/ OperatorRollback \/ OperatorStop \/
           OperatorCommit \/ OperatorToolReturns \/ OperatorStart
    PROVE  RestoreInv'
<1>. USE DEF RestoreInv, data, script, proc
<1>1. CASE AppTouches
  <2>1. FlagsOK'
    BY <1>1 DEF TypeOK, FlagsOK, AppTouches
  <2>2. ShapesOK'
    BY <1>1, RestoreAssumption DEF TypeOK, ShapesOK, Generations, AppTouches
  <2>3. UnmovedIsWhole'
    BY <1>1, RestoreAssumption DEF UnmovedIsWhole, IsOld, IsNew, TypeOK, ShapesOK,
      Generations, AppTouches
  <2>4. MovedIsKept'
    BY <1>1, RestoreAssumption DEF MovedIsKept, TypeOK, ServedIsWhole, ServedSoon,
      IsNew, RollingBack, ShapesOK, Generations, AppTouches
  <2>5. SwapGoesOn'
    BY <1>1 DEF SwapGoesOn, StepsFit, Applying, RollingBack, AppTouches
  <2>6. ServedIsWhole'
    BY <1>1, RestoreAssumption DEF ServedIsWhole, ServedSoon, IsNew, RollingBack,
      TypeOK, ShapesOK, Generations, AppTouches
  <2>7. StepsFit'
    BY <1>1 DEF StepsFit, Applying, RollingBack, AppTouches
  <2>. QED BY <2>1, <2>2, <2>3, <2>4, <2>5, <2>6, <2>7 DEF TypeOK
<1>2. CASE Killed
  <2>1. FlagsOK'
    BY <1>2 DEF TypeOK, FlagsOK, Killed, Fault, ScriptEnds
  <2>2. ShapesOK'
    BY <1>2 DEF TypeOK, ShapesOK, Generations, Killed, Fault, ScriptEnds
  <2>3. StepsFit' /\ UnmovedIsWhole' /\ MovedIsKept' /\ SwapGoesOn' /\
        ServedIsWhole'
    BY <1>2 DEF StepsFit, Applying, RollingBack, UnmovedIsWhole, IsOld, IsNew,
      MovedIsKept, SwapGoesOn, ServedIsWhole, ServedSoon, Killed, Fault, ScriptEnds
  <2>. QED BY <2>1, <2>2, <2>3 DEF TypeOK
<1>3. CASE OperatorRollback
  <2>1. FlagsOK'
    BY <1>3 DEF TypeOK, FlagsOK, OperatorRollback
  <2>2. ShapesOK'
    BY <1>3 DEF TypeOK, ShapesOK, Generations, OperatorRollback
  <2>3. StepsFit' /\ UnmovedIsWhole' /\ MovedIsKept' /\ SwapGoesOn' /\
        ServedIsWhole'
    BY <1>3 DEF StepsFit, Applying, RollingBack, UnmovedIsWhole, IsOld, IsNew,
      MovedIsKept, SwapGoesOn, ServedIsWhole, ServedSoon, OperatorRollback
  <2>. QED BY <2>1, <2>2, <2>3 DEF TypeOK
<1>4. CASE OperatorStop
  <2>1. FlagsOK'
    BY <1>4 DEF TypeOK, FlagsOK, OperatorStop
  <2>2. ShapesOK'
    BY <1>4 DEF TypeOK, ShapesOK, Generations, OperatorStop
  <2>3. StepsFit' /\ UnmovedIsWhole' /\ MovedIsKept' /\ SwapGoesOn' /\
        ServedIsWhole'
    BY <1>4 DEF StepsFit, Applying, RollingBack, UnmovedIsWhole, IsOld, IsNew,
      MovedIsKept, SwapGoesOn, ServedIsWhole, ServedSoon, OperatorStop
  <2>. QED BY <2>1, <2>2, <2>3 DEF TypeOK
<1>5. CASE OperatorCommit
  <2>1. FlagsOK'
    BY <1>5 DEF TypeOK, FlagsOK, OperatorCommit
  <2>2. ShapesOK'
    BY <1>5 DEF TypeOK, ShapesOK, Generations, OperatorCommit
  <2>3. ServedIsWhole'
    BY <1>5 DEF ServedIsWhole, ServedSoon, IsNew, RollingBack, UnmovedIsWhole,
      IsOld, OperatorCommit
  <2>4. StepsFit' /\ UnmovedIsWhole' /\ MovedIsKept' /\ SwapGoesOn'
    BY <1>5 DEF StepsFit, Applying, RollingBack, UnmovedIsWhole, IsOld, IsNew,
      MovedIsKept, SwapGoesOn, OperatorCommit
  <2>. QED BY <2>1, <2>2, <2>3, <2>4 DEF TypeOK
<1>6. CASE OperatorToolReturns
  <2>1. FlagsOK'
    BY <1>6 DEF TypeOK, FlagsOK, OperatorToolReturns
  <2>2. ShapesOK'
    BY <1>6 DEF TypeOK, ShapesOK, Generations, OperatorToolReturns
  <2>3. StepsFit' /\ UnmovedIsWhole' /\ MovedIsKept' /\ SwapGoesOn' /\
        ServedIsWhole'
    BY <1>6 DEF StepsFit, Applying, RollingBack, UnmovedIsWhole, IsOld, IsNew,
      MovedIsKept, SwapGoesOn, ServedIsWhole, ServedSoon, OperatorToolReturns
  <2>. QED BY <2>1, <2>2, <2>3 DEF TypeOK
<1>7. CASE OperatorStart
  <2>1. FlagsOK'
    BY <1>7 DEF TypeOK, FlagsOK, OperatorStart
  <2>2. ShapesOK'
    BY <1>7 DEF TypeOK, ShapesOK, Generations, OperatorStart
  <2>3. ServedIsWhole'
    BY <1>7 DEF ServedIsWhole, ServedSoon, IsNew, RollingBack, UnmovedIsWhole,
      IsOld, OperatorStart
  <2>4. StepsFit' /\ UnmovedIsWhole' /\ MovedIsKept' /\ SwapGoesOn'
    BY <1>7 DEF StepsFit, Applying, RollingBack, UnmovedIsWhole, IsOld, IsNew,
      MovedIsKept, SwapGoesOn, OperatorStart
  <2>. QED BY <2>1, <2>2, <2>3, <2>4 DEF TypeOK
<1>. QED BY <1>1, <1>2, <1>3, <1>4, <1>5, <1>6, <1>7

LEMMA RestoreInitially == ASSUME Init PROVE RestoreInv
<1>. USE DEF Init
<1>1. TypeOK
  BY DEF TypeOK, ShapesOK, FlagsOK, Generations
<1>2. StepsFit
  BY DEF StepsFit, Applying, RollingBack
<1>3. UnmovedIsWhole /\ MovedIsKept /\ SwapGoesOn /\ ServedIsWhole
  BY DEF UnmovedIsWhole, MovedIsKept, SwapGoesOn, ServedIsWhole, IsOld, RollingBack
<1>. QED BY <1>1, <1>2, <1>3 DEF RestoreInv

\* The inductive invariant holds initially and every step keeps it.
THEOREM RestoreInvariant == Spec => []RestoreInv
<1>1. Init => RestoreInv
  BY RestoreInitially
<1>2. RestoreInv /\ [Next]_vars => RestoreInv'
  <2>. SUFFICES ASSUME RestoreInv, [Next]_vars PROVE RestoreInv'
    OBVIOUS
  <2>1. CASE Next
    BY <2>1, ApplyKeepsInv, RollbackKeepsInv, ScriptKeepsInv, SurroundingsKeepInv
      DEF Next, Tool, Script, Operator
  <2>2. CASE UNCHANGED vars
    BY <2>2 DEF vars, data, script, proc, RestoreInv, TypeOK, ShapesOK, FlagsOK,
      StepsFit, UnmovedIsWhole, MovedIsKept, SwapGoesOn, ServedIsWhole, ServedSoon,
      IsOld, IsNew
  <2>. QED BY <2>1, <2>2
<1>. QED BY <1>1, <1>2, PTL DEF Spec

\* Every variable keeps its type.
THEOREM RestoreTypeOK == Spec => []TypeOK
<1>1. RestoreInv => TypeOK
  BY DEF RestoreInv
<1>. QED BY <1>1, RestoreInvariant, PTL

\* The service never works on a mixture of generations, wherever the script, the
\* tool or the host stops.
THEOREM RestoreNoMixedGenerations == Spec => []NoMixedGenerations
<1>1. RestoreInv => NoMixedGenerations
  BY DEF RestoreInv, NoMixedGenerations, UnmovedIsWhole, ServedIsWhole, ServedSoon
<1>. QED BY <1>1, RestoreInvariant, PTL

\* Until a restore is committed, the old generation can be put together again.
THEOREM RestoreOldIsRecoverable == Spec => []OldIsRecoverable
<1>1. RestoreInv => OldIsRecoverable
  BY DEF RestoreInv, OldIsRecoverable, UnmovedIsWhole, MovedIsKept, IsOld, TypeOK, ShapesOK
<1>. QED BY <1>1, RestoreInvariant, PTL

\* A generation that passed its health check is not rolled back.
THEOREM RestoreHealthyIsFinal == Spec => []HealthyIsFinal
<1>1. RestoreInv => HealthyIsFinal
  BY RestoreAssumption
    DEF RestoreInv, HealthyIsFinal, StepsFit, RollingBack, UnmovedIsWhole, ServedIsWhole,
      ServedSoon, IsNew
<1>. QED BY <1>1, RestoreInvariant, PTL

(***************************************************************************)
(* On a machine that may lose power (RestorePowerLoss).                    *)
(***************************************************************************)

\* The tree of a transaction is one that a power loss may bring back.
LEMMA TransactionTree ==
    ASSUME RestoreInv \/ TornInv
    PROVE  TreeOK(Tree)
<1>1. CASE RestoreInv
  BY <1>1 DEF RestoreInv, TypeOK, ShapesOK, FlagsOK, UnmovedIsWhole, MovedIsKept,
    ServedIsWhole, ServedSoon, IsOld, IsNew, TreeOK, Tree, Kept, WholeOld, WholeNew
<1>2. CASE TornInv
  BY <1>2 DEF TornInv
<1>. QED BY <1>1, <1>2

\* What a torn manifest leaves possible: attempts to roll back, which refuse,
\* and the commit of the new generation.
LEMMA TornMoves ==
    ASSUME TornInv, Next
    PROVE  \/ RollbackBegin \/ RollbackFails \/ Commit \/ ToolDies \/ AppTouches \/ Killed
           \/ OperatorRollback \/ OperatorStop \/ OperatorCommit \/ OperatorToolReturns
BY DEF TornInv, TreeOK, Tree, Next, Tool, Script, Operator, ApplyBegin, ApplyExtract,
  ApplyManifest, ApplySwapOut, ApplySwapIn, ApplySwapFails, ApplyAbandon, RollbackName,
  RollbackEnd, StartRestore, StopApp, ToolReturns, RestartApp, RecoverStop,
  RecoverReturns, RecoverRestart, OperatorStart

LEMMA TornStep ==
    ASSUME TornInv, Next
    PROVE  RestoreInv' \/ TornInv'
<1>. USE DEF data, script, proc
<1>1. CASE RollbackBegin \/ RollbackFails \/ ToolDies \/ Killed \/ OperatorRollback
           \/ OperatorStop \/ OperatorCommit \/ OperatorToolReturns
  <2>0. previous = TRUE
    BY DEF TornInv, TreeOK, Tree, TypeOK, FlagsOK
  <2>1. UNCHANGED data /\ manifest' = "torn"
    BY <1>1, <2>0 DEF TornInv, RollbackBegin, RollbackFails, ToolDies, Killed,
      OperatorRollback, OperatorStop, OperatorCommit, OperatorToolReturns
  <2>2. Tree' = Tree
    BY <1>1, <2>1 DEF Tree, RollbackBegin, RollbackFails, ToolDies, Killed, OperatorRollback,
      OperatorStop, OperatorCommit, OperatorToolReturns
  <2>3. app' = app \/ app' = "stopped"
    BY <1>1 DEF RollbackBegin, RollbackFails, ToolDies, Killed, OperatorRollback,
      OperatorStop, OperatorCommit, OperatorToolReturns
  <2>4. TreeOK(Tree)'
    BY <2>2, <2>3 DEF TornInv, TreeOK, Kept, WholeOld, WholeNew
  <2>6. /\ phase' = "idle" /\ step' = "idle" /\ todo' = {} /\ nested' = FALSE
        /\ tool' \in {"idle", "rollback", "commit", "failed"}
        /\ tool' = "rollback" => app' = "stopped"
        /\ tool' = "commit" => tool = "commit" \/ app # "stopped"
    <3>1. CASE RollbackBegin
      BY <2>0, <3>1 DEF TornInv, RollbackDone, RollbackBegin
    <3>2. CASE RollbackFails \/ ToolDies \/ Killed
      BY <3>2 DEF TornInv, RollbackDone, Fault, ScriptEnds, RollbackFails, ToolDies, Killed
    <3>3. CASE OperatorRollback \/ OperatorStop \/ OperatorCommit \/ OperatorToolReturns
      BY <3>3 DEF TornInv, OperatorRollback, OperatorStop, OperatorCommit, OperatorToolReturns
    <3>. QED BY <1>1, <3>1, <3>2, <3>3
  <2>5. TypeOK'
    <3>1. FlagsOK'
      BY <2>1, <2>6, <1>1 DEF TornInv, TypeOK, FlagsOK, RollbackBegin, RollbackFails, ToolDies,
        Killed, OperatorRollback, OperatorStop, OperatorCommit, OperatorToolReturns
    <3>2. faults' \in Nat
      BY <1>1 DEF TornInv, TypeOK, ShapesOK, Fault, RollbackBegin, RollbackFails, ToolDies,
        Killed, OperatorRollback, OperatorStop, OperatorCommit, OperatorToolReturns
    <3>3. ShapesOK'
      BY <2>1, <2>3, <2>6, <3>2 DEF TornInv, TypeOK, ShapesOK, Generations
    <3>. QED BY <3>1, <3>3 DEF TypeOK
  <2>7. tool' = "commit" => WholeNew(Tree)'
    BY <2>2, <2>6 DEF TornInv, TreeOK, Tree, WholeNew
  <2>. QED BY <2>1, <2>4, <2>5, <2>6, <2>7 DEF TornInv
<1>2. CASE Commit
  <2>1. CASE tool' = "failed" /\ UNCHANGED data
    <3>1. Tree' = Tree /\ app' = app /\ UNCHANGED <<script, todo, nested>>
      BY <1>2, <2>1 DEF Tree, TornInv, TreeOK, Commit, DropPrevious, TypeOK, FlagsOK
    <3>2. TypeOK' /\ TreeOK(Tree)'
      BY <1>2, <2>1, <3>1 DEF TornInv, TypeOK, ShapesOK, FlagsOK, Commit, Fault, TreeOK, Kept,
        WholeOld, WholeNew
    <3>. QED BY <2>1, <3>1, <3>2 DEF TornInv
  <2>2. CASE DropPrevious /\ committed' = TRUE /\ tool' = "ok" /\ UNCHANGED faults
    <3>1. tool = "commit" /\ UNCHANGED <<live, old, staged, app, script, todo, nested>>
      BY <1>2 DEF Commit
    <3>2. TypeOK'
      BY <2>2, <3>1 DEF TornInv, TypeOK, ShapesOK, FlagsOK, Generations, DropPrevious
    <3>3. StepsFit'
      BY <2>2, <3>1 DEF TornInv, StepsFit, Applying, RollingBack
    <3>4. UnmovedIsWhole'
      BY <2>2, <3>1 DEF TornInv, UnmovedIsWhole, IsNew, WholeNew, Tree, TreeOK, DropPrevious
    <3>5. MovedIsKept' /\ SwapGoesOn'
      BY <2>2, <3>1 DEF MovedIsKept, SwapGoesOn, DropPrevious
    <3>6. ServedIsWhole'
      BY <2>2, <3>1 DEF TornInv, ServedIsWhole, RollingBack, DropPrevious
    <3>. QED BY <3>2, <3>3, <3>4, <3>5, <3>6 DEF RestoreInv
  <2>. QED BY <1>2, <2>1, <2>2 DEF Commit, TornInv, TreeOK, Tree
<1>3. CASE AppTouches
  <2>1. PICK n \in Names \ {Db} :
          \/ live[n] = "none" /\ live' = [live EXCEPT ![n] = live[Db]]
          \/ n \in Volatile /\ live' = [live EXCEPT ![n] = "none"]
    BY <1>3 DEF AppTouches
  <2>2. live[Db] \in {"none", "new"} /\ live[Db] = "new" /\ WholeNew(Tree) /\ old' = old
    BY <1>3, RestoreAssumption DEF AppTouches, TornInv, TreeOK, Tree, WholeNew
  <2>3. UNCHANGED <<previous, prev, manifest, original, staged, app, script, proc,
                    committed, faults>>
    BY <1>3 DEF AppTouches
  <2>4. live' \in [Names -> Generations] /\ \A m \in Names : live'[m] # "old"
    BY <2>1, <2>2 DEF TornInv, TypeOK, ShapesOK, Generations, WholeNew, Tree
  <2>5. \A m \in Archive : live'[m] = "new"
    BY <2>1, <2>2, RestoreAssumption DEF TornInv, TypeOK, ShapesOK, WholeNew, Tree
  <2>6. TypeOK'
    BY <2>2, <2>3, <2>4 DEF TornInv, TypeOK, ShapesOK, FlagsOK
  <2>7. WholeNew(Tree)'
    BY <2>4, <2>5 DEF WholeNew, Tree
  <2>8. Kept(Tree)'
    <3>1. \A m \in Names : prev[m] \in {"none", "old"} /\ (prev[m] = "old" => m \in old)
                           /\ (m \in old => prev[m] = "old")
      BY <2>2 DEF TornInv, TreeOK, Tree, Kept, WholeNew
    <3>. QED BY <3>1, <2>2, <2>3, <2>4 DEF Kept, Tree
  <2>9. TreeOK(Tree)'
    BY <2>2, <2>3, <2>4, <2>7, <2>8 DEF TornInv, TreeOK, Tree
  <2>. QED BY <2>3, <2>6, <2>7, <2>9 DEF TornInv
<1>. QED BY <1>1, <1>2, <1>3, TornMoves

\* A step of the transaction, wherever it was put by a power loss.
LEMMA StepKeepsInv ==
    ASSUME RestoreInv \/ TornInv, Next
    PROVE  RestoreInv' \/ TornInv'
<1>1. CASE RestoreInv
  BY <1>1, ApplyKeepsInv, RollbackKeepsInv, ScriptKeepsInv, SurroundingsKeepInv
    DEF Next, Tool, Script, Operator
<1>2. CASE TornInv
  BY <1>2, TornStep
<1>. QED BY <1>1, <1>2

\* While the service is up nobody but the service changes the data directory.
LEMMA OnlyTheServiceWrites ==
    ASSUME RestoreInv \/ TornInv, Next, ~AppTouches
    PROVE  old' = old /\ (app # "stopped" => live' = live)
<1>. USE DEF data, script, proc
<1>1. old' = old
  BY DEF Next, Tool, Script, Operator, ApplyBegin, ApplyExtract, ApplyManifest, ApplySwapOut,
    ApplySwapIn, ApplySwapFails, ApplyAbandon, RollbackBegin, RollbackName, RollbackEnd,
    RollbackFails, Commit, ToolDies, StartRestore, StopApp, ToolReturns, RestartApp,
    RecoverStop, RecoverReturns, RecoverRestart, Killed, OperatorRollback, OperatorStop,
    OperatorCommit, OperatorToolReturns, OperatorStart
<1>2. ApplySwapOut \/ ApplySwapIn \/ RollbackName \/ live' = live
  BY DEF Next, Tool, Script, Operator, ApplyBegin, ApplyExtract, ApplyManifest, ApplySwapFails,
    ApplyAbandon, RollbackBegin, RollbackEnd, RollbackFails, Commit, ToolDies, StartRestore,
    StopApp, ToolReturns, RestartApp, RecoverStop, RecoverReturns, RecoverRestart, Killed,
    OperatorRollback, OperatorStop, OperatorCommit, OperatorToolReturns, OperatorStart
<1>3. tool \in {"swap_out", "swap_in", "loop"} => app = "stopped"
  BY DEF RestoreInv, StepsFit, Applying, RollingBack, TornInv
<1>. QED BY <1>1, <1>2, <1>3 DEF ApplySwapOut, ApplySwapIn, RollbackName

LEMMA PowerStep ==
    ASSUME PowerInv, Step
    PROVE  PowerInv'
<1>1. RestoreInv' \/ TornInv'
  BY StepKeepsInv DEF PowerInv, Step
<1>2. TreeOK(Tree)'
  <2>1. CASE RestoreInv'
    BY <2>1 DEF RestoreInv, TypeOK, ShapesOK, FlagsOK, UnmovedIsWhole, MovedIsKept,
      ServedIsWhole, ServedSoon, IsOld, IsNew, TreeOK, Tree, Kept, WholeOld, WholeNew
  <2>2. CASE TornInv'
    BY <2>2 DEF TornInv
  <2>. QED BY <1>1, <2>1, <2>2
<1>3. written' \in BOOLEAN
  BY DEF PowerInv, Step
<1>4. CASE AppSyncs
  <2>1. disk' = Tree'
    BY <1>4 DEF Step
  <2>2. TreeOK(disk)'
    BY <1>2, <2>1 DEF TreeOK, Kept, WholeOld, WholeNew
  <2>3. DiskFollows'
    BY <2>1 DEF DiskFollows, Tree
  <2>. QED BY <1>1, <1>3, <2>2, <2>3 DEF PowerInv
<1>5. CASE ~AppSyncs
  <2>1. disk' = disk /\ (app' # "stopped" => app # "stopped")
    BY <1>5 DEF Step, AppSyncs
  <2>2. TreeOK(disk)'
    BY <2>1 DEF PowerInv, TreeOK, Kept, WholeOld, WholeNew
  <2>3. ~AppTouches
    BY <1>5 DEF AppSyncs, AppTouches
  <2>4. old' = old /\ (app # "stopped" => live' = live)
    BY <2>3, OnlyTheServiceWrites DEF PowerInv, Step
  <2>5. DiskFollows'
    BY <2>1, <2>4 DEF PowerInv, DiskFollows
  <2>. QED BY <1>1, <1>3, <2>2, <2>5 DEF PowerInv
<1>. QED BY <1>4, <1>5

\* A power loss: everything that ran is gone, and the tree is the one on the disk.
LEMMA PowerLossKeepsInv ==
    ASSUME PowerInv, PowerLoss
    PROVE  PowerInv'
<1>. USE DEF ScriptEnds, Fault
<1>1. /\ live' = disk.live /\ old' = disk.old /\ previous' = disk.previous
      /\ prev' = disk.prev /\ staged' = disk.staged /\ committed' = disk.committed
      /\ phase' = "idle" /\ step' = "idle" /\ tool' = "idle" /\ todo' = {} /\ nested' = FALSE
      /\ app' = app /\ faults' = faults + 1 /\ disk' = Tree' /\ written' = TRUE
  BY DEF PowerLoss
<1>2. \/ manifest' = disk.manifest /\ original' = disk.original
      \/ disk.manifest = "complete" /\ manifest' = "torn" /\ original' = {}
  BY DEF PowerLoss
<1>3. TreeOK(disk) /\ app \in {"stopped", "unhealthy", "running"} /\ faults \in Nat
  BY DEF PowerInv, RestoreInv, TornInv, TypeOK, ShapesOK
<1>4. TypeOK'
  <2>1. FlagsOK'
    BY <1>1, <1>3 DEF TreeOK, FlagsOK
  <2>2. original' \subseteq Names /\ manifest' \in {"none", "torn", "complete"}
    BY <1>2, <1>3 DEF TreeOK
  <2>3. ShapesOK'
    BY <1>1, <1>3, <2>2 DEF TreeOK, ShapesOK, Generations
  <2>. QED BY <2>1, <2>3 DEF TypeOK
<1>5. TreeOK(Tree)'
  BY <1>1, <1>2, <1>3 DEF TreeOK, Tree, Kept, WholeOld, WholeNew
<1>6. TreeOK(disk)'
  BY <1>1, <1>5 DEF TreeOK, Kept, WholeOld, WholeNew
<1>7. DiskFollows'
  BY <1>1 DEF DiskFollows, Tree
<1>8. CASE manifest' = "torn"
  BY <1>1, <1>4, <1>5, <1>6, <1>7, <1>8 DEF PowerInv, TornInv
<1>9. CASE manifest' # "torn"
  <2>1. StepsFit' /\ SwapGoesOn'
    BY <1>1 DEF StepsFit, Applying, RollingBack, SwapGoesOn
  <2>2. UnmovedIsWhole'
    BY <1>1, <1>5, <1>9 DEF UnmovedIsWhole, TreeOK, Tree, WholeOld, WholeNew, IsOld, IsNew
  <2>3. MovedIsKept'
    BY <1>1, <1>5 DEF MovedIsKept, TreeOK, Tree, Kept
  <2>4. ServedIsWhole'
    BY <1>1, <1>5 DEF ServedIsWhole, ServedSoon, RollingBack, TreeOK, Tree, WholeNew, IsNew
  <2>. QED BY <1>1, <1>4, <1>6, <1>7, <2>1, <2>2, <2>3, <2>4 DEF PowerInv, RestoreInv
<1>. QED BY <1>8, <1>9

\* The inductive invariant of the machine that may lose power.
THEOREM PowerInvariant == PowerSpec => []PowerInv
<1>1. PowerInit => PowerInv
  <2>. SUFFICES ASSUME PowerInit PROVE PowerInv
    OBVIOUS
  <2>1. RestoreInv
    BY RestoreInitially DEF PowerInit
  <2>2. TreeOK(Tree)
    BY <2>1, TransactionTree
  <2>. QED BY <2>1, <2>2 DEF PowerInit, PowerInv, DiskFollows, Tree
<1>2. PowerInv /\ [PowerNext]_allVars => PowerInv'
  <2>. SUFFICES ASSUME PowerInv, [PowerNext]_allVars PROVE PowerInv'
    OBVIOUS
  <2>1. CASE Step
    BY <2>1, PowerStep
  <2>2. CASE PowerLoss
    BY <2>2, PowerLossKeepsInv
  <2>3. CASE Journal \/ Writeback \/ UNCHANGED allVars
    <3>1. UNCHANGED vars /\ (disk' = disk \/ disk' = Tree) /\ written' \in BOOLEAN
      BY <2>3 DEF Journal, Writeback, allVars, PowerInv
    <3>2. UNCHANGED Tree /\ UNCHANGED app
      BY <3>1 DEF vars, data, Tree
    <3>3. RestoreInv' \/ TornInv'
      <4>1. CASE RestoreInv
        BY <3>1, <4>1 DEF vars, data, script, proc, RestoreInv, TypeOK, ShapesOK, FlagsOK,
          StepsFit, UnmovedIsWhole, MovedIsKept, SwapGoesOn, ServedIsWhole, ServedSoon,
          IsOld, IsNew
      <4>2. CASE TornInv
        BY <3>1, <3>2, <4>2 DEF vars, data, script, proc, TornInv, TypeOK, ShapesOK, FlagsOK,
          TreeOK, Kept, WholeOld, WholeNew
      <4>. QED BY <4>1, <4>2 DEF PowerInv
    <3>4. TreeOK(Tree)
      BY TransactionTree DEF PowerInv
    <3>5. TreeOK(disk)'
      BY <3>1, <3>2, <3>4 DEF PowerInv, TreeOK, Kept, WholeOld, WholeNew
    <3>6. DiskFollows'
      BY <3>1 DEF PowerInv, DiskFollows, Tree, vars, data
    <3>. QED BY <3>1, <3>3, <3>5, <3>6 DEF PowerInv
  <2>. QED BY <2>1, <2>2, <2>3 DEF PowerNext
<1>. QED BY <1>1, <1>2, PTL DEF PowerSpec

\* No power loss, at whatever point of a restore, destroys a part of the old
\* generation before a restore is committed.
THEOREM PowerOldBytesSurvive == PowerSpec => []OldBytesSurvive
<1>1. ASSUME PowerInv PROVE OldBytesSurvive
  <2>1. TreeOK(Tree)
    BY <1>1, TransactionTree DEF PowerInv
  <2>. QED BY <2>1 DEF TreeOK, Tree, Kept, WholeOld, OldBytesSurvive
<1>. QED BY <1>1, PowerInvariant, PTL

\* And after any of them the service works on one generation, whole.
THEOREM PowerNoMixedGenerations == PowerSpec => []NoMixedGenerations
<1>1. ASSUME PowerInv PROVE NoMixedGenerations
  <2>1. TreeOK(Tree)
    BY <1>1, TransactionTree DEF PowerInv
  <2>. QED
    BY <2>1 DEF TreeOK, Tree, WholeOld, WholeNew, IsOld, IsNew, NoMixedGenerations
<1>. QED BY <1>1, PowerInvariant, PTL
=============================================================================
