------------------------- MODULE ArtifactStoreProofs -------------------------
(***************************************************************************)
(* Theorems about ArtifactStore for every set of ids and workers and every *)
(* value of the limits that satisfies StoreAssumption.                     *)
(***************************************************************************)
EXTENDS ArtifactStore, TLAPS

\* The clock, the restart and the two ways of stopping.
LEMMA EnvironmentKeepsInv ==
    ASSUME StoreInv, Tick \/ Boot \/ Kill \/ PowerLoss
    PROVE  StoreInv'
<1>. USE DEF StoreInv, disk, db, pub, work, sweep
<1>1. CASE Tick
  <2>1. DirectoriesAreOwned'
    BY <1>1 DEF DirectoriesAreOwned, TypeOK, Tick
  <2>2. SweepSeesThemYoung'
    BY <1>1, StoreAssumption DEF SweepSeesThemYoung, TypeOK, Tick
  <2>3. SweepTakesOnlyDead'
    BY <1>1 DEF SweepTakesOnlyDead, TypeOK, Expired, Tick
  <2>4. TypeOK' /\ RowsAreDurable' /\ PublishIsUndisturbed' /\
        RequestsAreAboutPublished'
    BY <1>1 DEF TypeOK, RowsAreDurable, PublishIsUndisturbed,
      RequestsAreAboutPublished, Contents, Tick
  <2>. QED BY <2>1, <2>2, <2>3, <2>4
<1>2. CASE Boot
  <2>1. SweepSeesThemYoung'
    BY <1>2, StoreAssumption DEF SweepSeesThemYoung, TypeOK, PublishIsUndisturbed,
      Boot
  <2>2. TypeOK' /\ RowsAreDurable' /\ DirectoriesAreOwned' /\ PublishIsUndisturbed'
        /\ RequestsAreAboutPublished' /\ SweepTakesOnlyDead'
    BY <1>2 DEF TypeOK, RowsAreDurable, DirectoriesAreOwned, PublishIsUndisturbed,
      RequestsAreAboutPublished, SweepTakesOnlyDead, Contents, Expired, Boot
  <2>. QED BY <2>1, <2>2
<1>3. CASE Kill
  <2>1. SweepSeesThemYoung'
    BY <1>3 DEF SweepSeesThemYoung, TypeOK, Kill, Stopped, CreateReturns,
      SweepReturns, Fault
  <2>2. TypeOK' /\ RowsAreDurable' /\ DirectoriesAreOwned' /\ PublishIsUndisturbed'
        /\ RequestsAreAboutPublished' /\ SweepTakesOnlyDead'
    BY <1>3 DEF TypeOK, RowsAreDurable, DirectoriesAreOwned, PublishIsUndisturbed,
      RequestsAreAboutPublished, SweepTakesOnlyDead, Contents, Expired, Kill,
      Stopped, CreateReturns, SweepReturns, Fault
  <2>. QED BY <2>1, <2>2
<1>4. CASE PowerLoss
  <2>1. RowsAreDurable'
    BY <1>4 DEF RowsAreDurable, TypeOK, PowerLoss, Stopped, CreateReturns,
      SweepReturns, Fault
  <2>2. DirectoriesAreOwned'
    BY <1>4 DEF DirectoriesAreOwned, PublishIsUndisturbed, PowerLoss, Stopped,
      CreateReturns, SweepReturns, Fault
  <2>3. SweepSeesThemYoung'
    BY <1>4 DEF SweepSeesThemYoung, TypeOK, PowerLoss, Stopped, CreateReturns,
      SweepReturns, Fault
  <2>4. TypeOK' /\ PublishIsUndisturbed' /\ RequestsAreAboutPublished' /\
        SweepTakesOnlyDead'
    BY <1>4 DEF TypeOK, PublishIsUndisturbed, RequestsAreAboutPublished,
      SweepTakesOnlyDead, Contents, Expired, PowerLoss, Stopped, CreateReturns,
      SweepReturns, Fault
  <2>. QED BY <2>1, <2>2, <2>3, <2>4
<1>. QED BY <1>1, <1>2, <1>3, <1>4

\* Every step of a publish.  Replace and InsertRow rest on PublishIsUndisturbed,
\* CreateStaging on the freshness of the id.
LEMMA CreateKeepsInv ==
    ASSUME StoreInv, Create
    PROVE  StoreInv'
<1>. USE DEF StoreInv, disk, db, pub, work, sweep
<1>1. ASSUME NEW id \in Ids, NEW e \in {now + t : t \in Lifetimes} \cup {None},
            CreateStaging(id, e)
     PROVE  StoreInv'
  <2>1. TypeOK'
    BY <1>1, StoreAssumption DEF TypeOK, RowsAreDurable, Contents, CreateStaging
  <2>2. DirectoriesAreOwned'
    BY <1>1 DEF DirectoriesAreOwned, TypeOK, CreateStaging
  <2>3. PublishIsUndisturbed'
    BY <1>1, StoreAssumption DEF PublishIsUndisturbed, TypeOK, RowsAreDurable,
      CreateStaging
  <2>4. SweepSeesThemYoung'
    BY <1>1, StoreAssumption DEF SweepSeesThemYoung, TypeOK, CreateStaging
  <2>5. RowsAreDurable' /\ RequestsAreAboutPublished' /\ SweepTakesOnlyDead'
    BY <1>1 DEF RowsAreDurable, RequestsAreAboutPublished, SweepTakesOnlyDead,
      Expired, CreateStaging
  <2>. QED BY <2>1, <2>2, <2>3, <2>4, <2>5
<1>2. CASE WriteStaging
  <2>1. TypeOK'
    BY <1>2 DEF TypeOK, PublishIsUndisturbed, Contents, WriteStaging
  <2>2. PublishIsUndisturbed'
    BY <1>2 DEF PublishIsUndisturbed, TypeOK, WriteStaging
  <2>3. SweepSeesThemYoung'
    BY <1>2, StoreAssumption DEF SweepSeesThemYoung, TypeOK, WriteStaging
  <2>4. RowsAreDurable' /\ DirectoriesAreOwned' /\ RequestsAreAboutPublished' /\
        SweepTakesOnlyDead'
    BY <1>2 DEF RowsAreDurable, DirectoriesAreOwned, RequestsAreAboutPublished,
      SweepTakesOnlyDead, Expired, WriteStaging
  <2>. QED BY <2>1, <2>2, <2>3, <2>4
<1>3. CASE Replace
  <2>1. TypeOK'
    BY <1>3 DEF TypeOK, PublishIsUndisturbed, Contents, Replace
  <2>2. RowsAreDurable'
    BY <1>3 DEF RowsAreDurable, PublishIsUndisturbed, Replace
  <2>3. DirectoriesAreOwned'
    BY <1>3 DEF DirectoriesAreOwned, TypeOK, PublishIsUndisturbed, Replace
  <2>4. PublishIsUndisturbed'
    BY <1>3 DEF PublishIsUndisturbed, TypeOK, Replace
  <2>5. RequestsAreAboutPublished' /\ SweepSeesThemYoung' /\ SweepTakesOnlyDead'
    BY <1>3 DEF RequestsAreAboutPublished, SweepSeesThemYoung, SweepTakesOnlyDead,
      Expired, Replace
  <2>. QED BY <2>1, <2>2, <2>3, <2>4, <2>5
<1>4. CASE SyncArtifactsDir
  <2>1. TypeOK' /\ RowsAreDurable' /\ DirectoriesAreOwned' /\ PublishIsUndisturbed'
        /\ RequestsAreAboutPublished' /\ SweepSeesThemYoung' /\ SweepTakesOnlyDead'
    BY <1>4 DEF TypeOK, RowsAreDurable, DirectoriesAreOwned, PublishIsUndisturbed,
      RequestsAreAboutPublished, SweepSeesThemYoung, SweepTakesOnlyDead, Contents,
      Expired, SyncArtifactsDir
  <2>. QED BY <2>1
<1>5. CASE InsertRow
  <2>1. TypeOK'
    BY <1>5 DEF TypeOK, PublishIsUndisturbed, Contents, InsertRow, CreateReturns
  <2>2. RowsAreDurable'
    BY <1>5 DEF RowsAreDurable, PublishIsUndisturbed, InsertRow, CreateReturns
  <2>3. RequestsAreAboutPublished'
    BY <1>5, StoreAssumption DEF RequestsAreAboutPublished, TypeOK, InsertRow,
      CreateReturns
  <2>4. SweepSeesThemYoung'
    BY <1>5 DEF SweepSeesThemYoung, PublishIsUndisturbed, InsertRow, CreateReturns
  <2>5. SweepTakesOnlyDead'
    BY <1>5, StoreAssumption DEF SweepTakesOnlyDead, TypeOK, Expired, InsertRow,
      CreateReturns
  <2>6. DirectoriesAreOwned' /\ PublishIsUndisturbed'
    BY <1>5 DEF DirectoriesAreOwned, PublishIsUndisturbed, InsertRow, CreateReturns
  <2>. QED BY <2>1, <2>2, <2>3, <2>4, <2>5, <2>6
<1>6. CASE CreateFails
  <2>1. TypeOK' /\ RowsAreDurable' /\ DirectoriesAreOwned' /\ PublishIsUndisturbed'
        /\ RequestsAreAboutPublished' /\ SweepSeesThemYoung' /\ SweepTakesOnlyDead'
    BY <1>6 DEF TypeOK, RowsAreDurable, DirectoriesAreOwned, PublishIsUndisturbed,
      RequestsAreAboutPublished, SweepSeesThemYoung, SweepTakesOnlyDead, Contents,
      Expired, CreateFails, Fault
  <2>. QED BY <2>1
<1>7. CASE Unstage
  <2>1. DirectoriesAreOwned'
    BY <1>7 DEF DirectoriesAreOwned, TypeOK, Unstage, TearStaging, ClearStaging,
      CreateReturns, Fault
  <2>2. RequestsAreAboutPublished'
    BY <1>7, StoreAssumption DEF RequestsAreAboutPublished, TypeOK, Unstage,
      TearStaging, ClearStaging, CreateReturns, Fault
  <2>3. SweepSeesThemYoung'
    BY <1>7, StoreAssumption DEF SweepSeesThemYoung, TypeOK, PublishIsUndisturbed,
      Unstage, TearStaging, ClearStaging, CreateReturns, Fault
  <2>4. SweepTakesOnlyDead'
    BY <1>7, StoreAssumption DEF SweepTakesOnlyDead, TypeOK, Expired, Unstage,
      TearStaging, ClearStaging, CreateReturns, Fault
  <2>5. TypeOK' /\ RowsAreDurable' /\ PublishIsUndisturbed'
    BY <1>7 DEF TypeOK, RowsAreDurable, PublishIsUndisturbed, Contents, Unstage,
      TearStaging, ClearStaging, CreateReturns, Fault
  <2>. QED BY <2>1, <2>2, <2>3, <2>4, <2>5
<1>8. CASE UndoReplace
  <2>1. TypeOK'
    BY <1>8 DEF TypeOK, PublishIsUndisturbed, Contents, UndoReplace, TearArtifact,
      ClearArtifact, CreateReturns, Fault
  <2>2. RowsAreDurable'
    BY <1>8 DEF RowsAreDurable, TypeOK, PublishIsUndisturbed, UndoReplace,
      TearArtifact, ClearArtifact, CreateReturns, Fault
  <2>3. DirectoriesAreOwned'
    BY <1>8 DEF DirectoriesAreOwned, TypeOK, PublishIsUndisturbed, UndoReplace,
      TearArtifact, ClearArtifact, CreateReturns, Fault
  <2>4. RequestsAreAboutPublished'
    BY <1>8, StoreAssumption DEF RequestsAreAboutPublished, TypeOK, UndoReplace,
      TearArtifact, ClearArtifact, CreateReturns, Fault
  <2>5. SweepSeesThemYoung'
    BY <1>8, StoreAssumption DEF SweepSeesThemYoung, TypeOK, PublishIsUndisturbed,
      UndoReplace, TearArtifact, ClearArtifact, CreateReturns, Fault
  <2>6. SweepTakesOnlyDead'
    BY <1>8, StoreAssumption DEF SweepTakesOnlyDead, TypeOK, Expired, UndoReplace,
      TearArtifact, ClearArtifact, CreateReturns, Fault
  <2>7. PublishIsUndisturbed'
    BY <1>8 DEF PublishIsUndisturbed, UndoReplace, TearArtifact, ClearArtifact,
      CreateReturns, Fault
  <2>. QED BY <2>1, <2>2, <2>3, <2>4, <2>5, <2>6, <2>7
<1>. QED BY <1>1, <1>2, <1>3, <1>4, <1>5, <1>6, <1>7, <1>8 DEF Create

\* Every step of a request: a delete takes the bytes of nothing but the id whose
\* row it removed.
LEMMA WorkerKeepsInv ==
    ASSUME StoreInv, NEW w \in Workers, Worker(w)
    PROVE  StoreInv'
<1>. USE DEF StoreInv, disk, db, pub, work, sweep
<1>1. ASSUME NEW id \in Ids, LoadArtifact(w, id)
     PROVE  StoreInv'
  <2>1. RequestsAreAboutPublished'
    BY <1>1, StoreAssumption DEF RequestsAreAboutPublished, TypeOK, RowsAreDurable,
      PublishIsUndisturbed, Expired, LoadArtifact
  <2>2. TypeOK' /\ RowsAreDurable' /\ DirectoriesAreOwned' /\ PublishIsUndisturbed'
        /\ SweepSeesThemYoung' /\ SweepTakesOnlyDead'
    BY <1>1 DEF TypeOK, RowsAreDurable, DirectoriesAreOwned, PublishIsUndisturbed,
      SweepSeesThemYoung, SweepTakesOnlyDead, Contents, Expired, LoadArtifact
  <2>. QED BY <2>1, <2>2
<1>2. CASE ListAssets(w)
  <2>1. TypeOK' /\ RowsAreDurable' /\ DirectoriesAreOwned' /\ PublishIsUndisturbed'
        /\ RequestsAreAboutPublished' /\ SweepSeesThemYoung' /\ SweepTakesOnlyDead'
    BY <1>2 DEF TypeOK, RowsAreDurable, DirectoriesAreOwned, PublishIsUndisturbed,
      RequestsAreAboutPublished, SweepSeesThemYoung, SweepTakesOnlyDead, Contents,
      Expired, ListAssets
  <2>. QED BY <2>1
<1>3. CASE ReadSource(w)
  <2>1. RequestsAreAboutPublished'
    BY <1>3 DEF RequestsAreAboutPublished, TypeOK, RowsAreDurable, ReadSource
  <2>2. TypeOK' /\ RowsAreDurable' /\ DirectoriesAreOwned' /\ PublishIsUndisturbed'
        /\ SweepSeesThemYoung' /\ SweepTakesOnlyDead'
    BY <1>3 DEF TypeOK, RowsAreDurable, DirectoriesAreOwned, PublishIsUndisturbed,
      SweepSeesThemYoung, SweepTakesOnlyDead, Contents, Expired, ReadSource
  <2>. QED BY <2>1, <2>2
<1>4. CASE Respond(w)
  <2>1. RequestsAreAboutPublished'
    BY <1>4 DEF RequestsAreAboutPublished, TypeOK, Respond, RequestEnds
  <2>2. TypeOK' /\ RowsAreDurable' /\ DirectoriesAreOwned' /\ PublishIsUndisturbed'
        /\ SweepSeesThemYoung' /\ SweepTakesOnlyDead'
    BY <1>4 DEF TypeOK, RowsAreDurable, DirectoriesAreOwned, PublishIsUndisturbed,
      SweepSeesThemYoung, SweepTakesOnlyDead, Contents, Expired, Respond,
      RequestEnds
  <2>. QED BY <2>1, <2>2
<1>5. ASSUME NEW id \in Ids, DeleteRow(w, id)
     PROVE  StoreInv'
  <2>1. RequestsAreAboutPublished'
    BY <1>5 DEF RequestsAreAboutPublished, TypeOK, DeleteRow
  <2>2. TypeOK' /\ RowsAreDurable' /\ DirectoriesAreOwned' /\ PublishIsUndisturbed'
        /\ SweepSeesThemYoung' /\ SweepTakesOnlyDead'
    BY <1>5 DEF TypeOK, RowsAreDurable, DirectoriesAreOwned, PublishIsUndisturbed,
      SweepSeesThemYoung, SweepTakesOnlyDead, Contents, Expired, DeleteRow
  <2>. QED BY <2>1, <2>2
<1>6. CASE DeleteBytes(w)
  <2>1. TypeOK'
    BY <1>6 DEF TypeOK, RequestsAreAboutPublished, Contents, DeleteBytes,
      TearArtifact, ClearArtifact, RequestEnds, Fault
  <2>2. RowsAreDurable'
    BY <1>6 DEF RowsAreDurable, TypeOK, RequestsAreAboutPublished, DeleteBytes,
      TearArtifact, ClearArtifact, RequestEnds, Fault
  <2>3. DirectoriesAreOwned'
    BY <1>6 DEF DirectoriesAreOwned, TypeOK, RequestsAreAboutPublished, DeleteBytes,
      TearArtifact, ClearArtifact, RequestEnds, Fault
  <2>4. PublishIsUndisturbed'
    BY <1>6 DEF PublishIsUndisturbed, TypeOK, RequestsAreAboutPublished,
      DeleteBytes, TearArtifact, ClearArtifact, RequestEnds, Fault
  <2>5. RequestsAreAboutPublished'
    BY <1>6 DEF RequestsAreAboutPublished, TypeOK, DeleteBytes, TearArtifact,
      ClearArtifact, RequestEnds, Fault
  <2>6. SweepSeesThemYoung'
    BY <1>6 DEF SweepSeesThemYoung, TypeOK, RequestsAreAboutPublished, DeleteBytes,
      TearArtifact, ClearArtifact, RequestEnds, Fault
  <2>7. SweepTakesOnlyDead'
    BY <1>6 DEF SweepTakesOnlyDead, Expired, DeleteBytes, TearArtifact,
      ClearArtifact, RequestEnds, Fault
  <2>. QED BY <2>1, <2>2, <2>3, <2>4, <2>5, <2>6, <2>7
<1>. QED BY <1>1, <1>2, <1>3, <1>4, <1>5, <1>6 DEF Worker

\* Every step of a sweep.  The visits rest on SweepSeesThemYoung, the removals on
\* SweepTakesOnlyDead.
LEMMA JanitorKeepsInv ==
    ASSUME StoreInv, Janitor
    PROVE  StoreInv'
<1>. USE DEF StoreInv, disk, db, pub, work, sweep
<1>1. CASE SubmitSweep
  <2>1. SweepSeesThemYoung'
    BY <1>1, StoreAssumption DEF SweepSeesThemYoung, TypeOK, PublishIsUndisturbed,
      SubmitSweep
  <2>2. TypeOK' /\ RowsAreDurable' /\ DirectoriesAreOwned' /\ PublishIsUndisturbed'
        /\ RequestsAreAboutPublished' /\ SweepTakesOnlyDead'
    BY <1>1 DEF TypeOK, RowsAreDurable, DirectoriesAreOwned, PublishIsUndisturbed,
      RequestsAreAboutPublished, SweepTakesOnlyDead, Contents, Expired, SubmitSweep
  <2>. QED BY <2>1, <2>2
<1>2. CASE StartSweep
  <2>1. SweepSeesThemYoung'
    BY <1>2, StoreAssumption DEF SweepSeesThemYoung, TypeOK, Expired, StartSweep
  <2>2. SweepTakesOnlyDead'
    BY <1>2, StoreAssumption DEF SweepTakesOnlyDead, TypeOK, RowsAreDurable,
      PublishIsUndisturbed, Expired, StartSweep
  <2>3. TypeOK' /\ RowsAreDurable' /\ DirectoriesAreOwned' /\ PublishIsUndisturbed'
        /\ RequestsAreAboutPublished'
    BY <1>2 DEF TypeOK, RowsAreDurable, DirectoriesAreOwned, PublishIsUndisturbed,
      RequestsAreAboutPublished, Contents, Expired, StartSweep
  <2>. QED BY <2>1, <2>2, <2>3
<1>3. CASE ExpireRow
  <2>1. TypeOK' /\ RowsAreDurable' /\ DirectoriesAreOwned' /\ PublishIsUndisturbed'
        /\ RequestsAreAboutPublished' /\ SweepSeesThemYoung' /\ SweepTakesOnlyDead'
    BY <1>3 DEF TypeOK, RowsAreDurable, DirectoriesAreOwned, PublishIsUndisturbed,
      RequestsAreAboutPublished, SweepSeesThemYoung, SweepTakesOnlyDead, Contents,
      Expired, ExpireRow
  <2>. QED BY <2>1
<1>4. CASE SweepRmtree
  <2>1. TypeOK'
    BY <1>4 DEF TypeOK, SweepTakesOnlyDead, Contents, SweepRmtree, TearArtifact,
      ClearArtifact, TearStaging, ClearStaging, Fault
  <2>2. RowsAreDurable'
    BY <1>4 DEF RowsAreDurable, TypeOK, SweepTakesOnlyDead, SweepRmtree,
      TearArtifact, ClearArtifact, TearStaging, ClearStaging, Fault
  <2>3. DirectoriesAreOwned'
    BY <1>4 DEF DirectoriesAreOwned, TypeOK, SweepTakesOnlyDead, SweepRmtree,
      TearArtifact, ClearArtifact, TearStaging, ClearStaging, Fault
  <2>4. PublishIsUndisturbed'
    BY <1>4 DEF PublishIsUndisturbed, TypeOK, SweepTakesOnlyDead, SweepRmtree,
      TearArtifact, ClearArtifact, TearStaging, ClearStaging, Fault
  <2>5. SweepSeesThemYoung'
    BY <1>4 DEF SweepSeesThemYoung, TypeOK, SweepTakesOnlyDead, SweepRmtree,
      TearArtifact, ClearArtifact, TearStaging, ClearStaging, Fault
  <2>6. RequestsAreAboutPublished' /\ SweepTakesOnlyDead'
    BY <1>4 DEF RequestsAreAboutPublished, SweepTakesOnlyDead, Expired, SweepRmtree,
      TearArtifact, ClearArtifact, TearStaging, ClearStaging, Fault
  <2>. QED BY <2>1, <2>2, <2>3, <2>4, <2>5, <2>6
<1>5. CASE ReadKnownIds
  <2>1. TypeOK' /\ RowsAreDurable' /\ DirectoriesAreOwned' /\ PublishIsUndisturbed'
        /\ RequestsAreAboutPublished' /\ SweepSeesThemYoung' /\ SweepTakesOnlyDead'
    BY <1>5 DEF TypeOK, RowsAreDurable, DirectoriesAreOwned, PublishIsUndisturbed,
      RequestsAreAboutPublished, SweepSeesThemYoung, SweepTakesOnlyDead, Contents,
      Expired, ReadKnownIds
  <2>. QED BY <2>1
<1>6. CASE ListArtifacts
  <2>1. TypeOK' /\ RowsAreDurable' /\ DirectoriesAreOwned' /\ PublishIsUndisturbed'
        /\ RequestsAreAboutPublished' /\ SweepSeesThemYoung' /\ SweepTakesOnlyDead'
    BY <1>6 DEF TypeOK, RowsAreDurable, DirectoriesAreOwned, PublishIsUndisturbed,
      RequestsAreAboutPublished, SweepSeesThemYoung, SweepTakesOnlyDead, Contents,
      Expired, ListArtifacts
  <2>. QED BY <2>1
<1>7. CASE VisitArtifact
  <2>1. SweepTakesOnlyDead'
    BY <1>7, StoreAssumption DEF SweepTakesOnlyDead, TypeOK, DirectoriesAreOwned,
      SweepSeesThemYoung, Expired, VisitArtifact, Orphaned
  <2>2. TypeOK' /\ RowsAreDurable' /\ DirectoriesAreOwned' /\ PublishIsUndisturbed'
        /\ RequestsAreAboutPublished' /\ SweepSeesThemYoung'
    BY <1>7 DEF TypeOK, RowsAreDurable, DirectoriesAreOwned, PublishIsUndisturbed,
      RequestsAreAboutPublished, SweepSeesThemYoung, Contents, VisitArtifact,
      Orphaned
  <2>. QED BY <2>1, <2>2
<1>8. CASE ListStaging
  <2>1. TypeOK' /\ RowsAreDurable' /\ DirectoriesAreOwned' /\ PublishIsUndisturbed'
        /\ RequestsAreAboutPublished' /\ SweepSeesThemYoung' /\ SweepTakesOnlyDead'
    BY <1>8 DEF TypeOK, RowsAreDurable, DirectoriesAreOwned, PublishIsUndisturbed,
      RequestsAreAboutPublished, SweepSeesThemYoung, SweepTakesOnlyDead, Contents,
      Expired, ListStaging
  <2>. QED BY <2>1
<1>9. CASE VisitStaging
  <2>1. SweepTakesOnlyDead'
    BY <1>9, StoreAssumption DEF SweepTakesOnlyDead, TypeOK, DirectoriesAreOwned,
      SweepSeesThemYoung, Expired, VisitStaging, Abandoned
  <2>2. TypeOK' /\ RowsAreDurable' /\ DirectoriesAreOwned' /\ PublishIsUndisturbed'
        /\ RequestsAreAboutPublished' /\ SweepSeesThemYoung'
    BY <1>9 DEF TypeOK, RowsAreDurable, DirectoriesAreOwned, PublishIsUndisturbed,
      RequestsAreAboutPublished, SweepSeesThemYoung, Contents, VisitStaging,
      Abandoned
  <2>. QED BY <2>1, <2>2
<1>10. CASE EndSweep
  <2>1. SweepSeesThemYoung'
    BY <1>10 DEF SweepSeesThemYoung, TypeOK, EndSweep, SweepReturns
  <2>2. TypeOK' /\ RowsAreDurable' /\ DirectoriesAreOwned' /\ PublishIsUndisturbed'
        /\ RequestsAreAboutPublished' /\ SweepTakesOnlyDead'
    BY <1>10 DEF TypeOK, RowsAreDurable, DirectoriesAreOwned, PublishIsUndisturbed,
      RequestsAreAboutPublished, SweepTakesOnlyDead, Contents, Expired, EndSweep,
      SweepReturns
  <2>. QED BY <2>1, <2>2
<1>11. CASE AbortSweep
  <2>1. SweepSeesThemYoung'
    BY <1>11 DEF SweepSeesThemYoung, TypeOK, AbortSweep, SweepReturns, Fault
  <2>2. TypeOK' /\ RowsAreDurable' /\ DirectoriesAreOwned' /\ PublishIsUndisturbed'
        /\ RequestsAreAboutPublished' /\ SweepTakesOnlyDead'
    BY <1>11 DEF TypeOK, RowsAreDurable, DirectoriesAreOwned, PublishIsUndisturbed,
      RequestsAreAboutPublished, SweepTakesOnlyDead, Contents, Expired, AbortSweep,
      SweepReturns, Fault
  <2>. QED BY <2>1, <2>2
<1>. QED BY <1>1, <1>2, <1>3, <1>4, <1>5, <1>6, <1>7, <1>8, <1>9, <1>10, <1>11 DEF
    Janitor

\* The inductive invariant holds initially and every step keeps it.
THEOREM StoreInvariant == Spec => []StoreInv
<1>1. Init => StoreInv
  <2>. SUFFICES ASSUME Init PROVE StoreInv
    OBVIOUS
  <2>1. TypeOK
    BY StoreAssumption DEF Init, TypeOK, Contents
  <2>2. RowsAreDurable /\ DirectoriesAreOwned /\ PublishIsUndisturbed
    BY DEF Init, RowsAreDurable, DirectoriesAreOwned, PublishIsUndisturbed
  <2>3. RequestsAreAboutPublished /\ SweepSeesThemYoung /\ SweepTakesOnlyDead
    BY DEF Init, RequestsAreAboutPublished, SweepSeesThemYoung, SweepTakesOnlyDead
  <2>. QED BY <2>1, <2>2, <2>3 DEF StoreInv
<1>2. StoreInv /\ [Next]_vars => StoreInv'
  <2>. SUFFICES ASSUME StoreInv, [Next]_vars PROVE StoreInv'
    OBVIOUS
  <2>1. CASE Next
    BY <2>1, EnvironmentKeepsInv, CreateKeepsInv, WorkerKeepsInv, JanitorKeepsInv DEF Next
  <2>2. CASE UNCHANGED vars
    BY <2>2 DEF vars, disk, db, pub, work, sweep, StoreInv, TypeOK, RowsAreDurable,
      DirectoriesAreOwned, PublishIsUndisturbed, RequestsAreAboutPublished,
      SweepSeesThemYoung, SweepTakesOnlyDead, Expired
  <2>. QED BY <2>1, <2>2
<1>. QED BY <1>1, <1>2, PTL DEF Spec

\* Every variable keeps its type.
THEOREM StoreTypeOK == Spec => []TypeOK
<1>1. StoreInv => TypeOK
  BY DEF StoreInv
<1>. QED BY <1>1, StoreInvariant, PTL

\* storage.py's promise: no committed row without its bytes, whatever the janitor,
\* the deleters, kills and power losses do.
THEOREM StoreRowsHaveBytes == Spec => []RowsHaveBytes
<1>1. StoreInv => RowsHaveBytes
  BY DEF StoreInv, RowsAreDurable, RowsHaveBytes
<1>. QED BY <1>1, StoreInvariant, PTL

\* A reader is given less than the artifact only after it was deleted.
THEOREM StoreReadersGetLive == Spec => []ReadersGetLiveArtifacts
<1>1. StoreInv => ReadersGetLiveArtifacts
  BY DEF StoreInv, RequestsAreAboutPublished, ReadersGetLiveArtifacts
<1>. QED BY <1>1, StoreInvariant, PTL

\* A sweep deletes only what has expired and erases only what has no row.
THEOREM StoreSweepSparesLive == Spec => SweepSparesLive
<1> DEFINE Spares(id) ==
        /\ Janitor /\ id \in rows \ rows' => Expired(id, now)
        /\ Janitor /\ art'[id] # art[id] => id \notin rows
<1>1. ASSUME StoreInv, Janitor, NEW id \in Ids
      PROVE  Spares(id)
  <2>1. CASE ExpireRow
    BY <1>1, <2>1 DEF ExpireRow, disk, StoreInv, SweepTakesOnlyDead
  <2>2. CASE SweepRmtree
    BY <1>1, <2>2 DEF SweepRmtree, TearArtifact, ClearArtifact, TearStaging, ClearStaging,
      db, StoreInv, TypeOK, SweepTakesOnlyDead
  <2>3. CASE UNCHANGED <<rows, art>>
    BY <2>3
  <2>4. Janitor => ExpireRow \/ SweepRmtree \/ UNCHANGED <<rows, art>>
    BY DEF Janitor, SubmitSweep, StartSweep, ReadKnownIds, ListArtifacts, VisitArtifact,
      ListStaging, VisitStaging, EndSweep, AbortSweep, disk, db
  <2>. QED BY <1>1, <2>1, <2>2, <2>3, <2>4
<1>2. StoreInv /\ [Next]_vars => [\A id \in Ids : Spares(id)]_vars
  BY <1>1
<1>. QED BY <1>2, StoreInvariant, PTL DEF Spec, SweepSparesLive

(***************************************************************************)
(* Refinement: each step of the store is a step of ArtifactLifecycle, or   *)
(* changes nothing a caller can see.                                       *)
(***************************************************************************)

\* Steps on the disk and inside the sweep are invisible.
LEMMA InvisibleStep ==
    ASSUME UNCHANGED <<rows, used, cid, wpc, wid>>
    PROVE  UNCHANGED Lifecycle!vars
<1>1. /\ \A id : StatusOf(id)' = StatusOf(id)
      /\ \A w : RequestOf(w)' = RequestOf(w) /\ TargetOf(w)' = TargetOf(w)
  BY DEF StatusOf, RequestOf, TargetOf
<1>. QED BY <1>1 DEF Lifecycle!vars, Statuses, Requests, Targets

\* A removed row is a Remove, whoever removes it.
LEMMA RemovedRow ==
    ASSUME StoreInv, NEW id \in rows, rows' = rows \ {id}, UNCHANGED <<used, cid>>
    PROVE  /\ Statuses[id] = "live"
           /\ Statuses' = [Statuses EXCEPT ![id] = "gone"]
<1>1. id \in Ids /\ id \in used /\ id # cid
  BY StoreAssumption DEF StoreInv, TypeOK, RowsAreDurable, PublishIsUndisturbed
<1>2. StatusOf(id) = "live" /\ StatusOf(id)' = "gone"
  BY <1>1 DEF StatusOf
<1>3. \A other \in Ids \ {id} : StatusOf(other)' = StatusOf(other)
  BY DEF StatusOf
<1>. QED BY <1>1, <1>2, <1>3 DEF Statuses

\* The end of a publish settles the status of its id, one way or the other.
LEMMA PublishSettles ==
    ASSUME StoreInv, cid # None, cid' = None, UNCHANGED used,
           rows' = rows \/ rows' = rows \cup {cid}
    PROVE  /\ cid \in Ids /\ Statuses[cid] = "fresh"
           /\ \E s \in {"live", "gone"} : Statuses' = [Statuses EXCEPT ![cid] = s]
<1>1. cid \in Ids /\ cid \in used /\ cid \notin rows
  BY DEF StoreInv, TypeOK, PublishIsUndisturbed
<1>2. StatusOf(cid) = "fresh"
  BY <1>1 DEF StatusOf
<1>3. \A other \in Ids \ {cid} : StatusOf(other)' = StatusOf(other)
  BY StoreAssumption DEF StatusOf
<1>4. CASE rows' = rows
  <2>1. Statuses' = [id \in Ids |-> IF id = cid THEN "gone" ELSE StatusOf(id)]
    BY <1>1, <1>3, <1>4, StoreAssumption DEF StatusOf, Statuses
  <2>. QED BY <1>1, <1>2, <2>1 DEF Statuses
<1>5. CASE rows' = rows \cup {cid}
  <2>1. Statuses' = [id \in Ids |-> IF id = cid THEN "live" ELSE StatusOf(id)]
    BY <1>1, <1>3, <1>5, StoreAssumption DEF StatusOf, Statuses
  <2>. QED BY <1>1, <1>2, <2>1 DEF Statuses
<1>. QED BY <1>4, <1>5

\* Requests other than w's own look the same after a step of w.
LEMMA OnlyOneRequest ==
    ASSUME NEW w \in Workers, StoreInv,
           NEW p, NEW i, wpc' = [wpc EXCEPT ![w] = p], wid' = [wid EXCEPT ![w] = i]
    PROVE  /\ Requests' = [Requests EXCEPT ![w] = RequestOf(w)']
           /\ Targets' = [Targets EXCEPT ![w] = TargetOf(w)']
<1>1. \A v \in Workers \ {w} : RequestOf(v)' = RequestOf(v) /\ TargetOf(v)' = TargetOf(v)
  BY DEF StoreInv, TypeOK, RequestOf, TargetOf
<1>. QED BY <1>1 DEF Requests, Targets

LEMMA CreateRefines ==
    ASSUME StoreInv, Create
    PROVE  [Lifecycle!Next]_Lifecycle!vars
<1>. USE DEF disk, db, work, pub
<1>1. ASSUME NEW id \in Ids, NEW e, CreateStaging(id, e)
     PROVE  UNCHANGED Lifecycle!vars
  <2>1. \A other \in Ids : StatusOf(other)' = StatusOf(other)
    BY <1>1, StoreAssumption
      DEF CreateStaging, StatusOf, StoreInv, RowsAreDurable, PublishIsUndisturbed
  <2>2. \A w \in Workers : RequestOf(w)' = RequestOf(w) /\ TargetOf(w)' = TargetOf(w)
    BY <1>1 DEF CreateStaging, RequestOf, TargetOf
  <2>. QED BY <2>1, <2>2 DEF Lifecycle!vars, Statuses, Requests, Targets
<1>2. CASE \/ WriteStaging \/ Replace \/ SyncArtifactsDir \/ CreateFails
           \/ (Unstage \/ UndoReplace) /\ UNCHANGED pub
  <2>1. UNCHANGED <<rows, used, cid, wpc, wid>>
    BY <1>2 DEF WriteStaging, Replace, SyncArtifactsDir, CreateFails, Unstage, UndoReplace
  <2>. QED BY <2>1, InvisibleStep
<1>3. CASE \/ InsertRow
           \/ (Unstage \/ UndoReplace) /\ CreateReturns
  <2>1. cid # None
    BY <1>3 DEF InsertRow, Unstage, UndoReplace, StoreInv, PublishIsUndisturbed
  <2>2. cid' = None /\ UNCHANGED <<used, wpc, wid>> /\ (rows' = rows \/ rows' = rows \cup {cid})
    BY <1>3 DEF InsertRow, Unstage, UndoReplace, CreateReturns
  <2>3. UNCHANGED <<Requests, Targets>>
    BY <2>2 DEF Requests, Targets, RequestOf, TargetOf
  <2>. QED BY <2>1, <2>2, <2>3, PublishSettles DEF Lifecycle!Next, Lifecycle!Publish
<1>4. Unstage \/ UndoReplace =>
        \/ (Unstage \/ UndoReplace) /\ UNCHANGED pub
        \/ (Unstage \/ UndoReplace) /\ CreateReturns
  BY DEF Unstage, UndoReplace
<1>5. CASE \E id \in Ids, e \in {now + t : t \in Lifetimes} \cup {None} : CreateStaging(id, e)
  BY <1>1, <1>5
<1>. QED BY <1>2, <1>3, <1>4, <1>5 DEF Create

LEMMA WorkerRefines ==
    ASSUME StoreInv, NEW w \in Workers, Worker(w)
    PROVE  [Lifecycle!Next]_Lifecycle!vars
<1>. USE DEF disk, db, pub
<1>1. ASSUME NEW id \in Ids, LoadArtifact(w, id)
     PROVE  Lifecycle!Open(w, id)
  <2>1. /\ Requests[w] = "idle" /\ Statuses[id] = "live"
        /\ RequestOf(w)' = "opened" /\ TargetOf(w)' = id
    BY <1>1 DEF LoadArtifact, Requests, RequestOf, TargetOf, Statuses, StatusOf,
      StoreInv, TypeOK
  <2>2. UNCHANGED Statuses
    BY <1>1 DEF LoadArtifact, Statuses, StatusOf
  <2>3. wpc' = [wpc EXCEPT ![w] = "opened"] /\ wid' = [wid EXCEPT ![w] = id]
    BY <1>1 DEF LoadArtifact
  <2>. QED BY <2>1, <2>2, <2>3, OnlyOneRequest DEF Lifecycle!Open
<1>2. CASE ListAssets(w)
  <2>1. \A v \in Workers : RequestOf(v)' = RequestOf(v) /\ TargetOf(v)' = TargetOf(v)
    BY <1>2 DEF ListAssets, RequestOf, TargetOf, StoreInv, TypeOK
  <2>2. UNCHANGED Statuses
    BY <1>2 DEF ListAssets, Statuses, StatusOf
  <2>. QED BY <2>1, <2>2 DEF Lifecycle!vars, Requests, Targets
<1>3. CASE ReadSource(w)
  <2>1. PICK answer \in {"served", "partial", "missing"} :
          /\ wpc' = [wpc EXCEPT ![w] = answer]
          /\ answer # "served" => wpc[w] = "bare" \/ art[wid[w]] # "whole"
    BY <1>3 DEF ReadSource
  <2>2. wpc[w] \in {"listed", "bare"} /\ UNCHANGED <<rows, used, cid, wid>>
    BY <1>3 DEF ReadSource
  <2>3. wid[w] \in Ids /\ wid[w] \in used /\ wid[w] # cid
    BY <2>2 DEF StoreInv, TypeOK, RequestsAreAboutPublished
  <2>4. answer # "served" => wid[w] \notin rows
    BY <2>1, <2>2 DEF StoreInv, RowsAreDurable, RequestsAreAboutPublished
  <2>5. Requests[w] = "opened" /\ Targets[w] = wid[w]
    BY <2>2 DEF Requests, RequestOf, Targets, TargetOf
  <2>6. answer # "served" => Statuses[Targets[w]] = "gone"
    BY <2>3, <2>4, <2>5 DEF Statuses, StatusOf
  <2>7. RequestOf(w)' = answer /\ TargetOf(w)' = wid[w]
    BY <2>1, <2>2 DEF RequestOf, TargetOf, StoreInv, TypeOK
  <2>8. wid' = [wid EXCEPT ![w] = wid[w]] /\ UNCHANGED Statuses
    BY <2>2 DEF StoreInv, TypeOK, Statuses, StatusOf
  <2>9. /\ Requests' = [Requests EXCEPT ![w] = answer]
        /\ Targets' = [Targets EXCEPT ![w] = Targets[w]]
    BY <2>1, <2>5, <2>7, <2>8, OnlyOneRequest
  <2>10. UNCHANGED Targets
    BY <2>9 DEF Targets
  <2>11. Lifecycle!Answer(w, answer)
    BY <2>5, <2>6, <2>8, <2>9, <2>10 DEF Lifecycle!Answer
  <2>. QED BY <2>1, <2>11 DEF Lifecycle!Next, Lifecycle!Answers
<1>4. CASE Respond(w)
  <2>1. /\ Requests[w] \in {"served", "partial", "missing"}
        /\ RequestOf(w)' = "idle" /\ TargetOf(w)' = None
    BY <1>4 DEF Respond, RequestEnds, Requests, RequestOf, TargetOf, StoreInv, TypeOK
  <2>2. wpc' = [wpc EXCEPT ![w] = "idle"] /\ wid' = [wid EXCEPT ![w] = None]
    BY <1>4 DEF Respond, RequestEnds
  <2>3. UNCHANGED Statuses
    BY <1>4 DEF Respond, Statuses, StatusOf
  <2>4. Lifecycle!Close(w)
    BY <2>1, <2>2, <2>3, OnlyOneRequest DEF Lifecycle!Close, Lifecycle!Answers
  <2>. QED BY <2>4 DEF Lifecycle!Next
<1>5. ASSUME NEW id \in Ids, DeleteRow(w, id)
     PROVE  [Lifecycle!Next]_Lifecycle!vars
  <2>1. \A v \in Workers : RequestOf(v)' = RequestOf(v) /\ TargetOf(v)' = TargetOf(v)
    BY <1>5 DEF DeleteRow, RequestOf, TargetOf, StoreInv, TypeOK
  <2>2. UNCHANGED <<Requests, Targets>>
    BY <2>1 DEF Requests, Targets
  <2>3. CASE id \in rows
    BY <1>5, <2>2, <2>3, RemovedRow DEF DeleteRow, Lifecycle!Next, Lifecycle!Remove
  <2>4. CASE id \notin rows
    BY <1>5, <2>2, <2>4 DEF DeleteRow, Lifecycle!vars, Statuses, StatusOf
  <2>. QED BY <2>3, <2>4
<1>6. CASE DeleteBytes(w)
  <2>1. \A v \in Workers : RequestOf(v)' = RequestOf(v) /\ TargetOf(v)' = TargetOf(v)
    BY <1>6 DEF DeleteBytes, RequestEnds, RequestOf, TargetOf, StoreInv, TypeOK, work
  <2>2. UNCHANGED Statuses
    BY <1>6 DEF DeleteBytes, Statuses, StatusOf
  <2>. QED BY <2>1, <2>2 DEF Lifecycle!vars, Requests, Targets
<1>. QED BY <1>1, <1>2, <1>3, <1>4, <1>5, <1>6 DEF Worker, Lifecycle!Next

LEMMA JanitorRefines ==
    ASSUME StoreInv, Janitor
    PROVE  [Lifecycle!Next]_Lifecycle!vars
<1>. USE DEF disk, db, pub, work
<1>1. CASE ExpireRow
  <2>1. PICK id \in todo : rows' = rows \ {id}
    BY <1>1 DEF ExpireRow
  <2>2. UNCHANGED <<used, cid, wpc, wid>>
    BY <1>1 DEF ExpireRow
  <2>3. UNCHANGED <<Requests, Targets>>
    BY <2>2 DEF Requests, Targets, RequestOf, TargetOf
  <2>4. CASE id \in rows
    <3>1. Lifecycle!Remove(id)
      BY <2>1, <2>2, <2>3, <2>4, RemovedRow DEF Lifecycle!Remove
    <3>. QED BY <3>1, <2>4 DEF Lifecycle!Next, StoreInv, TypeOK
  <2>5. CASE id \notin rows
    BY <2>1, <2>2, <2>5, InvisibleStep
  <2>. QED BY <2>4, <2>5
<1>2. CASE UNCHANGED <<rows, used, cid, wpc, wid>>
  BY <1>2, InvisibleStep
<1>3. Janitor => ExpireRow \/ UNCHANGED <<rows, used, cid, wpc, wid>>
  BY DEF Janitor, SubmitSweep, StartSweep, SweepRmtree, ReadKnownIds, ListArtifacts,
    VisitArtifact, ListStaging, VisitStaging, EndSweep, AbortSweep
<1>. QED BY <1>1, <1>2, <1>3

LEMMA StoppingRefines ==
    ASSUME StoreInv, Stopped
    PROVE  Lifecycle!Die
<1>1. /\ wpc' = [w \in Workers |-> "idle"] /\ wid' = [w \in Workers |-> None]
      /\ cid' = None /\ UNCHANGED <<rows, used>>
  BY DEF Stopped, CreateReturns, db
<1>2. \A w \in Workers : RequestOf(w)' = "idle" /\ TargetOf(w)' = None
  BY <1>1 DEF RequestOf, TargetOf
<1>3. Requests' = [w \in Workers |-> "idle"] /\ Targets' = [w \in Workers |-> None]
  BY <1>2 DEF Requests, Targets
<1>4. CASE cid = None
  BY <1>1, <1>3, <1>4 DEF Lifecycle!Die, Statuses, StatusOf
<1>5. CASE cid # None
  <2>1. PICK s \in {"live", "gone"} : Statuses' = [Statuses EXCEPT ![cid] = s]
    BY <1>1, <1>5, PublishSettles
  <2>2. cid \in Ids /\ cid \in used /\ cid \notin rows
    BY <1>5 DEF StoreInv, TypeOK, PublishIsUndisturbed
  <2>3. Statuses[cid] = "fresh" /\ Statuses'[cid] = "gone"
    BY <1>1, <2>2, StoreAssumption DEF Statuses, StatusOf
  <2>4. Statuses' = [Statuses EXCEPT ![cid] = "gone"]
    BY <2>1, <2>2, <2>3 DEF Statuses
  <2>. QED BY <1>3, <2>2, <2>3, <2>4 DEF Lifecycle!Die
<1>. QED BY <1>4, <1>5

\* Callers of the store see ArtifactLifecycle, whatever happens underneath.
THEOREM StoreImplementsLifecycle == Spec => ImplementsLifecycle
<1>1. Init => Lifecycle!Init
  BY DEF Init, Lifecycle!Init, Statuses, Requests, Targets, StatusOf, RequestOf, TargetOf
<1>2. StoreInv /\ [Next]_vars => [Lifecycle!Next]_Lifecycle!vars
  <2>. SUFFICES ASSUME StoreInv, [Next]_vars
                PROVE  [Lifecycle!Next]_Lifecycle!vars
    OBVIOUS
  <2>1. CASE Create
    BY <2>1, CreateRefines
  <2>2. CASE \E w \in Workers : Worker(w)
    BY <2>2, WorkerRefines
  <2>3. CASE Janitor
    BY <2>3, JanitorRefines
  <2>4. CASE Kill \/ PowerLoss
    BY <2>4, StoppingRefines DEF Kill, PowerLoss, Lifecycle!Next
  <2>5. CASE Tick \/ Boot \/ UNCHANGED vars
    <3>1. UNCHANGED <<rows, used, cid, wpc, wid>>
      BY <2>5 DEF Tick, Boot, vars, disk, db, pub, work
    <3>. QED BY <3>1, InvisibleStep
  <2>. QED BY <2>1, <2>2, <2>3, <2>4, <2>5 DEF Next
<1>. QED BY <1>1, <1>2, StoreInvariant, PTL DEF Spec, ImplementsLifecycle, Lifecycle!Spec
=============================================================================
