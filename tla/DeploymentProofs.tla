-------------------------- MODULE DeploymentProofs --------------------------
(* Theorems about Deployment, for every value of its constants.            *)
EXTENDS Deployment, TLAPS

-----------------------------------------------------------------------------
(* The warehouse side *)

(* Writing a well-typed record for one task keeps call well-typed.         *)
LEMMA CallUpdated ==
    ASSUME NEW t \in Tasks, NEW c,
           WarehouseTypeOK, CallTypeOK(c), call' = [call EXCEPT ![t] = c]
    PROVE  /\ call' \in [Tasks -> Call]
           /\ \A u \in Tasks : CallTypeOK(call'[u])
BY DEF WarehouseTypeOK, CallTypeOK

LEMMA PCs ==
    /\ {"enable", "insertQueries", "tiles", "startJob", "createJob", "backfill", "populate"}
         \subseteq RunningPCs
    /\ {"disable", "removeQueries", "deleteQuery", "stopTiles", "stopJob", "deleteJob"}
         \subseteq RunningPCs
    /\ RunningPCs \cup {"idle", "returned", "raised"} = CallPCs
    /\ TilePCs \subseteq RunningPCs
    /\ \A pc \in {"idle", "returned", "raised"} : pc \notin RunningPCs
BY DEF RunningPCs, EnablePCs, DisablePCs, CallPCs, TilePCs

LEMMA EndedTyped == \A pc \in {"returned", "raised"} : CallTypeOK(Ended(pc))
BY PCs DEF CallTypeOK, Ended, IdleCall, Call, None, TilePCs, TileTypes

(* A job, and a stopped job, leave the loop in a state it may be in.       *)
LEMMA AfterTyped ==
    ASSUME NEW c, CallTypeOK(c), c.pc \in TilePCs
    PROVE  CallTypeOK(AfterJob(c)) /\ CallTypeOK(AfterStop(c))
<1>1. c.feature \in Features /\ c.tile \in Tiles
  BY PCs DEF CallTypeOK
<1>2. CallTypeOK(AfterJob(c))
  BY <1>1, PCs DEF CallTypeOK, AfterJob, Call, TilePCs, TileTypes
<1>3. CallTypeOK(AfterStop(c))
  BY <1>1, PCs DEF CallTypeOK, AfterStop, Call, TilePCs, TileTypes, None
<1> QED
  BY <1>2, <1>3

LEMMA JobsUpdated ==
    ASSUME WarehouseTypeOK, NEW k \in Tiles, NEW y \in TileTypes, NEW docs \in SUBSET Tasks
    PROVE  [jobs EXCEPT ![k][y] = docs] \in [Tiles -> [TileTypes -> SUBSET Tasks]]
<1>1. jobs[k] \in [TileTypes -> SUBSET Tasks]
  BY DEF WarehouseTypeOK
<1>2. [jobs[k] EXCEPT ![y] = docs] \in [TileTypes -> SUBSET Tasks]
  BY <1>1
<1> QED
  BY <1>2 DEF WarehouseTypeOK

LEMMA EnableStepTyped ==
    ASSUME NEW t \in Tasks, FeatureManagerAssumption, WarehouseTypeOK, EnableStep(t)
    PROVE  WarehouseTypeOK'
<1> DEFINE c == call[t]
<1>0. /\ CallTypeOK(c) /\ c \in Call
      /\ queries \in [Names -> SUBSET Tasks]
      /\ jobs \in [Tiles -> [TileTypes -> SUBSET Tasks]]
      /\ backfilled \subseteq Tiles
      /\ store \subseteq Names
      /\ call \in [Tasks -> Call]
  BY DEF WarehouseTypeOK, CallTypeOK
<1>u. ASSUME NEW d, CallTypeOK(d), call' = [call EXCEPT ![t] = d],
             queries' \in [Names -> SUBSET Tasks],
             jobs' \in [Tiles -> [TileTypes -> SUBSET Tasks]],
             backfilled' \subseteq Tiles, store' \subseteq Names
      PROVE  WarehouseTypeOK'
  BY <1>u, CallUpdated DEF WarehouseTypeOK
<1>1. CASE ReadUnscheduled(t)
  <2> DEFINE names == NamesOf[c.feature]
             unscheduled == {n \in names : queries[n] = {}}
             d == [c EXCEPT !.pc = "insertQueries", !.names = unscheduled, !.todo = unscheduled]
  <2>1. c.pc = "enable" /\ UNCHANGED <<queries, jobs, backfilled, store>>
    BY <1>1 DEF ReadUnscheduled
  <2>2. unscheduled \subseteq Names
    BY <2>1, <1>0, PCs DEF CallTypeOK, FeatureManagerAssumption
  <2>3. CallTypeOK(d)
    BY <2>1, <2>2, <1>0, PCs DEF CallTypeOK, Call, TilePCs
  <2>4. CASE \E n \in names : Cardinality(queries[n]) > 1
    <3>1. call' = [call EXCEPT ![t] = Ended("raised")]
      BY <2>4, <1>1, <1>0 DEF ReadUnscheduled
    <3> QED
      BY <3>1, <2>1, <1>0, <1>u, EndedTyped
  <2>5. CASE ~ \E n \in names : Cardinality(queries[n]) > 1
    <3>1. call' = [call EXCEPT ![t] = d]
      BY <2>5, <1>1, <1>0 DEF ReadUnscheduled
    <3> QED
      BY <3>1, <2>1, <2>3, <1>0, <1>u
  <2> QED
    BY <2>4, <2>5
<1>2. CASE InsertQuery(t)
  <2>1. PICK n \in c.todo : /\ queries' = [queries EXCEPT ![n] = @ \cup {t}]
                            /\ call' = [call EXCEPT ![t].todo = @ \ {n}]
    BY <1>2 DEF InsertQuery
  <2> DEFINE d == [c EXCEPT !.todo = @ \ {n}]
  <2>2. UNCHANGED <<jobs, backfilled, store>>
    BY <1>2 DEF InsertQuery
  <2>3. CallTypeOK(d)
    BY <1>0, PCs DEF CallTypeOK, Call
  <2>4. call' = [call EXCEPT ![t] = d] /\ queries' \in [Names -> SUBSET Tasks]
    BY <2>1, <1>0
  <2> QED
    BY <2>2, <2>3, <2>4, <1>0, <1>u
<1>3. CASE QueriesInserted(t)
  <2>1. CallTypeOK([c EXCEPT !.pc = "tiles"])
    BY <1>3, <1>0, PCs DEF QueriesInserted, CallTypeOK, Call, TilePCs
  <2>2. call' = [call EXCEPT ![t] = [c EXCEPT !.pc = "tiles"]]
    BY <1>3, <1>0 DEF QueriesInserted
  <2> QED
    BY <2>1, <2>2, <1>3, <1>0, <1>u DEF QueriesInserted
<1>4. CASE NextTile(t)
  <2>1. PICK k \in c.tiles :
          \/ call' = [call EXCEPT ![t].tiles = @ \ {k}]
          \/ call' = [call EXCEPT ![t].tiles = @ \ {k}, ![t].pc = "startJob",
                                  ![t].tile = k, ![t].type = "ONLINE"]
    BY <1>4 DEF NextTile
  <2> DEFINE next == [c EXCEPT !.tiles = @ \ {k}]
             iteration == [c EXCEPT !.tiles = @ \ {k}, !.pc = "startJob",
                                    !.tile = k, !.type = "ONLINE"]
  <2>2. UNCHANGED <<queries, jobs, backfilled, store>>
    BY <1>4 DEF NextTile
  <2>3. CallTypeOK(next)
    BY <1>0 DEF CallTypeOK, Call
  <2>4. CallTypeOK(iteration)
    BY <1>4, <1>0, PCs DEF NextTile, CallTypeOK, Call, TilePCs, TileTypes
  <2>5. call' = [call EXCEPT ![t] = next] \/ call' = [call EXCEPT ![t] = iteration]
    BY <2>1, <1>0
  <2> HIDE DEF next, iteration
  <2> QED
    BY <2>2, <2>3, <2>4, <2>5, <1>0, <1>u, SMTT(30)
<1>5. CASE StartJob(t)
  <2>1. c.pc = "startJob" /\ UNCHANGED <<queries, jobs, backfilled, store>>
    BY <1>5 DEF StartJob
  <2>2. \/ call' = [call EXCEPT ![t] = AfterJob(c)]
        \/ call' = [call EXCEPT ![t] = [c EXCEPT !.pc = "createJob"]]
    BY <1>5, <1>0 DEF StartJob
  <2>3. CallTypeOK(AfterJob(c))
    BY <2>1, <1>0, AfterTyped DEF TilePCs
  <2>4. CallTypeOK([c EXCEPT !.pc = "createJob"])
    BY <2>1, <1>0, PCs DEF CallTypeOK, Call, TilePCs
  <2> QED
    BY <2>1, <2>2, <2>3, <2>4, <1>0, <1>u
<1>6. CASE CreateJob(t)
  <2>1. c.pc = "createJob" /\ UNCHANGED <<queries, backfilled, store>>
    BY <1>6 DEF CreateJob
  <2>2. \/ /\ jobs' = [jobs EXCEPT ![c.tile][c.type] = @ \cup {t}]
           /\ call' = [call EXCEPT ![t] = AfterJob(c)]
        \/ /\ call' = [call EXCEPT ![t] = Ended("raised")]
           /\ UNCHANGED jobs
    BY <1>6, <1>0 DEF CreateJob
  <2>3. c.tile \in Tiles /\ c.type \in TileTypes
    BY <2>1, <1>0 DEF CallTypeOK, TilePCs, Call
  <2>4. jobs' \in [Tiles -> [TileTypes -> SUBSET Tasks]]
    <3> DEFINE old == jobs[c.tile][c.type]
    <3>1. old \cup {t} \in SUBSET Tasks
      BY <2>3, <1>0
    <3>2. [jobs EXCEPT ![c.tile][c.type] = old \cup {t}] \in [Tiles -> [TileTypes -> SUBSET Tasks]]
      BY <3>1, <2>3, JobsUpdated
    <3> QED
      BY <3>2, <2>2, <1>0
  <2>5. CallTypeOK(AfterJob(c))
    BY <2>1, <1>0, AfterTyped DEF TilePCs
  <2>6. CallTypeOK(Ended("raised"))
    BY EndedTyped
  <2>7. CASE call' = [call EXCEPT ![t] = AfterJob(c)]
    BY <2>1, <2>4, <2>5, <2>7, <1>0, <1>u
  <2>8. CASE call' = [call EXCEPT ![t] = Ended("raised")]
    BY <2>1, <2>4, <2>6, <2>8, <1>0, <1>u
  <2> QED
    BY <2>2, <2>7, <2>8
<1>7. CASE GenerateHistoricalTiles(t)
  <2>1. /\ c.pc = "backfill" /\ UNCHANGED <<queries, jobs, store>>
        /\ backfilled' = backfilled \cup {c.tile}
    BY <1>7 DEF GenerateHistoricalTiles
  <2> DEFINE d == [c EXCEPT !.pc = "tiles", !.tile = None]
  <2>2. call' = [call EXCEPT ![t] = d]
    BY <1>7, <1>0 DEF GenerateHistoricalTiles
  <2>3. CallTypeOK(d) /\ c.tile \in Tiles
    BY <2>1, <1>0, PCs DEF CallTypeOK, Call, TilePCs, None
  <2> QED
    BY <2>1, <2>2, <2>3, <1>0, <1>u
<1>8. CASE TilesScheduled(t)
  <2>1. CallTypeOK([c EXCEPT !.pc = "populate"])
    BY <1>8, <1>0, PCs DEF TilesScheduled, CallTypeOK, Call, TilePCs
  <2>2. call' = [call EXCEPT ![t] = [c EXCEPT !.pc = "populate"]]
    BY <1>8, <1>0 DEF TilesScheduled
  <2> QED
    BY <2>1, <2>2, <1>8, <1>0, <1>u DEF TilesScheduled
<1>9. CASE PopulateFeatureStore(t)
  <2>1. PICK n \in c.names : /\ store' = IF queries[n] # {} THEN store \cup {n} ELSE store
                             /\ call' = [call EXCEPT ![t].names = @ \ {n}]
    BY <1>9 DEF PopulateFeatureStore
  <2> DEFINE d == [c EXCEPT !.names = @ \ {n}]
  <2>2. UNCHANGED <<queries, jobs, backfilled>>
    BY <1>9 DEF PopulateFeatureStore
  <2>3. CallTypeOK(d) /\ n \in Names
    BY <1>0, PCs DEF CallTypeOK, Call
  <2>4. call' = [call EXCEPT ![t] = d] /\ store' \subseteq Names
    BY <2>1, <2>3, <1>0
  <2> QED
    BY <2>2, <2>3, <2>4, <1>0, <1>u
<1>10. CASE EnableReturns(t)
  BY <1>10, <1>0, <1>u, EndedTyped DEF EnableReturns
<1> QED
  BY <1>1, <1>2, <1>3, <1>4, <1>5, <1>6, <1>7, <1>8, <1>9, <1>10 DEF EnableStep

LEMMA DisableStepTyped ==
    ASSUME NEW t \in Tasks, FeatureManagerAssumption, WarehouseTypeOK, DisableStep(t)
    PROVE  WarehouseTypeOK'
<1> DEFINE c == call[t]
<1>0. /\ CallTypeOK(c) /\ c \in Call
      /\ queries \in [Names -> SUBSET Tasks]
      /\ jobs \in [Tiles -> [TileTypes -> SUBSET Tasks]]
      /\ backfilled \subseteq Tiles
      /\ store \subseteq Names
      /\ call \in [Tasks -> Call]
  BY DEF WarehouseTypeOK, CallTypeOK
<1>u. ASSUME NEW d, CallTypeOK(d), call' = [call EXCEPT ![t] = d],
             queries' \in [Names -> SUBSET Tasks],
             jobs' \in [Tiles -> [TileTypes -> SUBSET Tasks]],
             backfilled' \subseteq Tiles, store' \subseteq Names
      PROVE  WarehouseTypeOK'
  BY <1>u, CallUpdated DEF WarehouseTypeOK
<1>1. CASE ReadNamesInUse(t)
  <2> DEFINE d == [c EXCEPT !.pc = "removeQueries",
                            !.todo = NamesOf[c.feature] \ NamesInUse(c.feature)]
  <2>1. call' = [call EXCEPT ![t] = d] /\ UNCHANGED <<queries, jobs, backfilled, store>>
    BY <1>1, <1>0 DEF ReadNamesInUse
  <2>2. CallTypeOK(d)
    BY <1>1, <1>0, PCs DEF ReadNamesInUse, CallTypeOK, Call, TilePCs, FeatureManagerAssumption
  <2> HIDE DEF d
  <2> QED
    BY <2>1, <2>2, <1>0, <1>u
<1>2. CASE FindQuery(t)
  <2>1. c.pc = "removeQueries" /\ UNCHANGED <<queries, jobs, backfilled, store>>
    BY <1>2 DEF FindQuery
  <2>2. PICK n \in c.todo :
          \/ call' = [call EXCEPT ![t].todo = @ \ {n}]
          \/ \E q \in queries[n] :
               call' = [call EXCEPT ![t].pc = "deleteQuery", ![t].todo = @ \ {n},
                                    ![t].name = n, ![t].doc = q]
    BY <1>2 DEF FindQuery
  <2>3. CASE call' = [call EXCEPT ![t].todo = @ \ {n}]
    <3> DEFINE d == [c EXCEPT !.todo = @ \ {n}]
    <3>1. CallTypeOK(d) /\ call' = [call EXCEPT ![t] = d]
      BY <2>3, <1>0 DEF CallTypeOK, Call
    <3> QED
      BY <3>1, <2>1, <1>0, <1>u
  <2>4. CASE \E q \in queries[n] :
               call' = [call EXCEPT ![t].pc = "deleteQuery", ![t].todo = @ \ {n},
                                    ![t].name = n, ![t].doc = q]
    <3>1. PICK q \in queries[n] :
               call' = [call EXCEPT ![t].pc = "deleteQuery", ![t].todo = @ \ {n},
                                    ![t].name = n, ![t].doc = q]
      BY <2>4
    <3> DEFINE d == [c EXCEPT !.pc = "deleteQuery", !.todo = @ \ {n}, !.name = n, !.doc = q]
    <3>2. q \in Tasks /\ n \in Names
      BY <1>0 DEF Call
    <3>3. CallTypeOK(d)
      BY <3>2, <2>1, <1>0, PCs DEF CallTypeOK, Call, TilePCs
    <3>4. call' = [call EXCEPT ![t] = d]
      BY <3>1, <1>0
    <3> HIDE DEF d
    <3> QED
      BY <3>3, <3>4, <2>1, <1>0, <1>u
  <2> QED
    BY <2>2, <2>3, <2>4
<1>3. CASE DeleteQuery(t)
  <2> DEFINE d == [c EXCEPT !.pc = "removeQueries", !.name = None, !.doc = 0]
  <2>1. /\ c.pc = "deleteQuery" /\ UNCHANGED <<jobs, backfilled, store>>
        /\ queries' = [queries EXCEPT ![c.name] = @ \ {c.doc}]
        /\ call' = [call EXCEPT ![t] = d]
    BY <1>3, <1>0 DEF DeleteQuery
  <2>2. CallTypeOK(d)
    BY <2>1, <1>0, PCs DEF CallTypeOK, Call, TilePCs, None
  <2>3. queries' \in [Names -> SUBSET Tasks]
    BY <2>1, <1>0
  <2> HIDE DEF d
  <2> QED
    BY <2>1, <2>2, <2>3, <1>0, <1>u
<1>4. CASE QueriesRemoved(t)
  <2>1. CallTypeOK([c EXCEPT !.pc = "stopTiles"])
    BY <1>4, <1>0, PCs, SMTT(30) DEF QueriesRemoved, CallTypeOK, Call, TilePCs
  <2>2. call' = [call EXCEPT ![t] = [c EXCEPT !.pc = "stopTiles"]]
    BY <1>4, <1>0 DEF QueriesRemoved
  <2> QED
    BY <2>1, <2>2, <1>4, <1>0, <1>u DEF QueriesRemoved
<1>5. CASE RemoveTileJobs(t)
  <2>1. PICK k \in c.tiles :
          \/ call' = [call EXCEPT ![t].tiles = @ \ {k}]
          \/ call' = [call EXCEPT ![t].tiles = @ \ {k}, ![t].pc = "stopJob",
                                  ![t].tile = k, ![t].type = "ONLINE"]
    BY <1>5 DEF RemoveTileJobs
  <2> DEFINE next == [c EXCEPT !.tiles = @ \ {k}]
             iteration == [c EXCEPT !.tiles = @ \ {k}, !.pc = "stopJob",
                                    !.tile = k, !.type = "ONLINE"]
  <2>2. UNCHANGED <<queries, jobs, backfilled, store>>
    BY <1>5 DEF RemoveTileJobs
  <2>3. CallTypeOK(next)
    BY <1>0 DEF CallTypeOK, Call
  <2>4. CallTypeOK(iteration)
    BY <1>5, <1>0, PCs DEF RemoveTileJobs, CallTypeOK, Call, TilePCs, TileTypes
  <2>5. call' = [call EXCEPT ![t] = next] \/ call' = [call EXCEPT ![t] = iteration]
    BY <2>1, <1>0, SMTT(30)
  <2> HIDE DEF next, iteration
  <2> QED
    BY <2>2, <2>3, <2>4, <2>5, <1>0, <1>u
<1>6. CASE StopJob(t)
  <2>1. c.pc = "stopJob" /\ UNCHANGED <<queries, jobs, backfilled, store>>
    BY <1>6 DEF StopJob
  <2>2. \/ call' = [call EXCEPT ![t] = AfterStop(c)]
        \/ \E q \in jobs[c.tile][c.type] :
             call' = [call EXCEPT ![t] = [c EXCEPT !.pc = "deleteJob", !.doc = q]]
    BY <1>6, <1>0 DEF StopJob
  <2>3. CASE call' = [call EXCEPT ![t] = AfterStop(c)]
    <3>1. CallTypeOK(AfterStop(c))
      BY <2>1, <1>0, AfterTyped DEF TilePCs
    <3> QED
      BY <3>1, <2>1, <2>3, <1>0, <1>u
  <2>4. CASE \E q \in jobs[c.tile][c.type] :
               call' = [call EXCEPT ![t] = [c EXCEPT !.pc = "deleteJob", !.doc = q]]
    <3>1. PICK q \in jobs[c.tile][c.type] :
               call' = [call EXCEPT ![t] = [c EXCEPT !.pc = "deleteJob", !.doc = q]]
      BY <2>4
    <3>2. c.tile \in Tiles /\ c.type \in TileTypes
      BY <2>1, <1>0 DEF CallTypeOK, TilePCs, Call
    <3>3. q \in Tasks
      BY <3>2, <1>0
    <3>4. CallTypeOK([c EXCEPT !.pc = "deleteJob", !.doc = q])
      BY <3>3, <2>1, <1>0, PCs DEF CallTypeOK, Call, TilePCs
    <3> QED
      BY <3>1, <3>4, <2>1, <1>0, <1>u
  <2> QED
    BY <2>2, <2>3, <2>4
<1>7. CASE DeleteJob(t)
  <2>1. c.pc = "deleteJob" /\ UNCHANGED <<queries, backfilled, store>>
    BY <1>7 DEF DeleteJob
  <2>2. \/ /\ jobs' = [jobs EXCEPT ![c.tile][c.type] = @ \ {c.doc}]
           /\ call' = [call EXCEPT ![t] = AfterStop(c)]
        \/ /\ call' = [call EXCEPT ![t] = Ended("raised")]
           /\ UNCHANGED jobs
    BY <1>7, <1>0 DEF DeleteJob
  <2>3. c.tile \in Tiles /\ c.type \in TileTypes
    BY <2>1, <1>0 DEF CallTypeOK, TilePCs, Call
  <2>4. jobs' \in [Tiles -> [TileTypes -> SUBSET Tasks]]
    <3> DEFINE old == jobs[c.tile][c.type]
    <3>1. old \ {c.doc} \in SUBSET Tasks
      BY <2>3, <1>0
    <3>2. [jobs EXCEPT ![c.tile][c.type] = old \ {c.doc}] \in [Tiles -> [TileTypes -> SUBSET Tasks]]
      BY <3>1, <2>3, JobsUpdated
    <3> QED
      BY <3>2, <2>2, <1>0
  <2>5. CallTypeOK(AfterStop(c)) /\ CallTypeOK(Ended("raised"))
    BY <2>1, <1>0, AfterTyped, EndedTyped DEF TilePCs
  <2>6. CASE call' = [call EXCEPT ![t] = AfterStop(c)]
    BY <2>1, <2>4, <2>5, <2>6, <1>0, <1>u
  <2>7. CASE call' = [call EXCEPT ![t] = Ended("raised")]
    BY <2>1, <2>4, <2>5, <2>7, <1>0, <1>u
  <2> QED
    BY <2>2, <2>6, <2>7
<1>8. CASE DisableReturns(t)
  BY <1>8, <1>0, <1>u, EndedTyped DEF DisableReturns
<1> QED
  BY <1>1, <1>2, <1>3, <1>4, <1>5, <1>6, <1>7, <1>8 DEF DisableStep

-----------------------------------------------------------------------------
(* Type correctness *)

LEMMA TaskPCs ==
    /\ {"queued", "start", "count", "readList", "validate", "restore", "writeList", "features",
        "warehouse", "space", "revertList", "revertFeatures", "revertSpace", "readStatus",
        "revertStatus"} = WorkingPCs
    /\ {"done", "refused", "broken"} = EndPCs
    /\ \A pc \in EndPCs \cup {"idle"} : pc \notin WorkingPCs
    /\ RevertPCs \subseteq WorkingPCs
BY DEF WorkingPCs, EndPCs, TryPCs, RevertPCs

(* Writing a well-typed record for one task keeps task well-typed.         *)
LEMMA TaskUpdated ==
    ASSUME NEW t \in Tasks, NEW c, TypeOK, TaskTypeOK(c), task' = [task EXCEPT ![t] = c]
    PROVE  /\ task' \in [Tasks -> Task]
           /\ \A u \in Tasks : TaskTypeOK(task'[u])
BY DEF TypeOK, TaskTypeOK

LEMMA GotoTyped ==
    ASSUME NEW t \in Tasks, NEW pc \in WorkingPCs, TypeOK, task[t].pc \in WorkingPCs
    PROVE  TaskTypeOK([task[t] EXCEPT !.pc = pc])
BY DEF TypeOK, TaskTypeOK, Task

LEMMA IdleTyped ==
    /\ \A pc \in EndPCs : TaskTypeOK([IdleTask EXCEPT !.pc = pc])
    /\ TaskTypeOK(IdleTask)
    /\ CallTypeOK(IdleCall)
<1>1. \A pc \in EndPCs : TaskTypeOK([IdleTask EXCEPT !.pc = pc])
  BY TaskPCs DEF TaskTypeOK, Task, IdleTask, None, DeploymentStates
<1>2. TaskTypeOK(IdleTask)
  BY TaskPCs DEF TaskTypeOK, Task, IdleTask, None, DeploymentStates
<1>3. CallTypeOK(IdleCall)
  BY PCs DEF CallTypeOK, IdleCall, Call, None, TilePCs, TileTypes
<1> QED
  BY <1>1, <1>2, <1>3

LEMMA NewCallTyped ==
    ASSUME NEW f \in Features, NEW online \in BOOLEAN, FeatureManagerAssumption
    PROVE  CallTypeOK(NewCall(f, online))
BY PCs DEF CallTypeOK, NewCall, IdleCall, Call, None, TilePCs, TileTypes,
           FeatureManagerAssumption

LEMMA RememberTyped ==
    ASSUME NEW f \in Features, NEW c, TaskTypeOK(c)
    PROVE  TaskTypeOK(Remember(c, f))
BY DEF TaskTypeOK, Task, Remember

LEMMA SetOnlineTyped ==
    ASSUME NEW f \in Features, NEW online \in BOOLEAN, DeploymentAssumption, CatalogTypeOK,
           SetOnline(f, online)
    PROVE  /\ onlineEnabled' \in [Features -> BOOLEAN]
           /\ listOnlineIds' \in [Lists -> SUBSET Features]
           /\ spaceOnlineIds' \in [FeatureSpaces -> SUBSET Features]
<1>1. onlineEnabled' \in [Features -> BOOLEAN]
  BY DEF SetOnline, CatalogTypeOK
<1>2. CASE onlineEnabled[f] # online
  <2>1. listOnlineIds' \in [Lists -> SUBSET Features]
    BY <1>2 DEF SetOnline, CatalogTypeOK, IncludeOrExclude
  <2>2. spaceOnlineIds' \in [FeatureSpaces -> SUBSET Features]
    BY <1>2 DEF SetOnline, CatalogTypeOK, IncludeOrExclude, DeploymentAssumption
  <2> QED
    BY <1>1, <2>1, <2>2
<1>3. CASE onlineEnabled[f] = online
  BY <1>1, <1>3 DEF SetOnline, CatalogTypeOK
<1> QED
  BY <1>2, <1>3

LEMMA UnchangedTyped ==
    /\ WarehouseTypeOK /\ UNCHANGED warehouseVars => WarehouseTypeOK'
    /\ CatalogTypeOK /\ UNCHANGED catalogVars => CatalogTypeOK'
    /\ EnvironmentTypeOK /\ UNCHANGED environmentVars => EnvironmentTypeOK'
<1>1. WarehouseTypeOK /\ UNCHANGED warehouseVars => WarehouseTypeOK'
  BY DEF WarehouseTypeOK, warehouseVars
<1>2. CatalogTypeOK /\ UNCHANGED catalogVars => CatalogTypeOK'
  BY DEF CatalogTypeOK, catalogVars
<1>3. EnvironmentTypeOK /\ UNCHANGED environmentVars => EnvironmentTypeOK'
  BY DEF EnvironmentTypeOK, environmentVars
<1> QED
  BY <1>1, <1>2, <1>3

(* A step that writes one task record and leaves the types of the rest.    *)
LEMMA TaskStepTyped ==
    ASSUME NEW t \in Tasks, NEW c, TypeOK, TaskTypeOK(c), task' = [task EXCEPT ![t] = c],
           WarehouseTypeOK', CatalogTypeOK', EnvironmentTypeOK',
           faults' \in Nat, overwritten' \subseteq Features
    PROVE  TypeOK'
BY TaskUpdated DEF TypeOK

LEMMA SubmitTyped ==
    ASSUME NEW t \in Tasks, TypeOK, Submit(t)
    PROVE  TypeOK'
<1>0. UNCHANGED <<catalogVars, warehouseVars, environmentVars, faults, overwritten>>
  BY DEF Submit, SubmitUpdate, SubmitCreate
<1>1. WarehouseTypeOK' /\ CatalogTypeOK' /\ EnvironmentTypeOK' /\ faults' \in Nat
      /\ overwritten' \subseteq Features
  BY <1>0, UnchangedTyped DEF TypeOK
<1>2. PICK d \in Deployments : SubmitUpdate(t, d) \/ SubmitCreate(t, d)
  BY DEF Submit
<1>3. CASE SubmitUpdate(t, d)
  <2>1. ASSUME NEW b \in BOOLEAN
        PROVE  TaskTypeOK([IdleTask EXCEPT !.pc = "queued", !.deployment = d, !.enabled = b])
    BY TaskPCs DEF TaskTypeOK, Task, IdleTask, DeploymentStates
  <2> DEFINE c == [IdleTask EXCEPT !.pc = "queued", !.deployment = d,
                                   !.enabled = (deployment[d] = "off")]
  <2>2. task' = [task EXCEPT ![t] = c]
    BY <1>3 DEF SubmitUpdate
  <2>3. TaskTypeOK(c)
    BY <2>1, Zenon
  <2> HIDE DEF c
  <2> QED
    BY <2>2, <2>3, <1>1, TaskStepTyped
<1>4. CASE SubmitCreate(t, d)
  <2> DEFINE c == [IdleTask EXCEPT !.pc = "queued", !.create = TRUE, !.deployment = d]
  <2>1. TaskTypeOK(c)
    BY IdleTyped, TaskPCs, ZenonT(30) DEF TaskTypeOK, Task
  <2>2. task' = [task EXCEPT ![t] = c]
    BY <1>4 DEF SubmitCreate
  <2> HIDE DEF c
  <2> QED
    BY <2>1, <2>2, <1>1, TaskStepTyped
<1> QED
  BY <1>2, <1>3, <1>4

(* The steps of a task that write nothing but the task record.             *)
LEMMA LocalStepTyped ==
    ASSUME NEW t \in Tasks, DeploymentAssumption, TypeOK,
           \/ Start(t) \/ CountEnabled(t) \/ ReadList(t) \/ Validate(t)
           \/ FeaturesUpdated(t) \/ ReadSpace(t) \/ ReadStatus(t)
    PROVE  TypeOK'
<1> DEFINE c == task[t]
<1>0. UNCHANGED <<catalogVars, warehouseVars, environmentVars, faults, overwritten>>
  BY DEF Start, CountEnabled, ReadList, Validate, FeaturesUpdated, ReadSpace, ReadStatus
<1>1. WarehouseTypeOK' /\ CatalogTypeOK' /\ EnvironmentTypeOK' /\ faults' \in Nat
      /\ overwritten' \subseteq Features
  BY <1>0, UnchangedTyped DEF TypeOK
<1>2. /\ task \in [Tasks -> Task] /\ TaskTypeOK(c) /\ c \in Task
      /\ deployment \in [Deployments -> DeploymentStates]
      /\ deployed \in [Lists -> BOOLEAN]
      /\ spaceListIds \in [Spaces -> SUBSET Lists]
  BY DEF TypeOK, TaskTypeOK, CatalogTypeOK
<1>u. ASSUME NEW d, TaskTypeOK(d), task' = [task EXCEPT ![t] = d]
      PROVE  TypeOK'
  BY <1>u, <1>1, TaskStepTyped
<1>e. ASSUME NEW pc \in EndPCs, End(t, pc)
      PROVE  TypeOK'
  BY <1>e, <1>u, IdleTyped DEF End
<1>g. ASSUME NEW pc \in WorkingPCs, c.pc \in WorkingPCs, Goto(t, pc)
      PROVE  TypeOK'
  <2>1. task' = [task EXCEPT ![t] = [c EXCEPT !.pc = pc]]
    BY <1>g, <1>2 DEF Goto
  <2> QED
    BY <2>1, <1>g, <1>u, GotoTyped
<1>3. CASE Start(t)
  <2>1. c.pc = "queued"
    BY <1>3 DEF Start
  <2> DEFINE d == [c EXCEPT !.pc = "start",
                            !.original = IF c.create THEN "absent" ELSE deployment[c.deployment]]
  <2>2. TaskTypeOK(d)
    BY <2>1, <1>2, TaskPCs DEF TaskTypeOK, Task, DeploymentStates
  <2>3. task' = [task EXCEPT ![t] = d] \/ End(t, "done") \/ End(t, "refused")
    BY <1>3, <1>2 DEF Start
  <2> HIDE DEF d
  <2> QED
    BY <2>2, <2>3, <1>u, <1>e, TaskPCs
<1>4. CASE CountEnabled(t)
  <2>1. PICK target \in BOOLEAN :
          task' = [task EXCEPT ![t].pc = "readList", ![t].target = target]
    BY <1>4 DEF CountEnabled
  <2> DEFINE d == [c EXCEPT !.pc = "readList", !.target = target]
  <2>2. c.pc = "count" /\ task' = [task EXCEPT ![t] = d]
    BY <2>1, <1>4, <1>2 DEF CountEnabled
  <2>3. TaskTypeOK(d)
    BY <2>2, <1>2, TaskPCs DEF TaskTypeOK, Task
  <2> HIDE DEF d
  <2> QED
    BY <2>2, <2>3, <1>u
<1>5. CASE ReadList(t)
  <2> DEFINE d == [c EXCEPT !.pc = "validate", !.before = deployed[ListUnder(t)]]
  <2>1. c.pc = "readList" /\ (End(t, "done") \/ task' = [task EXCEPT ![t] = d])
    BY <1>5, <1>2 DEF ReadList
  <2>2. deployed[ListUnder(t)] \in BOOLEAN
    BY <2>1, <1>2, TaskPCs DEF TaskTypeOK, ListUnder, DeploymentAssumption
  <2>3. TaskTypeOK(d)
    BY <2>1, <2>2, <1>2, TaskPCs DEF TaskTypeOK, Task
  <2> HIDE DEF d
  <2> QED
    BY <2>1, <2>3, <1>u, <1>e, TaskPCs
<1>6. CASE Validate(t)
  BY <1>6, <1>g, TaskPCs DEF Validate
<1>7. CASE FeaturesUpdated(t)
  BY <1>7, <1>g, TaskPCs DEF FeaturesUpdated
<1>8. CASE ReadSpace(t)
  <2> DEFINE s == SpaceOf[ListUnder(t)]
             d == [c EXCEPT !.pc = "revertSpace", !.readIds = spaceListIds[s],
                            !.wasDeployed = (status[s] = "DEPLOYED")]
  <2>1. c.pc = "revertFeatures" /\ task' = [task EXCEPT ![t] = d]
    BY <1>8, <1>2 DEF ReadSpace
  <2>2. s \in Spaces
    BY <2>1, <1>2, TaskPCs DEF TaskTypeOK, ListUnder, DeploymentAssumption
  <2>3. TaskTypeOK(d)
    BY <2>1, <2>2, <1>2, TaskPCs, ZenonT(30) DEF TaskTypeOK, Task
  <2> HIDE DEF d
  <2> QED
    BY <2>1, <2>3, <1>u
<1>9. CASE ReadStatus(t)
  <2> DEFINE d == [c EXCEPT !.pc = "restore", !.broken = TRUE]
  <2>1. c.pc = "readStatus"
    BY <1>9 DEF ReadStatus
  <2>2. Goto(t, "restore") \/ Goto(t, "revertStatus") \/ task' = [task EXCEPT ![t] = d]
    BY <1>9, <1>2 DEF ReadStatus
  <2>3. TaskTypeOK(d)
    BY <2>1, <1>2, TaskPCs DEF TaskTypeOK, Task
  <2> HIDE DEF d
  <2> QED
    BY <2>1, <2>2, <2>3, <1>u, <1>g, TaskPCs
<1> QED
  BY <1>3, <1>4, <1>5, <1>6, <1>7, <1>8, <1>9

(* The steps of a task that write documents outside of the warehouse.      *)
LEMMA WritingStepTyped ==
    ASSUME NEW t \in Tasks, DeploymentAssumption, TypeOK,
           \/ WriteDeployment(t) \/ WriteList(t) \/ UpdateSpace(t)
           \/ RevertList(t) \/ RevertSpace(t) \/ RevertStatus(t) \/ Restore(t)
    PROVE  TypeOK'
<1> DEFINE c == task[t]
<1>0. UNCHANGED <<warehouseVars, environmentVars, faults, overwritten, onlineEnabled,
                  listOnlineIds, deployedListIds, spaceOnlineIds>>
  BY DEF WriteDeployment, WriteList, UpdateSpace, RevertList, RevertSpace, RevertStatus, Restore
<1>1. WarehouseTypeOK' /\ EnvironmentTypeOK' /\ faults' \in Nat /\ overwritten' \subseteq Features
  BY <1>0, UnchangedTyped DEF TypeOK
<1>2. /\ task \in [Tasks -> Task] /\ TaskTypeOK(c) /\ c \in Task
      /\ CatalogTypeOK
      /\ deployment \in [Deployments -> DeploymentStates]
      /\ deployed \in [Lists -> BOOLEAN]
      /\ spaceListIds \in [Spaces -> SUBSET Lists]
      /\ status \in [Spaces -> Statuses]
  BY DEF TypeOK, TaskTypeOK, CatalogTypeOK
<1>3. c.pc \in WorkingPCs
  BY TaskPCs DEF WriteDeployment, WriteList, UpdateSpace, RevertList, RevertSpace, RevertStatus,
                 Restore
<1>4. /\ c.deployment \in Deployments /\ ListUnder(t) \in Lists
      /\ SpaceOf[ListUnder(t)] \in Spaces
  BY <1>3, <1>2 DEF TaskTypeOK, ListUnder, DeploymentAssumption
<1>u. ASSUME NEW d, TaskTypeOK(d), task' = [task EXCEPT ![t] = d],
             deployment' \in [Deployments -> DeploymentStates],
             deployed' \in [Lists -> BOOLEAN],
             spaceListIds' \in [Spaces -> SUBSET Lists],
             status' \in [Spaces -> Statuses]
      PROVE  TypeOK'
  <2>1. CatalogTypeOK'
    BY <1>u, <1>0, <1>2 DEF CatalogTypeOK
  <2> QED
    BY <2>1, <1>u, <1>1, TaskStepTyped
<1>g. ASSUME NEW pc \in WorkingPCs, Goto(t, pc)
      PROVE  /\ TaskTypeOK([c EXCEPT !.pc = pc])
             /\ task' = [task EXCEPT ![t] = [c EXCEPT !.pc = pc]]
  BY <1>g, <1>2, <1>3, GotoTyped DEF Goto
<1>5. CASE WriteDeployment(t)
  <2>1. UNCHANGED <<deployed, spaceListIds, status>>
    BY <1>5 DEF WriteDeployment
  <2>2. deployment' \in [Deployments -> DeploymentStates]
    BY <1>5, <1>2, <1>4 DEF WriteDeployment, DeploymentStates
  <2>3. Goto(t, "restore") \/ Goto(t, "count")
    BY <1>5 DEF WriteDeployment
  <2> QED
    BY <2>1, <2>2, <2>3, <1>2, <1>g, <1>u, TaskPCs
<1>6. CASE WriteList(t)
  <2> DEFINE d == [c EXCEPT !.pc = "features", !.todo = FeaturesIn[ListUnder(t)]]
  <2>1. UNCHANGED <<deployment, spaceListIds, status>> /\ task' = [task EXCEPT ![t] = d]
    BY <1>6, <1>2 DEF WriteList
  <2>2. deployed' \in [Lists -> BOOLEAN]
    BY <1>6, <1>2 DEF WriteList, Task
  <2>3. TaskTypeOK(d)
    BY <1>2, <1>3, <1>4, TaskPCs DEF TaskTypeOK, Task, DeploymentAssumption
  <2> HIDE DEF d
  <2> QED
    BY <2>1, <2>2, <2>3, <1>2, <1>u
<1>7. CASE UpdateSpace(t)
  <2> DEFINE d == [IdleTask EXCEPT !.pc = "done"]
  <2>1. UNCHANGED <<deployment, deployed>> /\ task' = [task EXCEPT ![t] = d]
    BY <1>7 DEF UpdateSpace, End
  <2>2. spaceListIds' \in [Spaces -> SUBSET Lists]
    BY <1>7, <1>2, <1>4 DEF UpdateSpace, IncludeOrExclude
  <2>3. status' \in [Spaces -> Statuses]
    BY <1>7, <1>2, <1>4 DEF UpdateSpace, StatusAfter, Statuses
  <2>4. TaskTypeOK(d)
    BY IdleTyped, TaskPCs
  <2> HIDE DEF d
  <2> QED
    BY <2>1, <2>2, <2>3, <2>4, <1>2, <1>u
<1>8. CASE RevertList(t)
  <2> DEFINE d == [c EXCEPT !.pc = "revertFeatures", !.todo = c.seen]
  <2>1. UNCHANGED <<deployment, spaceListIds, status>> /\ task' = [task EXCEPT ![t] = d]
    BY <1>8, <1>2 DEF RevertList
  <2>2. deployed' \in [Lists -> BOOLEAN]
    BY <1>8, <1>2 DEF RevertList, Task
  <2>3. TaskTypeOK(d)
    BY <1>2, <1>3, <1>4, TaskPCs DEF TaskTypeOK, Task
  <2> HIDE DEF d
  <2> QED
    BY <2>1, <2>2, <2>3, <1>2, <1>u
<1>9. CASE RevertSpace(t)
  <2>1. UNCHANGED <<deployment, deployed, status>> /\ Goto(t, "readStatus")
    BY <1>9 DEF RevertSpace
  <2>2. spaceListIds' \in [Spaces -> SUBSET Lists]
    BY <1>9, <1>2, <1>4 DEF RevertSpace, RevertedIds, IncludeOrExclude, Task
  <2> QED
    BY <2>1, <2>2, <1>2, <1>g, <1>u, TaskPCs
<1>10. CASE RevertStatus(t)
  <2>1. UNCHANGED <<deployment, deployed, spaceListIds>> /\ Goto(t, "restore")
    BY <1>10 DEF RevertStatus
  <2>2. status' \in [Spaces -> Statuses]
    BY <1>10, <1>2, <1>4 DEF RevertStatus, StatusAfter, Statuses
  <2> QED
    BY <2>1, <2>2, <1>2, <1>g, <1>u, TaskPCs
<1>11. CASE Restore(t)
  <2>1. UNCHANGED <<deployed, spaceListIds, status>>
    BY <1>11 DEF Restore
  <2>2. deployment' \in [Deployments -> DeploymentStates]
    BY <1>11, <1>2, <1>4 DEF Restore, Task
  <2>3. PICK pc \in EndPCs : task' = [task EXCEPT ![t] = [IdleTask EXCEPT !.pc = pc]]
    BY <1>11, TaskPCs DEF Restore, End
  <2> QED
    BY <2>1, <2>2, <2>3, <1>2, <1>u, IdleTyped
<1> QED
  BY <1>5, <1>6, <1>7, <1>8, <1>9, <1>10, <1>11

(* The steps of a task that change a feature or call into the warehouse.   *)
LEMMA FeatureStepTyped ==
    ASSUME NEW t \in Tasks, FeatureManagerAssumption, DeploymentAssumption, TypeOK,
           \/ UpdateFeature(t) \/ UpdateWarehouse(t) \/ WarehouseEnds(t) \/ RevertFeature(t)
    PROVE  TypeOK'
<1> DEFINE c == task[t]
<1>1. /\ task \in [Tasks -> Task] /\ TaskTypeOK(c) /\ c \in Task
      /\ WarehouseTypeOK /\ CatalogTypeOK /\ EnvironmentTypeOK
      /\ faults \in Nat /\ overwritten \subseteq Features
  BY DEF TypeOK, TaskTypeOK
<1>2. CASE UpdateFeature(t)
  <2>1. PICK f \in c.todo :
          LET ids == IncludeOrExclude(c.target, deployedListIds[f], ListUnder(t))
              online == ids # {}
              changed == onlineEnabled[f] # online IN
          /\ SetOnline(f, online)
          /\ deployedListIds' = [deployedListIds EXCEPT ![f] = ids]
          /\ task' = [task EXCEPT ![t] =
                        [Remember(c, f) EXCEPT
                           !.todo = c.todo \ {f},
                           !.pc = IF changed THEN "warehouse" ELSE "features"]]
          /\ call' = IF changed THEN [call EXCEPT ![t] = NewCall(f, online)] ELSE call
          /\ overwritten' = overwritten \ {f}
    BY <1>2 DEF UpdateFeature
  <2> DEFINE ids == IncludeOrExclude(c.target, deployedListIds[f], ListUnder(t))
             online == ids # {}
             changed == onlineEnabled[f] # online
             pc == IF changed THEN "warehouse" ELSE "features"
             d == [Remember(c, f) EXCEPT !.todo = c.todo \ {f}, !.pc = pc]
  <2>2. /\ c.pc = "features" /\ c.deployment \in Deployments /\ f \in Features
        /\ UNCHANGED <<deployment, deployed, spaceListIds, status, queries, jobs, backfilled,
                       store, environmentVars, faults>>
    BY <1>1, <1>2, TaskPCs DEF UpdateFeature, TaskTypeOK, Task
  <2>3. online \in BOOLEAN /\ pc \in {"warehouse", "features"}
    OBVIOUS
  <2>4. SetOnline(f, online) /\ task' = [task EXCEPT ![t] = d]
    BY <2>1
  <2>5. deployedListIds' \in [Features -> SUBSET Lists]
    <3>1. ListUnder(t) \in Lists
      BY <2>2 DEF ListUnder, DeploymentAssumption
    <3> QED
      BY <3>1, <2>1, <2>2, <1>1 DEF CatalogTypeOK, IncludeOrExclude
  <2>6. WarehouseTypeOK'
    <3>1. call' = call \/ call' = [call EXCEPT ![t] = NewCall(f, online)]
      BY <2>1
    <3> HIDE DEF online
    <3>2. CallTypeOK(NewCall(f, online))
      BY <2>2, <2>3, NewCallTyped
    <3> HIDE DEF pc, d
    <3>3. CASE call' = call
      BY <3>3, <2>2, <1>1 DEF WarehouseTypeOK
    <3>4. CASE call' = [call EXCEPT ![t] = NewCall(f, online)]
      BY <3>4, <3>2, <2>2, <1>1, CallUpdated DEF WarehouseTypeOK
    <3> QED
      BY <3>1, <3>3, <3>4
  <2>7. overwritten' \subseteq Features
    BY <2>1, <1>1
  <2> HIDE DEF online, pc
  <2>8. CatalogTypeOK'
    BY <2>2, <2>3, <2>4, <2>5, <1>1, SetOnlineTyped, ZenonT(30) DEF CatalogTypeOK
  <2>9. TaskTypeOK(d)
    <3>1. TaskTypeOK(Remember(c, f))
      BY <2>2, <1>1, RememberTyped
    <3>2. c.todo \ {f} \subseteq Features
      BY <1>1 DEF Task
    <3>3. Remember(c, f).deployment \in Deployments
      BY <2>2, <1>1 DEF Remember, Task
    <3> QED
      BY <3>1, <3>2, <3>3, <2>3, TaskPCs DEF TaskTypeOK, Task
  <2> HIDE DEF d
  <2> QED
    BY <2>2, <2>4, <2>6, <2>7, <2>8, <2>9, <1>1, TaskStepTyped, UnchangedTyped
<1>3. CASE UpdateWarehouse(t)
  <2>1. WarehouseTypeOK'
    BY <1>1, <1>3, EnableStepTyped, DisableStepTyped DEF UpdateWarehouse, WarehouseStep
  <2>2. UNCHANGED <<catalogVars, environmentVars, task, faults, overwritten>>
    BY <1>3 DEF UpdateWarehouse
  <2>3. CatalogTypeOK' /\ EnvironmentTypeOK'
    BY <2>2, <1>1, UnchangedTyped
  <2> QED
    BY <2>1, <2>2, <2>3 DEF TypeOK
<1>4. CASE WarehouseEnds(t)
  <2>1. /\ c.pc = "warehouse" /\ call' = [call EXCEPT ![t] = IdleCall]
        /\ Goto(t, "features") \/ Goto(t, "revertList")
        /\ UNCHANGED <<catalogVars, queries, jobs, backfilled, store, environmentVars, faults,
                       overwritten>>
    BY <1>4 DEF WarehouseEnds
  <2>2. WarehouseTypeOK'
    BY <2>1, <1>1, IdleTyped, CallUpdated DEF WarehouseTypeOK
  <2>3. PICK pc \in WorkingPCs : task' = [task EXCEPT ![t] = [c EXCEPT !.pc = pc]]
    BY <2>1, <1>1, TaskPCs DEF Goto
  <2>4. TaskTypeOK([c EXCEPT !.pc = pc])
    BY <2>1, TaskPCs, GotoTyped
  <2>5. CatalogTypeOK' /\ EnvironmentTypeOK'
    BY <2>1, <1>1, UnchangedTyped
  <2> QED
    BY <2>1, <2>2, <2>3, <2>4, <2>5, <1>1, TaskStepTyped
<1>5. CASE RevertFeature(t)
  <2>1. PICK f \in c.todo : /\ SetOnline(f, f \in c.seenOn)
                            /\ task' = [task EXCEPT ![t].todo = @ \ {f}]
                            /\ overwritten' = overwritten \cup {f}
    BY <1>5 DEF RevertFeature
  <2> DEFINE online == f \in c.seenOn
             d == [c EXCEPT !.todo = @ \ {f}]
  <2>2. /\ UNCHANGED <<deployment, deployed, deployedListIds, spaceListIds, status,
                       warehouseVars, environmentVars, faults>>
        /\ f \in Features
    BY <1>1, <1>5 DEF RevertFeature, Task
  <2>3. SetOnline(f, online) /\ task' = [task EXCEPT ![t] = d] /\ online \in BOOLEAN
    BY <2>1, <1>1
  <2>4. TaskTypeOK(d) /\ overwritten' \subseteq Features
    BY <2>1, <2>2, <1>1 DEF TaskTypeOK, Task
  <2> HIDE DEF online, d
  <2>5. CatalogTypeOK'
    BY <2>2, <2>3, <1>1, SetOnlineTyped DEF CatalogTypeOK
  <2>6. WarehouseTypeOK' /\ EnvironmentTypeOK'
    BY <2>2, <1>1, UnchangedTyped
  <2> QED
    BY <2>2, <2>3, <2>4, <2>5, <2>6, <1>1, TaskStepTyped
<1> QED
  BY <1>2, <1>3, <1>4, <1>5

(* Exceptions, crashes, and the requests that are no task.                 *)
LEMMA EnvironmentStepTyped ==
    ASSUME TypeOK,
           \/ \E t \in Tasks : Fault(t) \/ Crash(t)
           \/ \E s \in Spaces : WriteStatus(s) \/ \E to \in Statuses : RequestStatus(s, to)
           \/ \E f \in Features : ChangeReadiness(f)
    PROVE  TypeOK'
<1>1. /\ task \in [Tasks -> Task] /\ \A t \in Tasks : TaskTypeOK(task[t])
      /\ WarehouseTypeOK /\ CatalogTypeOK /\ EnvironmentTypeOK
      /\ faults \in Nat /\ overwritten \subseteq Features
  BY DEF TypeOK
<1>2. ASSUME NEW t \in Tasks, Fault(t)
      PROVE  TypeOK'
  <2> DEFINE c == task[t]
  <2>1. /\ faults' = faults + 1
        /\ UNCHANGED <<catalogVars, queries, jobs, backfilled, store, environmentVars,
                       overwritten>>
    BY <1>2 DEF Fault
  <2>2. CatalogTypeOK' /\ EnvironmentTypeOK' /\ faults' \in Nat /\ overwritten' \subseteq Features
    BY <2>1, <1>1, UnchangedTyped
  <2>3. ASSUME NEW d, TaskTypeOK(d), task' = [task EXCEPT ![t] = d], UNCHANGED call
        PROVE  TypeOK'
    <3>1. WarehouseTypeOK'
      BY <2>1, <2>3, <1>1 DEF WarehouseTypeOK
    <3> QED
      BY <3>1, <2>2, <2>3, TaskStepTyped
  <2>4. ASSUME NEW pc \in WorkingPCs, c.pc \in WorkingPCs, Goto(t, pc), UNCHANGED call
        PROVE  TypeOK'
    <3>1. task' = [task EXCEPT ![t] = [c EXCEPT !.pc = pc]]
      BY <2>4, <1>1 DEF Goto
    <3> QED
      BY <3>1, <2>4, <2>3, GotoTyped
  <2>5. CASE /\ c.pc \in {"start", "count", "readList", "validate"}
             /\ Goto(t, "restore") /\ UNCHANGED call
    BY <2>5, <2>4, TaskPCs
  <2>6. CASE /\ c.pc \in {"writeList", "features", "space"}
             /\ Goto(t, "revertList") /\ UNCHANGED call
    BY <2>6, <2>4, TaskPCs
  <2>7. CASE /\ c.pc = "features" /\ UNCHANGED call
             /\ \E f \in c.todo :
                  task' = [task EXCEPT ![t] = [Remember(c, f) EXCEPT !.pc = "revertList"]]
    <3>1. PICK f \in c.todo :
            task' = [task EXCEPT ![t] = [Remember(c, f) EXCEPT !.pc = "revertList"]]
      BY <2>7
    <3>2. TaskTypeOK(Remember(c, f))
      BY <1>1, RememberTyped DEF Task
    <3>3. Remember(c, f).deployment \in Deployments
      BY <2>7, <1>1, TaskPCs DEF Remember, Task, TaskTypeOK
    <3>4. TaskTypeOK([Remember(c, f) EXCEPT !.pc = "revertList"])
      BY <3>2, <3>3, TaskPCs DEF TaskTypeOK, Task
    <3> QED
      BY <3>1, <3>4, <2>7, <2>3
  <2>8. CASE CallRaises(t) /\ UNCHANGED task
    <3>1. WarehouseTypeOK'
      BY <2>8, <2>1, <1>1, EndedTyped, CallUpdated DEF CallRaises, WarehouseTypeOK
    <3> QED
      BY <3>1, <2>2, <2>8, <1>1 DEF TypeOK
  <2>9. CASE /\ c.pc \in RevertPCs /\ UNCHANGED call
             /\ task' = [task EXCEPT ![t].pc = "restore", ![t].broken = TRUE]
    <3> DEFINE d == [c EXCEPT !.pc = "restore", !.broken = TRUE]
    <3>1. task' = [task EXCEPT ![t] = d]
      BY <2>9, <1>1
    <3>2. c \in Task /\ c.deployment \in Deployments
      BY <2>9, <1>1, TaskPCs DEF TaskTypeOK
    <3>3. TaskTypeOK(d)
      BY <3>2, TaskPCs DEF TaskTypeOK, Task
    <3> HIDE DEF d
    <3> QED
      BY <3>1, <3>3, <2>9, <2>3
  <2>10. CASE End(t, "broken") /\ UNCHANGED call
    BY <2>10, <2>3, IdleTyped, TaskPCs DEF End
  <2> QED
    BY <1>2, <2>5, <2>6, <2>7, <2>8, <2>9, <2>10 DEF Fault
<1>3. ASSUME NEW t \in Tasks, Crash(t)
      PROVE  TypeOK'
  <2>1. CatalogTypeOK' /\ EnvironmentTypeOK' /\ faults' \in Nat /\ overwritten' \subseteq Features
    BY <1>3, <1>1, UnchangedTyped DEF Crash
  <2>2. WarehouseTypeOK'
    BY <1>3, <1>1, IdleTyped, CallUpdated DEF Crash, WarehouseTypeOK
  <2> QED
    BY <1>3, <2>1, <2>2, IdleTyped, TaskPCs, TaskStepTyped DEF Crash, End
<1>4. ASSUME NEW s \in Spaces, WriteStatus(s)
      PROVE  TypeOK'
  <2>1. WarehouseTypeOK'
    BY <1>4, <1>1, UnchangedTyped DEF WriteStatus
  <2>2. status' \in [Spaces -> Statuses]
    BY <1>4, <1>1 DEF WriteStatus, CatalogTypeOK, EnvironmentTypeOK
  <2>3. statusRequest' \in [Spaces -> Statuses \cup {None}]
    BY <1>4, <1>1 DEF WriteStatus, EnvironmentTypeOK
  <2> QED
    BY <1>4, <1>1, <2>1, <2>2, <2>3 DEF WriteStatus, TypeOK, CatalogTypeOK, EnvironmentTypeOK
<1>5. ASSUME NEW s \in Spaces, NEW to \in Statuses, RequestStatus(s, to)
      PROVE  TypeOK'
  <2>1. WarehouseTypeOK' /\ CatalogTypeOK'
    BY <1>5, <1>1, UnchangedTyped DEF RequestStatus
  <2> QED
    BY <1>5, <1>1, <2>1 DEF RequestStatus, TypeOK, EnvironmentTypeOK
<1>6. ASSUME NEW f \in Features, ChangeReadiness(f)
      PROVE  TypeOK'
  <2>1. WarehouseTypeOK' /\ CatalogTypeOK'
    BY <1>6, <1>1, UnchangedTyped DEF ChangeReadiness
  <2>2. productionReady' \in [Features -> BOOLEAN]
    BY <1>6, <1>1 DEF ChangeReadiness, EnvironmentTypeOK
  <2> QED
    BY <1>6, <1>1, <2>1, <2>2 DEF ChangeReadiness, TypeOK, EnvironmentTypeOK
<1> QED
  BY <1>2, <1>3, <1>4, <1>5, <1>6

(* Every variable of Deployment keeps its type under every interleaving,   *)
(* fault and crash; in particular a task at work has a deployment, and a   *)
(* running call a feature and, inside the loop over tiles, a tile.         *)
THEOREM TypeCorrect == Spec => []TypeOK
<1>1. Init => TypeOK
  <2> SUFFICES ASSUME Init PROVE TypeOK
    OBVIOUS
  <2>1. WarehouseTypeOK
    BY IdleTyped DEF Init, FeatureManagerInit, WarehouseTypeOK, CallTypeOK
  <2>2. CatalogTypeOK
    BY DEF Init, CatalogTypeOK, DeploymentStates, Statuses
  <2>3. EnvironmentTypeOK
    BY DEF Init, EnvironmentTypeOK
  <2> QED
    BY <2>1, <2>2, <2>3, IdleTyped DEF Init, TypeOK, TaskTypeOK
<1>2. TypeOK /\ [Next]_vars => TypeOK'
  <2> SUFFICES ASSUME TypeOK, [Next]_vars PROVE TypeOK'
    OBVIOUS
  <2>1. CASE UNCHANGED vars
    BY <2>1, UnchangedTyped DEF vars, TypeOK
  <2>2. ASSUME NEW t \in Tasks, Submit(t) \/ TaskStep(t)
        PROVE  TypeOK'
    BY <2>2, SubmitTyped, LocalStepTyped, WritingStepTyped, FeatureStepTyped,
       FeatureManagerAssumption, DeploymentAssumption DEF TaskStep, DeployStep, RevertStep
  <2> QED
    BY <2>1, <2>2, EnvironmentStepTyped DEF Next
<1> QED
  BY <1>1, <1>2, PTL DEF Spec

-----------------------------------------------------------------------------
(* Online features *)

(* Setting a feature's flag keeps its copies in step with it: either they  *)
(* are all written, or the flag was already what is being written.         *)
LEMMA SetOnlineMirrors ==
    ASSUME NEW f \in Features, NEW online \in BOOLEAN, DeploymentAssumption, CatalogTypeOK,
           OnlineMirrored, SetOnline(f, online)
    PROVE  OnlineMirrored'
<1>1. onlineEnabled' = [onlineEnabled EXCEPT ![f] = online]
  BY DEF SetOnline
<1>2. CASE onlineEnabled[f] = online
  <2>1. onlineEnabled' = onlineEnabled
    BY <1>1, <1>2 DEF CatalogTypeOK
  <2> QED
    BY <2>1, <1>2 DEF SetOnline, OnlineMirrored
<1>3. CASE onlineEnabled[f] # online
  <2>1. ASSUME NEW g \in Features, NEW p \in FeatureSpaces
        PROVE  g \in spaceOnlineIds'[p] <=> p = FeatureSpaceOf[g] /\ onlineEnabled'[g]
    <3>1. spaceOnlineIds' = [spaceOnlineIds EXCEPT ![FeatureSpaceOf[f]] =
                               IncludeOrExclude(online, @, f)]
      BY <1>3 DEF SetOnline
    <3>2. CASE g = f
      BY <3>1, <3>2, <1>1, <1>3 DEF OnlineMirrored, CatalogTypeOK, IncludeOrExclude
    <3>3. CASE g # f
      BY <3>1, <3>3, <1>1 DEF OnlineMirrored, CatalogTypeOK, IncludeOrExclude
    <3> QED
      BY <3>2, <3>3
  <2>2. ASSUME NEW g \in Features, NEW l \in Lists
        PROVE  g \in listOnlineIds'[l] <=> g \in FeaturesIn[l] /\ onlineEnabled'[g]
    <3>1. listOnlineIds'[l] = IF f \in FeaturesIn[l]
                              THEN IncludeOrExclude(online, listOnlineIds[l], f)
                              ELSE listOnlineIds[l]
      BY <1>3 DEF SetOnline
    <3>2. CASE g = f
      BY <3>1, <3>2, <1>1 DEF OnlineMirrored, CatalogTypeOK, IncludeOrExclude
    <3>3. CASE g # f
      BY <3>1, <3>3, <1>1 DEF OnlineMirrored, CatalogTypeOK, IncludeOrExclude
    <3> QED
      BY <3>2, <3>3
  <2> QED
    BY <2>1, <2>2 DEF OnlineMirrored
<1> QED
  BY <1>2, <1>3

(* The steps that touch none of the documents of the online features.      *)
LEMMA OtherSteps ==
    ASSUME [Next]_vars,
           ~ \E t \in Tasks : UpdateFeature(t) \/ RevertFeature(t)
    PROVE  UNCHANGED <<onlineEnabled, spaceOnlineIds, listOnlineIds, deployedListIds, overwritten>>
<1>1. CASE UNCHANGED vars
  BY <1>1 DEF vars, catalogVars
<1>2. ASSUME NEW t \in Tasks, Submit(t)
      PROVE  UNCHANGED <<catalogVars, overwritten>>
  BY <1>2 DEF Submit, SubmitUpdate, SubmitCreate
<1>3. ASSUME NEW t \in Tasks, TaskStep(t)
      PROVE  UNCHANGED <<onlineEnabled, spaceOnlineIds, listOnlineIds, deployedListIds, overwritten>>
  <2>1. CASE Start(t) \/ CountEnabled(t) \/ ReadList(t) \/ Validate(t) \/ FeaturesUpdated(t)
             \/ ReadSpace(t) \/ ReadStatus(t) \/ UpdateWarehouse(t) \/ WarehouseEnds(t)
    <3>1. UNCHANGED <<catalogVars, overwritten>>
      BY <2>1 DEF Start, CountEnabled, ReadList, Validate, FeaturesUpdated, ReadSpace, ReadStatus,
                  UpdateWarehouse, WarehouseEnds
    <3> QED
      BY <3>1 DEF catalogVars
  <2>2. CASE WriteDeployment(t) \/ WriteList(t) \/ UpdateSpace(t) \/ RevertList(t)
             \/ RevertSpace(t) \/ RevertStatus(t) \/ Restore(t)
    BY <2>2 DEF WriteDeployment, WriteList, UpdateSpace, RevertList, RevertSpace, RevertStatus,
                Restore
  <2> QED
    BY <1>3, <2>1, <2>2 DEF TaskStep, DeployStep, RevertStep
<1>4. ASSUME NEW t \in Tasks, Fault(t) \/ Crash(t)
      PROVE  UNCHANGED <<catalogVars, overwritten>>
  BY <1>4 DEF Fault, Crash
<1>5. ASSUME NEW s \in Spaces, WriteStatus(s)
      PROVE  UNCHANGED <<onlineEnabled, spaceOnlineIds, listOnlineIds, deployedListIds, overwritten>>
  BY <1>5 DEF WriteStatus
<1>6. ASSUME NEW s \in Spaces, NEW to \in Statuses, RequestStatus(s, to)
      PROVE  UNCHANGED <<catalogVars, overwritten>>
  BY <1>6 DEF RequestStatus
<1>7. ASSUME NEW f \in Features, ChangeReadiness(f)
      PROVE  UNCHANGED <<catalogVars, overwritten>>
  BY <1>7 DEF ChangeReadiness
<1> QED
  BY <1>1, <1>2, <1>3, <1>4, <1>5, <1>6, <1>7 DEF Next, catalogVars

(* What the two steps that change a feature do to its documents.           *)
LEMMA FeatureSteps ==
    ASSUME NEW t \in Tasks, DeploymentAssumption, TypeOK, UpdateFeature(t) \/ RevertFeature(t)
    PROVE  \E f \in Features, online \in BOOLEAN, ids \in SUBSET Lists :
             /\ SetOnline(f, online)
             /\ \/ /\ deployedListIds' = [deployedListIds EXCEPT ![f] = ids]
                   /\ online = (ids # {})
                   /\ overwritten' = overwritten \ {f}
                \/ /\ deployedListIds' = deployedListIds
                   /\ overwritten' = overwritten \cup {f}
<1>1. task[t].todo \subseteq Features
  BY DEF TypeOK, Task
<1>2. CASE UpdateFeature(t)
  <2>1. PICK f \in task[t].todo :
          LET ids == IncludeOrExclude(task[t].target, deployedListIds[f], ListUnder(t)) IN
          /\ SetOnline(f, ids # {})
          /\ deployedListIds' = [deployedListIds EXCEPT ![f] = ids]
          /\ overwritten' = overwritten \ {f}
    BY <1>2 DEF UpdateFeature
  <2> DEFINE ids == IncludeOrExclude(task[t].target, deployedListIds[f], ListUnder(t))
             online == ids # {}
  <2>2. /\ f \in Features /\ online \in BOOLEAN /\ online = (ids # {})
        /\ SetOnline(f, online)
        /\ deployedListIds' = [deployedListIds EXCEPT ![f] = ids]
        /\ overwritten' = overwritten \ {f}
    BY <1>1, <2>1
  <2>3. ids \in SUBSET Lists
    <3>1. task[t].deployment \in Deployments /\ deployedListIds[f] \subseteq Lists
      BY <1>1, <1>2, TaskPCs DEF UpdateFeature, TypeOK, TaskTypeOK, CatalogTypeOK
    <3> QED
      BY <3>1 DEF IncludeOrExclude, ListUnder, DeploymentAssumption
  <2> HIDE DEF ids, online
  <2> QED
    BY <2>2, <2>3
<1>3. CASE RevertFeature(t)
  <2>1. PICK f \in task[t].todo : /\ SetOnline(f, f \in task[t].seenOn)
                                  /\ overwritten' = overwritten \cup {f}
    BY <1>3 DEF RevertFeature
  <2> DEFINE online == f \in task[t].seenOn
  <2>2. /\ f \in Features /\ online \in BOOLEAN
        /\ SetOnline(f, online)
        /\ deployedListIds' = deployedListIds
        /\ overwritten' = overwritten \cup {f}
    BY <1>1, <1>3, <2>1 DEF RevertFeature
  <2> HIDE DEF online
  <2> QED
    BY <2>2
<1> QED
  BY <1>2, <1>3

(* The copies of the online flags agree with the flags in every reachable  *)
(* state, for any number of tasks, features and lists, with any faults.    *)
THEOREM MirrorsAgree == Spec => []OnlineMirrored
<1>1. Init => OnlineMirrored
  BY DEF Init, OnlineMirrored
<1>2. TypeOK /\ OnlineMirrored /\ [Next]_vars => OnlineMirrored'
  <2> SUFFICES ASSUME TypeOK, OnlineMirrored, [Next]_vars PROVE OnlineMirrored'
    OBVIOUS
  <2>1. ASSUME NEW t \in Tasks, UpdateFeature(t) \/ RevertFeature(t)
        PROVE  OnlineMirrored'
    BY <2>1, FeatureSteps, SetOnlineMirrors, DeploymentAssumption DEF TypeOK
  <2>2. CASE ~ \E t \in Tasks : UpdateFeature(t) \/ RevertFeature(t)
    BY <2>2, OtherSteps DEF OnlineMirrored
  <2> QED
    BY <2>1, <2>2
<1> QED
  BY <1>1, <1>2, TypeCorrect, PTL DEF Spec

(* A feature whose flag was last set by _update_feature is online exactly  *)
(* when it records a deployed feature list, whatever tasks interleave with *)
(* it, fail or die.                                                        *)
THEOREM OnlineFollowsDeployedIds == Spec => []OnlineIffDeployedIds
<1>1. Init => OnlineIffDeployedIds
  BY DEF Init, OnlineIffDeployedIds
<1>2. TypeOK /\ OnlineIffDeployedIds /\ [Next]_vars => OnlineIffDeployedIds'
  <2> SUFFICES ASSUME TypeOK, OnlineIffDeployedIds, [Next]_vars PROVE OnlineIffDeployedIds'
    OBVIOUS
  <2>0. /\ onlineEnabled \in [Features -> BOOLEAN]
        /\ deployedListIds \in [Features -> SUBSET Lists]
    BY DEF TypeOK, CatalogTypeOK
  <2>1. ASSUME NEW t \in Tasks, UpdateFeature(t) \/ RevertFeature(t)
        PROVE  OnlineIffDeployedIds'
    <3>1. PICK f \in Features, online \in BOOLEAN, ids \in SUBSET Lists :
             /\ SetOnline(f, online)
             /\ \/ /\ deployedListIds' = [deployedListIds EXCEPT ![f] = ids]
                   /\ online = (ids # {})
                   /\ overwritten' = overwritten \ {f}
                \/ /\ deployedListIds' = deployedListIds
                   /\ overwritten' = overwritten \cup {f}
      BY <2>1, FeatureSteps, DeploymentAssumption
    <3>2. onlineEnabled' = [onlineEnabled EXCEPT ![f] = online]
      BY <3>1 DEF SetOnline
    <3>3. CASE /\ deployedListIds' = [deployedListIds EXCEPT ![f] = ids]
               /\ online = (ids # {})
               /\ overwritten' = overwritten \ {f}
      <4>2. onlineEnabled'[f] = online /\ deployedListIds'[f] = ids
        BY <3>3, <3>2, <2>0
      <4>3. ASSUME NEW g \in Features \ overwritten, g # f
            PROVE  onlineEnabled'[g] <=> deployedListIds'[g] # {}
        <5>1. onlineEnabled'[g] = onlineEnabled[g] /\ deployedListIds'[g] = deployedListIds[g]
          BY <3>3, <4>3, <3>2, <2>0
        <5> QED
          BY <5>1, <4>3, Zenon DEF OnlineIffDeployedIds
      <4> QED
        BY <4>2, <4>3, <3>3 DEF OnlineIffDeployedIds
    <3>4. CASE /\ deployedListIds' = deployedListIds
               /\ overwritten' = overwritten \cup {f}
      <4> SUFFICES ASSUME NEW g \in (Features \ overwritten)'
                   PROVE  onlineEnabled'[g] <=> deployedListIds'[g] # {}
        BY DEF OnlineIffDeployedIds
      <4>1. g # f /\ g \in Features \ overwritten
        BY <3>4
      <4>2. onlineEnabled'[g] = onlineEnabled[g]
        BY <4>1, <3>2, <2>0
      <4> QED
        BY <4>1, <4>2, <3>4, Zenon DEF OnlineIffDeployedIds
    <3> QED
      BY <3>1, <3>3, <3>4
  <2>2. CASE ~ \E t \in Tasks : UpdateFeature(t) \/ RevertFeature(t)
    BY <2>2, OtherSteps DEF OnlineIffDeployedIds
  <2> QED
    BY <2>1, <2>2
<1> QED
  BY <1>1, <1>2, TypeCorrect, PTL DEF Spec
=============================================================================
