----------------------- MODULE DeploymentSerialProofs -----------------------
(***************************************************************************)
(* Theorems about Deployment when tasks run one at a time (MaxActive = 1), *)
(* for every value of the other constants: what the deployments, the       *)
(* feature lists, the features and the data warehouse agree on, and that   *)
(* switching a deployment is atomic for its users.                         *)
(***************************************************************************)
EXTENDS DeploymentProofs, FiniteSetTheorems

-----------------------------------------------------------------------------
(* The inductive invariant *)

(* One task or one status request is at work.                              *)
OneAtATime ==
    /\ \A t, u \in Active : t = u
    /\ \A s, z \in OpenRequests : s = z
    /\ Active = {} \/ OpenRequests = {}

(* A task that waits for the warehouse has a call, and no other has.       *)
CallsOwned == \A t \in Tasks : call[t].pc # "idle" <=> task[t].pc = "warehouse"

(* The jobs that are being stopped belong to a tile no online feature has. *)
StopsUnused == \A t \in Tasks : call[t].pc \in {"stopJob", "deleteJob"} => ~TileInUse(call[t].tile)

Wanted(c) == IF c.enabled THEN "on" ELSE "off"

(* What the deployment of a task is while it is switched.                  *)
DeploymentOK(t) ==
    LET c == task[t]
        d == c.deployment IN
    /\ c.create => ~c.enabled
    /\ c.create /\ c.pc \in {"queued", "start"} =>
         /\ deployment[d] = "absent"
         /\ \A u \in Tasks \ {t} : task[u].pc \in WorkingPCs => task[u].deployment # d
    /\ t \in Active =>
         /\ c.create => c.original = "absent"
         /\ ~c.create => c.original = IF c.enabled THEN "off" ELSE "on"
         /\ c.pc = "start" => deployment[d] = c.original
         /\ c.pc \notin {"start", "restore"} => deployment[d] = Wanted(c)
         /\ c.pc = "restore" => deployment[d] \in {c.original, Wanted(c)}

(* A task whose error handling has failed is about to end.                 *)
BrokenRestores == \A t \in Tasks : task[t].broken => task[t].pc = "restore"

(* Error handling itself has not failed.                                   *)
Unbroken == \A t \in Tasks : task[t].pc # "broken" /\ ~task[t].broken

(* The lists that users see deployed.                                      *)
PromisedLists == {ListOf[d] : d \in SeenEnabled}

SwitchingPCs == {"features", "warehouse", "space"}
Switching(l) == \E t \in Active : ListUnder(t) = l /\ task[t].pc \in SwitchingPCs
Reverting(l) == \E t \in Active : ListUnder(t) = l /\ task[t].pc = "revertList"

(* The lists are deployed as promised, except the one that is being        *)
(* switched; the namespaces and their status always are.                   *)
ListsOK ==
    \A l \in Lists : ~Switching(l) /\ ~Reverting(l) => (deployed[l] <=> l \in PromisedLists)

SpacesOK ==
    \A s \in Spaces :
        /\ spaceListIds[s] = {l \in Lists : l \in PromisedLists /\ SpaceOf[l] = s}
        /\ status[s] = "DEPLOYED" <=> spaceListIds[s] # {}
        /\ statusRequest[s] # None =>
             StatusChangeAllowed(status[s], statusRequest[s], spaceListIds[s])

CatalogOK == ListsOK /\ SpacesOK

(* What a task at work has read still holds.                               *)
ReadsOK(t) ==
    LET c == task[t]
        l == ListUnder(t) IN
    /\ c.pc \in {"readList", "validate"} \cup TryPCs => (c.target <=> l \in EnabledLists)
    /\ c.pc \in {"validate"} \cup TryPCs \cup RevertPCs => (c.before <=> l \in PromisedLists)
    /\ c.pc \in {"validate"} \cup TryPCs => c.target # c.before
    /\ c.pc \in SwitchingPCs => deployed[l] = c.target
    /\ c.pc \in {"revertSpace", "readStatus"} =>
         /\ c.readIds = spaceListIds[SpaceOf[l]]
         /\ c.wasDeployed = (status[SpaceOf[l]] = "DEPLOYED")
    /\ c.pc # "revertStatus"

Scheduled == OneAtATime /\ CallsOwned /\ BrokenRestores
Deploys == \A t \in Tasks : task[t].pc \in WorkingPCs => DeploymentOK(t)
Catalogs == Unbroken => CatalogOK /\ \A t \in Active : ReadsOK(t)

-----------------------------------------------------------------------------
(* Scheduling *)

(* A free slot means that nothing is at work.                              *)
LEMMA FreeSlot ==
    ASSUME MaxActive = 1, OneAtATime, HasSlot
    PROVE  Active = {} /\ OpenRequests = {}
<1>0. Cardinality({}) = 0 /\ \A x : Cardinality({x}) = 1
  BY FS_EmptySet, FS_Singleton
<1>1. ASSUME NEW t \in Active PROVE FALSE
  <2>1. Active = {t} /\ OpenRequests = {}
    BY <1>1 DEF OneAtATime
  <2>2. Cardinality(Active) = 1 /\ Cardinality(OpenRequests) = 0
    BY <1>0, <2>1, Zenon
  <2> QED
    BY <2>2 DEF HasSlot
<1>2. ASSUME NEW s \in OpenRequests PROVE FALSE
  <2>1. Active = {} /\ OpenRequests = {s}
    BY <1>2 DEF OneAtATime
  <2>2. Cardinality(Active) = 0 /\ Cardinality(OpenRequests) = 1
    BY <1>0, <2>1, Zenon
  <2> QED
    BY <2>2 DEF HasSlot
<1> QED
  BY <1>1, <1>2

(* The steps of a task that is at work.                                    *)
ActiveStep(t) == DeployStep(t) \/ RevertStep(t) \/ Fault(t) \/ Crash(t)

(* Only a task that is at work does anything but wait and start.           *)
LEMMA ActiveSteps ==
    ASSUME NEW t \in Tasks, ActiveStep(t)
    PROVE  t \in Active
<1>1. CASE DeployStep(t)
  BY <1>1, TaskPCs DEF DeployStep, WriteDeployment, CountEnabled, ReadList, Validate, WriteList,
     UpdateFeature, UpdateWarehouse, WarehouseEnds, FeaturesUpdated, UpdateSpace, Active
<1>2. CASE RevertStep(t)
  BY <1>2, TaskPCs DEF RevertStep, RevertList, RevertFeature, ReadSpace, RevertSpace, ReadStatus,
     RevertStatus, Restore, Active
<1>3. CASE Fault(t)
  BY <1>3, TaskPCs DEF Fault, Active, RevertPCs
<1>4. CASE Crash(t)
  BY <1>4 DEF Crash, Active
<1> QED
  BY <1>1, <1>2, <1>3, <1>4, SMTT(30) DEF ActiveStep

(* What the loops over tiles do to the record of their call.               *)
LEMMA NextTileCall ==
    ASSUME NEW t \in Tasks, call \in [Tasks -> Call], NextTile(t)
    PROVE  \E k \in call[t].tiles :
             \/ /\ jobs[k]["ONLINE"] # {}
                /\ call' = [call EXCEPT ![t] = [call[t] EXCEPT !.tiles = @ \ {k}]]
             \/ /\ jobs[k]["ONLINE"] = {}
                /\ call' = [call EXCEPT ![t] = [call[t] EXCEPT !.tiles = @ \ {k}, !.pc = "startJob",
                                                               !.tile = k, !.type = "ONLINE"]]
<1>1. PICK k \in call[t].tiles :
        \/ /\ jobs[k]["ONLINE"] # {}
           /\ call' = [call EXCEPT ![t].tiles = @ \ {k}]
        \/ /\ jobs[k]["ONLINE"] = {}
           /\ call' = [call EXCEPT ![t].tiles = @ \ {k}, ![t].pc = "startJob",
                                   ![t].tile = k, ![t].type = "ONLINE"]
  BY DEF NextTile
<1>2. CASE jobs[k]["ONLINE"] # {}
  BY <1>1, <1>2
<1>3. CASE jobs[k]["ONLINE"] = {}
  <2>1. call' = [call EXCEPT ![t].tiles = @ \ {k}, ![t].pc = "startJob",
                             ![t].tile = k, ![t].type = "ONLINE"]
    BY <1>1, <1>3
  <2>2. call' = [call EXCEPT ![t] = [call[t] EXCEPT !.tiles = @ \ {k}, !.pc = "startJob",
                                                    !.tile = k, !.type = "ONLINE"]]
    BY <2>1, ZenonT(30)
  <2> QED
    BY <2>2, <1>3
<1> QED
  BY <1>2, <1>3, ZenonT(30)

LEMMA RemoveTileJobsCall ==
    ASSUME NEW t \in Tasks, call \in [Tasks -> Call], RemoveTileJobs(t)
    PROVE  \E k \in call[t].tiles :
             \/ /\ TileInUse(k)
                /\ call' = [call EXCEPT ![t] = [call[t] EXCEPT !.tiles = @ \ {k}]]
             \/ /\ ~TileInUse(k)
                /\ call' = [call EXCEPT ![t] = [call[t] EXCEPT !.tiles = @ \ {k}, !.pc = "stopJob",
                                                               !.tile = k, !.type = "ONLINE"]]
<1>1. PICK k \in call[t].tiles :
        \/ /\ TileInUse(k)
           /\ call' = [call EXCEPT ![t].tiles = @ \ {k}]
        \/ /\ ~TileInUse(k)
           /\ call' = [call EXCEPT ![t].tiles = @ \ {k}, ![t].pc = "stopJob",
                                   ![t].tile = k, ![t].type = "ONLINE"]
  BY DEF RemoveTileJobs
<1>2. CASE TileInUse(k)
  BY <1>1, <1>2
<1>3. CASE ~TileInUse(k)
  <2>1. call' = [call EXCEPT ![t].tiles = @ \ {k}, ![t].pc = "stopJob",
                             ![t].tile = k, ![t].type = "ONLINE"]
    BY <1>1, <1>3
  <2>2. call' = [call EXCEPT ![t] = [call[t] EXCEPT !.tiles = @ \ {k}, !.pc = "stopJob",
                                                    !.tile = k, !.type = "ONLINE"]]
    BY <2>1
  <2> QED
    BY <2>2, <1>3
<1> QED
  BY <1>2, <1>3

LEMMA FindQueryCall ==
    ASSUME NEW t \in Tasks, call \in [Tasks -> Call], FindQuery(t)
    PROVE  \E n \in call[t].todo :
             \/ /\ queries[n] = {}
                /\ call' = [call EXCEPT ![t] = [call[t] EXCEPT !.todo = @ \ {n}]]
             \/ \E d \in queries[n] :
                  call' = [call EXCEPT ![t] = [call[t] EXCEPT !.pc = "deleteQuery", !.todo = @ \ {n},
                                                              !.name = n, !.doc = d]]
<1>1. PICK n \in call[t].todo :
        \/ /\ queries[n] = {}
           /\ call' = [call EXCEPT ![t].todo = @ \ {n}]
        \/ \E d \in queries[n] :
             call' = [call EXCEPT ![t].pc = "deleteQuery", ![t].todo = @ \ {n},
                                  ![t].name = n, ![t].doc = d]
  BY DEF FindQuery
<1>2. CASE queries[n] = {} /\ call' = [call EXCEPT ![t].todo = @ \ {n}]
  BY <1>2
<1>3. ASSUME NEW d \in queries[n],
             call' = [call EXCEPT ![t].pc = "deleteQuery", ![t].todo = @ \ {n},
                                  ![t].name = n, ![t].doc = d]
      PROVE  call' = [call EXCEPT ![t] = [call[t] EXCEPT !.pc = "deleteQuery", !.todo = @ \ {n},
                                                         !.name = n, !.doc = d]]
  BY <1>3
<1> QED
  BY <1>1, <1>2, <1>3

LEMMA StopJobCall ==
    ASSUME NEW t \in Tasks, call \in [Tasks -> Call], StopJob(t)
    PROVE  LET docs == jobs[call[t].tile][call[t].type] IN
           \/ docs = {} /\ call' = [call EXCEPT ![t] = AfterStop(call[t])]
           \/ \E d \in docs : call' = [call EXCEPT ![t] = [call[t] EXCEPT !.pc = "deleteJob", !.doc = d]]
BY DEF StopJob

(* A statement of a call is followed by another or ends the call, and      *)
(* touches neither other calls nor other tasks.                            *)
LEMMA CallContinues ==
    ASSUME NEW t \in Tasks, WarehouseTypeOK, WarehouseStep(t)
    PROVE  /\ call[t].pc # "idle" /\ call'[t].pc # "idle"
           /\ \A u \in Tasks \ {t} : call'[u] = call[u]
<1>0. call \in [Tasks -> Call]
  BY DEF WarehouseTypeOK
<1>1. CASE ReadUnscheduled(t)
  BY <1>0, <1>1 DEF ReadUnscheduled, Ended, IdleCall, Call
<1>2. CASE InsertQuery(t) \/ QueriesInserted(t) \/ TilesScheduled(t)
  BY <1>0, <1>2 DEF InsertQuery, QueriesInserted, TilesScheduled, Call
<1>n. CASE NextTile(t)
  <2>1. PICK k \in call[t].tiles :
             \/ call' = [call EXCEPT ![t] = [call[t] EXCEPT !.tiles = @ \ {k}]]
             \/ call' = [call EXCEPT ![t] = [call[t] EXCEPT !.tiles = @ \ {k}, !.pc = "startJob",
                                                            !.tile = k, !.type = "ONLINE"]]
    BY <1>0, <1>n, NextTileCall
  <2>2. call[t].pc = "tiles" /\ call[t] \in Call
    BY <1>0, <1>n DEF NextTile
  <2> QED
    BY <1>0, <2>1, <2>2 DEF Call
<1>3. CASE StartJob(t)
  BY <1>0, <1>3 DEF StartJob, AfterJob, Call
<1>4. CASE CreateJob(t)
  BY <1>0, <1>4 DEF CreateJob, AfterJob, Ended, IdleCall, Call
<1>5. CASE GenerateHistoricalTiles(t) \/ PopulateFeatureStore(t) \/ EnableReturns(t)
  BY <1>0, <1>5 DEF GenerateHistoricalTiles, PopulateFeatureStore, EnableReturns, Ended, IdleCall,
                    Call
<1>6. CASE ReadNamesInUse(t) \/ DeleteQuery(t) \/ QueriesRemoved(t) \/ DisableReturns(t)
  <2>1. \E c \in {[call[t] EXCEPT !.pc = "removeQueries",
                                  !.todo = NamesOf[call[t].feature] \ NamesInUse(call[t].feature)],
                  [call[t] EXCEPT !.pc = "removeQueries", !.name = None, !.doc = 0],
                  [call[t] EXCEPT !.pc = "stopTiles"], Ended("returned")} :
          call' = [call EXCEPT ![t] = c]
    BY <1>0, <1>6 DEF ReadNamesInUse, DeleteQuery, QueriesRemoved, DisableReturns
  <2>2. call[t].pc \in {"disable", "deleteQuery", "removeQueries", "stopTiles"}
    BY <1>6 DEF ReadNamesInUse, DeleteQuery, QueriesRemoved, DisableReturns
  <2> QED
    BY <1>0, <2>1, <2>2 DEF Ended, IdleCall, Call
<1>7. CASE FindQuery(t)
  <2>1. PICK n \in call[t].todo :
             \/ call' = [call EXCEPT ![t] = [call[t] EXCEPT !.todo = @ \ {n}]]
             \/ \E d \in queries[n] :
                  call' = [call EXCEPT ![t] = [call[t] EXCEPT !.pc = "deleteQuery", !.todo = @ \ {n},
                                                              !.name = n, !.doc = d]]
    BY <1>0, <1>7, FindQueryCall
  <2>2. call[t].pc = "removeQueries" /\ call[t] \in Call
    BY <1>0, <1>7 DEF FindQuery
  <2> QED
    BY <1>0, <2>1, <2>2, ZenonT(30) DEF Call
<1>t. CASE RemoveTileJobs(t)
  <2>1. PICK k \in call[t].tiles :
             \/ call' = [call EXCEPT ![t] = [call[t] EXCEPT !.tiles = @ \ {k}]]
             \/ call' = [call EXCEPT ![t] = [call[t] EXCEPT !.tiles = @ \ {k}, !.pc = "stopJob",
                                                            !.tile = k, !.type = "ONLINE"]]
    BY <1>0, <1>t, RemoveTileJobsCall
  <2>2. call[t].pc = "stopTiles" /\ call[t] \in Call
    BY <1>0, <1>t DEF RemoveTileJobs
  <2> QED
    BY <1>0, <2>1, <2>2 DEF Call
<1>8. CASE StopJob(t)
  <2>1. \/ call' = [call EXCEPT ![t] = AfterStop(call[t])]
        \/ \E d : call' = [call EXCEPT ![t] = [call[t] EXCEPT !.pc = "deleteJob", !.doc = d]]
    BY <1>0, <1>8, StopJobCall
  <2>2. call[t].pc = "stopJob" /\ call[t] \in Call
    BY <1>0, <1>8 DEF StopJob
  <2>3. AfterStop(call[t]).pc \in {"stopJob", "stopTiles"}
    BY <2>2 DEF Call, AfterStop
  <2> QED
    BY <1>0, <2>1, <2>2, <2>3 DEF Call
<1>9. CASE DeleteJob(t)
  BY <1>0, <1>9, ZenonT(30) DEF DeleteJob, AfterStop, Ended, IdleCall, Call
<1> QED
  BY <1>1, <1>2, <1>n, <1>3, <1>4, <1>5, <1>6, <1>7, <1>t, <1>8, <1>9
     DEF WarehouseStep, EnableStep, DisableStep

(* A step of a task changes the records of no other, and leaves the        *)
(* requests of users alone.                                                *)
LEMMA OneTaskMoves ==
    ASSUME NEW t \in Tasks, TypeOK, Submit(t) \/ Start(t) \/ ActiveStep(t)
    PROVE  /\ \A u \in Tasks \ {t} : task'[u] = task[u] /\ call'[u] = call[u]
           /\ UNCHANGED environmentVars
<1>0. task \in [Tasks -> Task] /\ call \in [Tasks -> Call] /\ WarehouseTypeOK
  BY DEF TypeOK, WarehouseTypeOK
<1>1. CASE Submit(t) \/ Start(t)
  BY <1>0, <1>1 DEF Submit, SubmitUpdate, SubmitCreate, Start, End, warehouseVars
<1>2. CASE WriteDeployment(t) \/ CountEnabled(t) \/ ReadList(t) \/ Validate(t)
  BY <1>0, <1>2 DEF WriteDeployment, CountEnabled, ReadList, Validate, Goto, End, warehouseVars
<1>3. CASE WriteList(t) \/ FeaturesUpdated(t) \/ UpdateSpace(t) \/ WarehouseEnds(t)
  BY <1>0, <1>3 DEF WriteList, FeaturesUpdated, UpdateSpace, WarehouseEnds, Goto, End, warehouseVars
<1>4. CASE UpdateWarehouse(t)
  BY <1>0, <1>4, CallContinues DEF UpdateWarehouse
<1>5. CASE UpdateFeature(t)
  BY <1>0, <1>5 DEF UpdateFeature
<1>6. CASE RevertStep(t)
  BY <1>0, <1>6 DEF RevertStep, RevertList, RevertFeature, ReadSpace, RevertSpace, ReadStatus,
                    RevertStatus, Restore, Goto, End, warehouseVars
<1>7. CASE Fault(t)
  BY <1>0, <1>7 DEF Fault, Goto, End, CallRaises
<1>8. CASE Crash(t)
  BY <1>0, <1>8 DEF Crash, End
<1> QED
  BY <1>1, <1>2, <1>3, <1>4, <1>5, <1>6, <1>7, <1>8 DEF ActiveStep, DeployStep

(* The records of tasks that wait and of tasks that have ended.            *)
LEMMA Ends ==
    ASSUME NEW t \in Tasks, task \in [Tasks -> Task], NEW pc, End(t, pc)
    PROVE  /\ task'[t].pc = pc /\ ~task'[t].broken /\ ~task'[t].create
           /\ \A u \in Tasks \ {t} : task'[u] = task[u]
BY DEF End, IdleTask

LEMMA Queued ==
    ASSUME NEW t \in Tasks, task \in [Tasks -> Task], Submit(t)
    PROVE  /\ task[t].pc = "idle"
           /\ task'[t].pc = "queued" /\ ~task'[t].broken
           /\ \A u \in Tasks \ {t} : task'[u] = task[u]
           /\ \E d \in Deployments :
                /\ task'[t].deployment = d
                /\ \/ /\ ~task'[t].create /\ deployment[d] # "absent"
                      /\ task'[t].enabled = (deployment[d] = "off")
                   \/ /\ task'[t].create /\ deployment[d] = "absent" /\ ~task'[t].enabled
                      /\ \A u \in Tasks : task[u].deployment # d
<1>1. ASSUME NEW d \in Deployments, SubmitUpdate(t, d)
      PROVE  /\ task[t].pc = "idle"
             /\ task'[t].pc = "queued" /\ ~task'[t].broken
             /\ \A u \in Tasks \ {t} : task'[u] = task[u]
             /\ task'[t].deployment = d /\ ~task'[t].create /\ deployment[d] # "absent"
             /\ task'[t].enabled = (deployment[d] = "off")
  <2>1. task' = [task EXCEPT ![t] = [IdleTask EXCEPT !.pc = "queued", !.deployment = d,
                                                     !.enabled = (deployment[d] = "off")]]
    BY <1>1 DEF SubmitUpdate
  <2>2. task[t].pc = "idle" /\ deployment[d] # "absent"
    BY <1>1 DEF SubmitUpdate, Fresh
  <2> QED
    BY <2>1, <2>2 DEF IdleTask
<1>2. ASSUME NEW d \in Deployments, SubmitCreate(t, d)
      PROVE  /\ task[t].pc = "idle"
             /\ task'[t].pc = "queued" /\ ~task'[t].broken
             /\ \A u \in Tasks \ {t} : task'[u] = task[u]
             /\ task'[t].deployment = d /\ task'[t].create /\ deployment[d] = "absent"
             /\ ~task'[t].enabled
             /\ \A u \in Tasks : task[u].deployment # d
  <2>1. task' = [task EXCEPT ![t] = [IdleTask EXCEPT !.pc = "queued", !.create = TRUE,
                                                     !.deployment = d]]
    BY <1>2 DEF SubmitCreate
  <2>2. /\ task[t].pc = "idle" /\ deployment[d] = "absent"
        /\ \A u \in Tasks : task[u].deployment # d
    BY <1>2 DEF SubmitCreate, Fresh
  <2> QED
    BY <2>1, <2>2 DEF IdleTask
<1> QED
  BY <1>1, <1>2 DEF Submit

(* A task that starts work has found a free slot.                          *)
LEMMA ActiveAfter ==
    ASSUME NEW t \in Tasks, TypeOK, Submit(t) \/ Start(t) \/ ActiveStep(t)
    PROVE  /\ Active' \subseteq Active \cup {t}
           /\ Submit(t) => t \notin Active'
<1>1. \A u \in Tasks \ {t} : task'[u] = task[u]
  BY OneTaskMoves
<1>2. ASSUME Submit(t) PROVE task'[t].pc = "queued"
  BY <1>2, Queued DEF TypeOK
<1> QED
  BY <1>1, <1>2 DEF Active

LEMMA CallFollowsTask ==
    ASSUME NEW t \in Tasks, TypeOK, CallsOwned, Submit(t) \/ Start(t) \/ ActiveStep(t)
    PROVE  call'[t].pc # "idle" <=> task'[t].pc = "warehouse"
<1>0. /\ task \in [Tasks -> Task] /\ call \in [Tasks -> Call] /\ WarehouseTypeOK
      /\ call[t].pc # "idle" <=> task[t].pc = "warehouse"
  BY DEF TypeOK, WarehouseTypeOK, CallsOwned
<1>1. CASE Submit(t)
  <2>1. UNCHANGED call
    BY <1>1 DEF Submit, SubmitUpdate, SubmitCreate, warehouseVars
  <2> QED
    BY <1>0, <1>1, <2>1, Queued, SMTT(30)
<1>2. CASE Start(t)
  <2>1. UNCHANGED call /\ task[t].pc = "queued"
    BY <1>2 DEF Start, warehouseVars
  <2>2. task'[t].pc \in {"start", "done", "refused"}
    BY <1>0, <1>2, Ends DEF Start, Task
  <2> QED
    BY <1>0, <2>1, <2>2
<1>3. CASE WriteDeployment(t) \/ CountEnabled(t) \/ ReadList(t) \/ Validate(t)
  <2>1. UNCHANGED call /\ task[t].pc # "warehouse"
    BY <1>3 DEF WriteDeployment, CountEnabled, ReadList, Validate, warehouseVars
  <2>2. task'[t].pc # "warehouse"
    BY <1>0, <1>3, Ends DEF WriteDeployment, CountEnabled, ReadList, Validate, Goto, Task
  <2> QED
    BY <1>0, <2>1, <2>2
<1>4. CASE WriteList(t) \/ FeaturesUpdated(t) \/ UpdateSpace(t)
  <2>1. UNCHANGED call /\ task[t].pc # "warehouse"
    BY <1>4 DEF WriteList, FeaturesUpdated, UpdateSpace, warehouseVars
  <2>2. task'[t].pc # "warehouse"
    BY <1>0, <1>4, Ends DEF WriteList, FeaturesUpdated, UpdateSpace, Goto, Task
  <2> QED
    BY <1>0, <2>1, <2>2
<1>5. CASE WarehouseEnds(t)
  BY <1>0, <1>5 DEF WarehouseEnds, Goto, IdleCall
<1>6. CASE UpdateWarehouse(t)
  BY <1>0, <1>6, CallContinues, SMTT(30) DEF UpdateWarehouse
<1>7. CASE UpdateFeature(t)
  <2>1. PICK f \in task[t].todo, changed \in BOOLEAN, online \in BOOLEAN :
          /\ task' = [task EXCEPT ![t] = [Remember(task[t], f) EXCEPT
                                            !.todo = task[t].todo \ {f},
                                            !.pc = IF changed THEN "warehouse" ELSE "features"]]
          /\ call' = IF changed THEN [call EXCEPT ![t] = NewCall(f, online)] ELSE call
    BY <1>7 DEF UpdateFeature
  <2>2. task'[t].pc = IF changed THEN "warehouse" ELSE "features"
    BY <1>0, <2>1 DEF Remember, Task
  <2>3. NewCall(f, online).pc \in {"enable", "disable"}
    BY DEF NewCall, IdleCall
  <2>4. changed => call'[t].pc \in {"enable", "disable"}
    BY <1>0, <2>1, <2>3
  <2>5. task[t].pc = "features"
    BY <1>7 DEF UpdateFeature
  <2> QED
    BY <1>0, <2>1, <2>2, <2>4, <2>5, SMTT(30)
<1>8. CASE RevertStep(t)
  <2>1. UNCHANGED call /\ task[t].pc # "warehouse"
    BY <1>8 DEF RevertStep, RevertList, RevertFeature, ReadSpace, RevertSpace, ReadStatus,
                RevertStatus, Restore, warehouseVars
  <2>2. CASE Restore(t)
    BY <1>0, <2>1, <2>2, Ends DEF Restore
  <2>3. CASE RevertList(t) \/ RevertFeature(t) \/ ReadSpace(t)
    BY <1>0, <2>1, <2>3 DEF RevertList, RevertFeature, ReadSpace, Task
  <2>4. CASE RevertSpace(t) \/ ReadStatus(t) \/ RevertStatus(t)
    BY <1>0, <2>1, <2>4 DEF RevertSpace, ReadStatus, RevertStatus, Goto, Task
  <2> QED
    BY <1>8, <2>2, <2>3, <2>4 DEF RevertStep
<1>9. CASE Fault(t)
  <2>1. CASE task[t].pc = "warehouse"
    BY <1>0, <1>9, <2>1 DEF Fault, CallRaises, Ended, IdleCall, RevertPCs
  <2>2. CASE task[t].pc # "warehouse"
    <3>1. call'[t].pc = "idle"
      BY <1>0, <1>9, <2>2 DEF Fault
    <3>2. task'[t].pc \in {"restore", "revertList", "broken"}
      BY <1>0, <1>9, <2>2, ZenonT(30) DEF Fault, Goto, End, Remember, Task, IdleTask
    <3> QED
      BY <3>1, <3>2
  <2> QED
    BY <2>1, <2>2
<1>c. CASE Crash(t)
  BY <1>0, <1>c DEF Crash, End, IdleTask, IdleCall
<1> QED
  BY <1>1, <1>2, <1>3, <1>4, <1>5, <1>6, <1>7, <1>8, <1>9, <1>c DEF ActiveStep, DeployStep

(* What a task at work keeps of its request.                               *)
SameRequest(t) ==
    /\ task'[t].create = task[t].create /\ task'[t].enabled = task[t].enabled
    /\ task'[t].deployment = task[t].deployment /\ task'[t].original = task[t].original

LEMMA RequestKept ==
    ASSUME NEW t \in Tasks, TypeOK, ActiveStep(t)
    PROVE  \/ task'[t].pc \in EndPCs
           \/ /\ task'[t].pc \in WorkingPCs \ {"queued", "start"} /\ SameRequest(t)
              /\ task[t].pc # "restore"
              /\ task'[t].broken = task[t].broken \/ task'[t].pc = "restore"
<1>0. task \in [Tasks -> Task]
  BY DEF TypeOK
<1> USE TaskPCs DEF SameRequest
<1>1. CASE WriteDeployment(t) \/ CountEnabled(t) \/ Validate(t)
  BY <1>0, <1>1 DEF WriteDeployment, CountEnabled, Validate, Goto, Task
<1>2. CASE ReadList(t)
  BY <1>0, <1>2, Ends DEF ReadList, Task
<1>3. CASE WriteList(t) \/ FeaturesUpdated(t) \/ WarehouseEnds(t)
  BY <1>0, <1>3 DEF WriteList, FeaturesUpdated, WarehouseEnds, Goto, Task
<1>4. CASE UpdateSpace(t) \/ Restore(t) \/ Crash(t)
  BY <1>0, <1>4, Ends DEF UpdateSpace, Restore, Crash
<1>5. CASE UpdateWarehouse(t)
  BY <1>0, <1>5 DEF UpdateWarehouse
<1>6. CASE UpdateFeature(t)
  BY <1>0, <1>6 DEF UpdateFeature, Remember, Task
<1>7. CASE RevertList(t) \/ RevertFeature(t) \/ ReadSpace(t)
  BY <1>0, <1>7 DEF RevertList, RevertFeature, ReadSpace, Task
<1>8. CASE RevertSpace(t) \/ ReadStatus(t) \/ RevertStatus(t)
  BY <1>0, <1>8 DEF RevertSpace, ReadStatus, RevertStatus, Goto, Task
<1>9. CASE Fault(t)
  <2>1. CASE task[t].pc = "warehouse"
    BY <1>0, <1>9, <2>1 DEF Fault, RevertPCs
  <2>2. CASE task[t].pc = "restore"
    BY <1>0, <1>9, <2>2, Ends DEF Fault, RevertPCs
  <2>3. CASE task[t].pc \in {"start", "count", "readList", "validate"} \cup RevertPCs
    BY <1>0, <1>9, <2>3 DEF Fault, RevertPCs, Goto, Task
  <2>4. CASE task[t].pc \in {"writeList", "features", "space"}
    <3>1. \/ Goto(t, "revertList")
          \/ \E f \in task[t].todo :
               task' = [task EXCEPT ![t] = [Remember(task[t], f) EXCEPT !.pc = "revertList"]]
      BY <1>9, <2>4 DEF Fault, RevertPCs
    <3>2. ASSUME NEW f,
                 task' = [task EXCEPT ![t] = [Remember(task[t], f) EXCEPT !.pc = "revertList"]]
          PROVE  task'[t].pc = "revertList" /\ SameRequest(t) /\ task'[t].broken = task[t].broken
      BY <1>0, <3>2 DEF Remember, Task
    <3>3. ASSUME Goto(t, "revertList")
          PROVE  task'[t].pc = "revertList" /\ SameRequest(t) /\ task'[t].broken = task[t].broken
      BY <1>0, <3>3 DEF Goto, Task
    <3>4. task'[t].pc = "revertList" /\ SameRequest(t) /\ task'[t].broken = task[t].broken
      BY <3>1, <3>2, <3>3
    <3> QED
      BY <2>4, <3>4
  <2> QED
    BY <1>9, <2>1, <2>2, <2>3, <2>4 DEF Fault
<1> QED
  BY <1>1, <1>2, <1>3, <1>4, <1>5, <1>6, <1>7, <1>8, <1>9 DEF ActiveStep, DeployStep, RevertStep

(* A task ends with a fresh record.                                        *)
LEMMA EndsUnbroken ==
    ASSUME NEW t \in Tasks, TypeOK, ActiveStep(t), task'[t].pc \in EndPCs
    PROVE  /\ ~task'[t].broken
           /\ \/ UpdateSpace(t) \/ ReadList(t) \/ Restore(t)
              \/ task'[t].pc = "broken"
<1>0. task \in [Tasks -> Task]
  BY DEF TypeOK
<1>1. CASE UpdateSpace(t) \/ Restore(t) \/ Crash(t)
  BY <1>0, <1>1, Ends DEF UpdateSpace, Restore, Crash
<1>2. CASE ReadList(t)
  BY <1>0, <1>2, Ends, TaskPCs DEF ReadList, Task
<1>3. CASE Fault(t)
  <2>1. CASE task[t].pc = "restore"
    BY <1>0, <1>3, <2>1, Ends DEF Fault, RevertPCs
  <2>2. CASE task[t].pc # "restore"
    <3>1. \/ Goto(t, "restore") \/ Goto(t, "revertList")
          \/ \E f \in task[t].todo :
               task' = [task EXCEPT ![t] = [Remember(task[t], f) EXCEPT !.pc = "revertList"]]
          \/ task[t].pc = "warehouse" /\ task' = task
          \/ task' = [task EXCEPT ![t].pc = "restore", ![t].broken = TRUE]
      BY <1>3, <2>2 DEF Fault
    <3>2. ASSUME NEW f,
                 task' = [task EXCEPT ![t] = [Remember(task[t], f) EXCEPT !.pc = "revertList"]]
          PROVE  FALSE
      <4>1. task'[t].pc = "revertList"
        BY <1>0, <3>2 DEF Remember, Task
      <4> QED
        BY <4>1, TaskPCs
    <3>3. CASE \/ Goto(t, "restore") \/ Goto(t, "revertList")
               \/ task[t].pc = "warehouse" /\ task' = task
      BY <1>0, <3>3, TaskPCs DEF Goto, Task
    <3>4. CASE task' = [task EXCEPT ![t].pc = "restore", ![t].broken = TRUE]
      BY <1>0, <3>4, TaskPCs DEF Task
    <3> QED
      BY <3>1, <3>2, <3>3, <3>4, TaskPCs
  <2> QED
    BY <2>1, <2>2
<1>4. CASE \/ WriteDeployment(t) \/ CountEnabled(t) \/ Validate(t) \/ WriteList(t)
           \/ FeaturesUpdated(t) \/ WarehouseEnds(t)
  BY <1>0, <1>4, TaskPCs DEF WriteDeployment, CountEnabled, Validate, WriteList, FeaturesUpdated,
                             WarehouseEnds, Goto, Task
<1>5. CASE UpdateFeature(t)
  <2>1. PICK f \in task[t].todo, pc \in {"warehouse", "features"} :
          task' = [task EXCEPT ![t] = [Remember(task[t], f) EXCEPT !.todo = task[t].todo \ {f},
                                                                   !.pc = pc]]
    BY <1>5 DEF UpdateFeature
  <2>2. task'[t].pc = pc
    BY <1>0, <2>1 DEF Remember, Task
  <2> QED
    BY <2>2, TaskPCs, SMTT(30)
<1>w. CASE UpdateWarehouse(t)
  BY <1>w, TaskPCs DEF UpdateWarehouse
<1>6. CASE RevertList(t) \/ RevertFeature(t) \/ ReadSpace(t) \/ RevertSpace(t) \/ ReadStatus(t)
           \/ RevertStatus(t)
  BY <1>0, <1>6, TaskPCs DEF RevertList, RevertFeature, ReadSpace, RevertSpace, ReadStatus,
                             RevertStatus, Goto, Task
<1> QED
  BY <1>1, <1>2, <1>3, <1>4, <1>5, <1>w, <1>6 DEF ActiveStep, DeployStep, RevertStep

(* What the steps that no task takes leave alone.                          *)
EnvironmentStep ==
    \/ \E s \in Spaces : WriteStatus(s) \/ \E target \in Statuses : RequestStatus(s, target)
    \/ \E f \in Features : ChangeReadiness(f)

LEMMA EnvironmentMoves ==
    ASSUME EnvironmentStep
    PROVE  UNCHANGED <<onlineEnabled, deployment, deployed, listOnlineIds, deployedListIds,
                       spaceOnlineIds, spaceListIds, warehouseVars, task, faults, overwritten>>
<1>1. ASSUME NEW s \in Spaces, WriteStatus(s)
      PROVE  UNCHANGED <<onlineEnabled, deployment, deployed, listOnlineIds, deployedListIds,
                       spaceOnlineIds, spaceListIds, warehouseVars, task, faults, overwritten>>
  BY <1>1 DEF WriteStatus
<1>2. ASSUME NEW s \in Spaces, NEW target \in Statuses, RequestStatus(s, target)
      PROVE  UNCHANGED <<catalogVars, warehouseVars, task, faults, overwritten>>
  BY <1>2 DEF RequestStatus
<1>3. ASSUME NEW f \in Features, ChangeReadiness(f)
      PROVE  UNCHANGED <<catalogVars, warehouseVars, task, faults, overwritten>>
  BY <1>3 DEF ChangeReadiness
<1> QED
  BY <1>1, <1>2, <1>3 DEF EnvironmentStep, catalogVars

(* Every step is one of a task that is submitted, starts or is at work, or *)
(* one of the environment.                                                 *)
LEMMA Steps ==
    ASSUME [Next]_vars
    PROVE  \/ UNCHANGED vars
           \/ EnvironmentStep
           \/ \E t \in Tasks : Submit(t) \/ Start(t) \/ ActiveStep(t)
BY DEF Next, EnvironmentStep, TaskStep, ActiveStep

LEMMA ScheduledStep ==
    ASSUME MaxActive = 1, TypeOK, Scheduled, [Next]_vars
    PROVE  Scheduled'
<1>0. OneAtATime /\ CallsOwned /\ BrokenRestores /\ task \in [Tasks -> Task]
  BY DEF Scheduled, TypeOK
<1>1. CASE UNCHANGED vars
  BY <1>0, <1>1 DEF vars, environmentVars, warehouseVars, Scheduled, OneAtATime, CallsOwned, Active,
                    OpenRequests, BrokenRestores
<1>2. CASE EnvironmentStep
  <2>1. Active' = Active /\ CallsOwned' /\ BrokenRestores'
    BY <1>0, <1>2, EnvironmentMoves DEF Active, CallsOwned, BrokenRestores, warehouseVars
  <2>2. ASSUME NEW s \in Spaces, NEW target \in Statuses, RequestStatus(s, target)
        PROVE  OneAtATime'
    <3>1. Active = {} /\ OpenRequests = {}
      BY <1>0, <2>2, FreeSlot DEF RequestStatus
    <3>2. OpenRequests' \subseteq {s}
      BY <2>2, <3>1 DEF RequestStatus, OpenRequests, TypeOK, EnvironmentTypeOK
    <3> QED
      BY <2>1, <3>1, <3>2 DEF OneAtATime
  <2>3. ASSUME NEW s \in Spaces, WriteStatus(s) PROVE OneAtATime'
    <3>1. OpenRequests' \subseteq OpenRequests
      BY <2>3 DEF WriteStatus, OpenRequests, TypeOK, EnvironmentTypeOK
    <3> QED
      BY <1>0, <2>1, <3>1 DEF OneAtATime
  <2>4. ASSUME NEW f \in Features, ChangeReadiness(f) PROVE OneAtATime'
    <3>1. OpenRequests' = OpenRequests
      BY <2>4 DEF ChangeReadiness, OpenRequests
    <3> QED
      BY <1>0, <2>1, <3>1 DEF OneAtATime
  <2> QED
    BY <1>2, <2>1, <2>2, <2>3, <2>4 DEF EnvironmentStep, Scheduled
<1>3. ASSUME NEW t \in Tasks, Submit(t) \/ Start(t) \/ ActiveStep(t)
      PROVE  Scheduled'
  <2>1. CallsOwned'
    BY <1>0, <1>3, CallFollowsTask, OneTaskMoves DEF CallsOwned
  <2>2. OpenRequests' = OpenRequests /\ Active' \subseteq Active \cup {t}
    BY <1>3, OneTaskMoves, ActiveAfter DEF OpenRequests, environmentVars
  <2>3. ASSUME Submit(t) PROVE OneAtATime'
    BY <1>0, <2>2, <2>3, ActiveAfter DEF OneAtATime
  <2>4. ASSUME Start(t) PROVE OneAtATime'
    BY <1>0, <2>2, <2>4, FreeSlot DEF Start, OneAtATime
  <2>5. ASSUME ActiveStep(t) PROVE OneAtATime'
    BY <1>0, <2>2, <2>5, ActiveSteps DEF OneAtATime
  <2>6. task'[t].broken => task'[t].pc = "restore"
    <3>1. CASE Submit(t)
      BY <1>0, <3>1, Queued
    <3>2. CASE Start(t)
      <4>1. ~task[t].broken
        BY <1>0, <3>2 DEF Start, BrokenRestores
      <4>2. End(t, "done") \/ End(t, "refused") => ~task'[t].broken
        BY <1>0, Ends
      <4> QED
        BY <1>0, <3>2, <4>1, <4>2 DEF Start, Task
    <3>3. CASE ActiveStep(t)
      <4>1. CASE task'[t].pc \in EndPCs
        BY <1>0, <3>3, <4>1, EndsUnbroken
      <4>2. CASE task'[t].pc \notin EndPCs
        BY <1>0, <3>3, <4>2, RequestKept DEF BrokenRestores
      <4> QED
        BY <4>1, <4>2
    <3> QED
      BY <1>3, <3>1, <3>2, <3>3
  <2>7. BrokenRestores'
    BY <1>0, <1>3, <2>6, OneTaskMoves DEF BrokenRestores
  <2> QED
    BY <1>3, <2>1, <2>3, <2>4, <2>5, <2>7 DEF Scheduled, OneAtATime
<1> QED
  BY <1>1, <1>2, <1>3, Steps

-----------------------------------------------------------------------------
(* The deployment under a task *)

(* When a task at work writes its deployment.                              *)
LEMMA DeploymentMoves ==
    ASSUME NEW t \in Tasks, TypeOK, ActiveStep(t)
    PROVE  \/ /\ task[t].pc = "start" /\ task'[t].pc = "count"
              /\ deployment' = [deployment EXCEPT ![task[t].deployment] = Wanted(task[t])]
           \/ /\ task[t].pc = "restore" /\ Restore(t)
           \/ /\ deployment' = deployment
              /\ task'[t].pc \notin EndPCs \cup {"restore"} => task[t].pc \notin {"start", "restore"}
<1>0. task \in [Tasks -> Task]
  BY DEF TypeOK
<1>1. CASE WriteDeployment(t)
  BY <1>0, <1>1 DEF WriteDeployment, Goto, Wanted, Task
<1>2. CASE CountEnabled(t) \/ ReadList(t) \/ Validate(t) \/ WriteList(t) \/ FeaturesUpdated(t)
           \/ UpdateFeature(t) \/ UpdateWarehouse(t) \/ WarehouseEnds(t) \/ UpdateSpace(t)
  BY <1>0, <1>2 DEF CountEnabled, ReadList, Validate, WriteList, FeaturesUpdated, UpdateFeature,
                    UpdateWarehouse, WarehouseEnds, UpdateSpace, catalogVars
<1>3. CASE RevertList(t) \/ RevertFeature(t) \/ ReadSpace(t) \/ RevertSpace(t) \/ ReadStatus(t)
           \/ RevertStatus(t)
  BY <1>0, <1>3 DEF RevertList, RevertFeature, ReadSpace, RevertSpace, ReadStatus, RevertStatus,
                    catalogVars
<1>4. CASE Restore(t)
  BY <1>4 DEF Restore
<1>5. CASE Fault(t)
  <2>1. deployment' = deployment
    BY <1>5 DEF Fault, catalogVars
  <2>2. task[t].pc \in {"start", "restore"} => task'[t].pc \in EndPCs \cup {"restore"}
    BY <1>0, <1>5, Ends, TaskPCs DEF Fault, Goto, RevertPCs, Task
  <2> QED
    BY <2>1, <2>2
<1>6. CASE Crash(t)
  BY <1>0, <1>6, Ends, TaskPCs DEF Crash, catalogVars
<1> QED
  BY <1>1, <1>2, <1>3, <1>4, <1>5, <1>6 DEF ActiveStep, DeployStep, RevertStep

(* The worker starts a task or drops it.                                   *)
LEMMA Started ==
    ASSUME NEW t \in Tasks, TypeOK, Start(t)
    PROVE  \/ task'[t].pc \in {"done", "refused"}
           \/ /\ task'[t].pc = "start"
              /\ task'[t].create = task[t].create /\ task'[t].enabled = task[t].enabled
              /\ task'[t].deployment = task[t].deployment
              /\ task'[t].broken = task[t].broken
              /\ \/ task[t].create /\ task'[t].original = "absent"
                 \/ /\ ~task[t].create /\ task'[t].original = deployment[task[t].deployment]
                    /\ deployment[task[t].deployment] # "absent"
                    /\ task[t].enabled # (deployment[task[t].deployment] = "on")
<1>0. task \in [Tasks -> Task]
  BY DEF TypeOK
<1>1. \/ End(t, "done") \/ End(t, "refused")
      \/ /\ task[t].create \/ (/\ deployment[task[t].deployment] # "absent"
                               /\ task[t].enabled # (deployment[task[t].deployment] = "on"))
         /\ task' = [task EXCEPT ![t].pc = "start",
                                 ![t].original = IF task[t].create THEN "absent"
                                                 ELSE deployment[task[t].deployment]]
  BY DEF Start
<1>2. CASE End(t, "done") \/ End(t, "refused")
  BY <1>0, <1>2, Ends
<1>3. CASE /\ task[t].create \/ (/\ deployment[task[t].deployment] # "absent"
                                 /\ task[t].enabled # (deployment[task[t].deployment] = "on"))
           /\ task' = [task EXCEPT ![t].pc = "start",
                                   ![t].original = IF task[t].create THEN "absent"
                                                   ELSE deployment[task[t].deployment]]
  BY <1>0, <1>3 DEF Task
<1> QED
  BY <1>1, <1>2, <1>3

(* Nobody else writes the deployment of a task, and it is what the task    *)
(* makes of it.                                                            *)
LEMMA DeploysStep ==
    ASSUME MaxActive = 1, TypeOK, TypeOK', Scheduled, Deploys, [Next]_vars
    PROVE  Deploys'
<1>0. /\ task \in [Tasks -> Task] /\ task' \in [Tasks -> Task]
      /\ deployment \in [Deployments -> DeploymentStates]
      /\ \A u \in Tasks : task[u].pc \in WorkingPCs => task[u].deployment \in Deployments
      /\ OneAtATime
  BY DEF TypeOK, CatalogTypeOK, TaskTypeOK, Scheduled
<1>1. ASSUME UNCHANGED <<task, deployment>>
      PROVE  Deploys'
  BY <1>1 DEF Deploys, DeploymentOK, Active
<1>2. ASSUME NEW t \in Tasks, Submit(t) PROVE Deploys'
  <2>0. deployment' = deployment
    BY <1>2 DEF Submit, SubmitUpdate, SubmitCreate, catalogVars
  <2>1. PICK d \in Deployments :
                /\ task'[t].deployment = d
                /\ \/ /\ ~task'[t].create /\ deployment[d] # "absent"
                      /\ task'[t].enabled = (deployment[d] = "off")
                   \/ /\ task'[t].create /\ deployment[d] = "absent" /\ ~task'[t].enabled
                      /\ \A u \in Tasks : task[u].deployment # d
    BY <1>0, <1>2, Queued
  <2>2. /\ task[t].pc = "idle" /\ task'[t].pc = "queued"
        /\ \A u \in Tasks \ {t} : task'[u] = task[u]
    BY <1>0, <1>2, Queued
  <2>3. DeploymentOK(t)'
    BY <2>0, <2>1, <2>2 DEF DeploymentOK, Active
  <2>4. ASSUME NEW u \in Tasks \ {t}, task'[u].pc \in WorkingPCs
        PROVE  DeploymentOK(u)'
    <3>1. DeploymentOK(u) /\ task'[u] = task[u]
      BY <2>2, <2>4 DEF Deploys
    <3>2. u \in Active' <=> u \in Active
      BY <3>1 DEF Active
    <3>3. task[u].create /\ task[u].pc \in {"queued", "start"} => task[u].deployment # d
      BY <2>1, <3>1 DEF DeploymentOK
    <3> QED
      BY <2>0, <2>1, <2>2, <3>1, <3>2, <3>3 DEF DeploymentOK, Wanted
  <2> QED
    BY <2>3, <2>4 DEF Deploys
<1>3. ASSUME NEW t \in Tasks, Start(t) \/ ActiveStep(t),
             \A u \in Tasks \ {t} :
                 task[u].pc \in WorkingPCs /\ task'[u].create /\ task'[u].pc \in {"queued", "start"} =>
                     deployment'[task'[u].deployment] = deployment[task'[u].deployment],
             task'[t].pc \in WorkingPCs =>
                 task'[t].deployment = task[t].deployment /\ DeploymentOK(t)'
      PROVE  Deploys'
  <2>1. \A u \in Tasks \ {t} : task'[u] = task[u]
    BY <1>3, OneTaskMoves
  <2>2. task[t].pc \in WorkingPCs
    BY <1>3, ActiveSteps, TaskPCs DEF Start, Active
  <2>3. ASSUME NEW u \in Tasks \ {t}, task'[u].pc \in WorkingPCs
        PROVE  DeploymentOK(u)'
    <3>1. u \notin Active'
      <4>1. CASE Start(t)
        <5>1. Active = {}
          BY <1>0, <4>1, FreeSlot DEF Start
        <5> QED
          BY <5>1, <2>1 DEF Active
      <4>2. CASE ActiveStep(t)
        BY <1>0, <2>1, <4>2, ActiveSteps DEF OneAtATime, Active
      <4> QED
        BY <1>3, <4>1, <4>2
    <3>2. DeploymentOK(u) /\ task'[u] = task[u]
      BY <2>1, <2>3 DEF Deploys
    <3> QED
      BY <1>3, <2>1, <2>2, <2>3, <3>1, <3>2 DEF DeploymentOK
  <2> QED
    BY <1>3, <2>3 DEF Deploys
<1>4. ASSUME NEW t \in Tasks, Start(t) PROVE Deploys'
  <2>1. deployment' = deployment /\ task[t].pc = "queued"
    BY <1>4 DEF Start, catalogVars
  <2>2. DeploymentOK(t)
    BY <2>1, TaskPCs DEF Deploys
  <2>3. \A u \in Tasks \ {t} : task'[u] = task[u]
    BY <1>4, OneTaskMoves
  <2>4. ASSUME task'[t].pc \in WorkingPCs
        PROVE  task'[t].deployment = task[t].deployment /\ DeploymentOK(t)'
    <3>1. /\ task'[t].pc = "start"
          /\ task'[t].create = task[t].create /\ task'[t].enabled = task[t].enabled
          /\ task'[t].deployment = task[t].deployment
          /\ \/ task[t].create /\ task'[t].original = "absent"
             \/ /\ ~task[t].create /\ task'[t].original = deployment[task[t].deployment]
                /\ deployment[task[t].deployment] # "absent"
                /\ task[t].enabled # (deployment[task[t].deployment] = "on")
      BY <1>4, <2>4, Started, TaskPCs
    <3>2. deployment[task[t].deployment] \in DeploymentStates
      BY <1>0, <2>1, TaskPCs
    <3>3. task[t].create \in BOOLEAN /\ task[t].enabled \in BOOLEAN
      BY <1>0 DEF Task
    <3> QED
      BY <2>1, <2>2, <2>3, <3>1, <3>2, <3>3 DEF DeploymentOK, DeploymentStates
  <2> QED
    BY <1>3, <1>4, <2>1, <2>4
<1>5. ASSUME NEW t \in Tasks, ActiveStep(t) PROVE Deploys'
  <2> DEFINE d == task[t].deployment
  <2>0. t \in Active /\ task[t].pc \in WorkingPCs
    BY <1>5, ActiveSteps DEF Active
  <2>1. DeploymentOK(t) /\ d \in Deployments /\ Wanted(task[t]) \in DeploymentStates
    BY <1>0, <2>0 DEF Deploys, Wanted, DeploymentStates
  <2>2. deployment' = deployment \/ \E x : deployment' = [deployment EXCEPT ![d] = x]
    BY <1>5, DeploymentMoves DEF Restore
  <2>3. \A u \in Tasks \ {t} :
           task[u].pc \in WorkingPCs /\ task'[u].create /\ task'[u].pc \in {"queued", "start"} =>
               deployment'[task'[u].deployment] = deployment[task'[u].deployment]
    <3> SUFFICES ASSUME NEW u \in Tasks \ {t}, task[u].pc \in WorkingPCs,
                        task'[u].create, task'[u].pc \in {"queued", "start"}
                 PROVE  deployment'[task'[u].deployment] = deployment[task'[u].deployment]
      OBVIOUS
    <3>1. task'[u] = task[u] /\ DeploymentOK(u) /\ task[u].deployment \in Deployments
      BY <1>0, <1>5, OneTaskMoves DEF Deploys
    <3>2. task[u].deployment # d
      BY <2>0, <3>1 DEF DeploymentOK
    <3> QED
      BY <1>0, <2>2, <3>1, <3>2
  <2>4. ASSUME task'[t].pc \in WorkingPCs
        PROVE  task'[t].deployment = task[t].deployment /\ DeploymentOK(t)'
    <3>1. SameRequest(t) /\ task'[t].pc \notin {"queued", "start"} /\ task'[t].pc \notin EndPCs
      BY <1>5, <2>4, RequestKept, TaskPCs
    <3>2. CASE /\ task[t].pc = "start" /\ task'[t].pc = "count"
               /\ deployment' = [deployment EXCEPT ![d] = Wanted(task[t])]
      <4>1. deployment'[d] = Wanted(task[t])
        BY <1>0, <2>1, <3>2
      <4> QED
        BY <2>0, <2>1, <3>1, <3>2, <4>1 DEF DeploymentOK, SameRequest, Wanted
    <3>3. CASE task[t].pc = "restore" /\ Restore(t)
      BY <1>0, <2>4, <3>3, Ends, TaskPCs DEF Restore
    <3>4. CASE /\ deployment' = deployment
               /\ task'[t].pc \notin EndPCs \cup {"restore"} => task[t].pc \notin {"start", "restore"}
      BY <2>0, <2>1, <3>1, <3>4 DEF DeploymentOK, SameRequest, Wanted
    <3> QED
      BY <1>5, <3>2, <3>3, <3>4, DeploymentMoves
  <2> QED
    BY <1>3, <1>5, <2>3, <2>4
<1>6. ASSUME UNCHANGED vars \/ EnvironmentStep PROVE UNCHANGED <<task, deployment>>
  BY <1>6, EnvironmentMoves DEF vars, catalogVars
<1> QED
  BY <1>1, <1>2, <1>4, <1>5, <1>6, Steps

-----------------------------------------------------------------------------
(* What users see *)

Enabled == {d \in Deployments : deployment[d] = "on"}

(* While a task is at work, its deployment shows as it was.                *)
Shown(c) == {d \in Deployments : IF d = c.deployment THEN c.original = "on"
                                 ELSE deployment[d] = "on"}

LEMMA SeenQuiet == Active = {} => SeenEnabled = Enabled
BY DEF SeenEnabled, Enabled

LEMMA SeenQuietNext == Active' = {} => SeenEnabled' = Enabled'
BY DEF SeenEnabled, Enabled

LEMMA SeenAtWork ==
    ASSUME NEW t \in Tasks, Active = {t}, DeploymentOK(t)
    PROVE  SeenEnabled = Shown(task[t])
BY DEF SeenEnabled, Shown, DeploymentOK

LEMMA SeenAtWorkNext ==
    ASSUME NEW t \in Tasks, Active' = {t}, DeploymentOK(t)'
    PROVE  SeenEnabled' = Shown(task[t])'
BY DEF SeenEnabled, Shown, DeploymentOK

(* The one task at work, before and after its step.                        *)
LEMMA AtWork ==
    ASSUME NEW t \in Tasks, TypeOK, OneAtATime, Deploys, ActiveStep(t)
    PROVE  /\ Active = {t} /\ OpenRequests = {} /\ OpenRequests' = {}
           /\ DeploymentOK(t) /\ task[t].deployment \in Deployments
           /\ SeenEnabled = Shown(task[t])
           /\ task'[t].pc \in EndPCs => Active' = {}
           /\ task'[t].pc \notin EndPCs => /\ Active' = {t} /\ SameRequest(t)
                                           /\ task'[t].pc \in WorkingPCs
<1>1. Active = {t} /\ OpenRequests = {}
  BY ActiveSteps DEF OneAtATime
<1>2. OpenRequests' = OpenRequests
  BY OneTaskMoves DEF OpenRequests, environmentVars
<1>3. task[t].pc \in WorkingPCs
  BY <1>1 DEF Active
<1>4. DeploymentOK(t) /\ task[t].deployment \in Deployments
  BY <1>3 DEF Deploys, TypeOK, TaskTypeOK
<1>5. Active' \subseteq {t}
  BY <1>1, ActiveAfter
<1>6. task'[t].pc \in EndPCs => Active' = {}
  BY <1>5, TaskPCs DEF Active
<1>7. task'[t].pc \notin EndPCs => /\ Active' = {t} /\ SameRequest(t)
                                   /\ task'[t].pc \in WorkingPCs
  BY <1>5, RequestKept DEF Active
<1> QED
  BY <1>1, <1>2, <1>4, <1>6, <1>7, SeenAtWork

(* Until the task ends, users see what they saw before it started.         *)
LEMMA SeenKept ==
    ASSUME NEW t \in Tasks, TypeOK, OneAtATime, Deploys, Deploys', ActiveStep(t),
           task'[t].pc \notin EndPCs
    PROVE  SeenEnabled' = SeenEnabled
<1>1. /\ Active' = {t} /\ task'[t].deployment = task[t].deployment
      /\ task'[t].original = task[t].original
      /\ task'[t].pc \in WorkingPCs /\ SeenEnabled = Shown(task[t])
  BY AtWork DEF SameRequest
<1>2. deployment' = deployment \/ \E x : deployment' = [deployment EXCEPT ![task[t].deployment] = x]
  BY DeploymentMoves DEF Restore
<1>3. \A d \in Deployments : d # task[t].deployment => deployment'[d] = deployment[d]
  BY <1>2 DEF TypeOK, CatalogTypeOK
<1>4. SeenEnabled' = Shown(task[t])'
  BY <1>1, SeenAtWorkNext DEF Deploys
<1> QED
  BY <1>1, <1>3, <1>4 DEF Shown

(* When it ends they see the switch, or what they saw if it was refused.   *)
LEMMA SeenAfter ==
    ASSUME NEW t \in Tasks, TypeOK, OneAtATime, Deploys, ActiveStep(t), task'[t].pc \in EndPCs,
           task'[t].pc # "broken"
    PROVE  \/ Restore(t) /\ SeenEnabled' = SeenEnabled
           \/ /\ ReadList(t) \/ UpdateSpace(t)
              /\ SeenEnabled' = Enabled /\ deployment' = deployment
              /\ deployment[task[t].deployment] = Wanted(task[t])
<1>0. /\ Active' = {} /\ SeenEnabled = Shown(task[t]) /\ DeploymentOK(t) /\ t \in Active
      /\ task[t].deployment \in Deployments
  BY AtWork
<1>1. ReadList(t) \/ UpdateSpace(t) \/ Restore(t)
  BY EndsUnbroken
<1>2. CASE ReadList(t) \/ UpdateSpace(t)
  <2>1. deployment' = deployment
    BY <1>2 DEF ReadList, UpdateSpace, catalogVars
  <2>2. task[t].pc \notin {"start", "restore"}
    BY <1>2 DEF ReadList, UpdateSpace
  <2> QED
    BY <1>0, <1>2, <2>1, <2>2, SeenQuietNext DEF Enabled, DeploymentOK
<1>3. CASE Restore(t)
  <2>1. deployment[task[t].deployment] # "absent"
    BY <1>3, Ends DEF Restore, TypeOK
  <2>2. deployment' = [deployment EXCEPT ![task[t].deployment] = task[t].original]
    BY <1>3, <2>1 DEF Restore
  <2>3. Enabled' = Shown(task[t])
    BY <1>0, <2>2 DEF Enabled, Shown, TypeOK, CatalogTypeOK
  <2> QED
    BY <1>0, <1>3, <2>3, SeenQuietNext
<1> QED
  BY <1>1, <1>2, <1>3

(* No other step changes it.                                               *)
LEMMA SeenElsewhere ==
    ASSUME MaxActive = 1, TypeOK, OneAtATime, Deploys,
           \/ UNCHANGED vars
           \/ EnvironmentStep
           \/ \E t \in Tasks : Submit(t) \/ Start(t)
    PROVE  SeenEnabled' = SeenEnabled /\ deployment' = deployment
<1>1. CASE UNCHANGED vars \/ EnvironmentStep
  BY <1>1, EnvironmentMoves DEF vars, catalogVars, SeenEnabled, Active
<1>2. ASSUME NEW t \in Tasks, Submit(t) \/ Start(t)
      PROVE  SeenEnabled' = SeenEnabled /\ deployment' = deployment
  <2>1. deployment' = deployment
    BY <1>2 DEF Submit, SubmitUpdate, SubmitCreate, Start, catalogVars
  <2>2. \A u \in Tasks \ {t} : task'[u] = task[u]
    BY <1>2, OneTaskMoves
  <2>3. CASE Submit(t)
    <3>1. t \notin Active /\ t \notin Active'
      BY <2>3, Queued, TaskPCs DEF Active, TypeOK
    <3>2. Active' = Active /\ \A u \in Active : task'[u] = task[u]
      BY <2>2, <3>1 DEF Active
    <3> QED
      BY <2>1, <3>2 DEF SeenEnabled
  <2>4. CASE Start(t)
    <3>1. Active = {}
      BY <2>4, FreeSlot DEF Start
    <3>2. Active' \subseteq {t} /\ (t \in Active' => task'[t].pc = "start")
      BY <2>4, <3>1, ActiveAfter, Started, TaskPCs DEF Active
    <3> QED
      BY <2>1, <3>1, <3>2 DEF SeenEnabled
  <2> QED
    BY <1>2, <2>1, <2>3, <2>4, SMTT(30)
<1> QED
  BY <1>1, <1>2

-----------------------------------------------------------------------------
(* The feature lists and their namespaces *)

(* Error handling that has failed stays so.                                *)
LEMMA UnbrokenBefore ==
    ASSUME TypeOK, Scheduled, [Next]_vars, Unbroken'
    PROVE  Unbroken
<1>1. CASE UNCHANGED vars \/ EnvironmentStep
  BY <1>1, EnvironmentMoves DEF vars, Unbroken
<1>2. ASSUME NEW t \in Tasks, Submit(t) \/ Start(t) \/ ActiveStep(t)
      PROVE  Unbroken
  <2>1. \A u \in Tasks \ {t} : task'[u] = task[u]
    BY <1>2, OneTaskMoves
  <2>2. task[t].pc # "broken"
    BY <1>2, Queued, ActiveSteps, TaskPCs DEF Start, Active, TypeOK
  <2>3. task[t].broken => task[t].pc = "restore"
    BY DEF Scheduled, BrokenRestores
  <2>4. ASSUME task[t].broken PROVE FALSE
    <3>1. ActiveStep(t) /\ task[t].pc = "restore"
      BY <1>2, <2>3, <2>4, Queued DEF Start, TypeOK
    <3>2. task'[t].pc \in EndPCs
      BY <3>1, RequestKept
    <3>3. task'[t].pc # "broken"
      BY DEF Unbroken
    <3>4. Restore(t)
      BY <3>1, <3>2, <3>3, EndsUnbroken DEF UpdateSpace, ReadList
    <3>5. task'[t].pc = "broken"
      BY <2>4, <3>4, Ends DEF Restore, TypeOK
    <3> QED
      BY <3>3, <3>5
  <2> QED
    BY <2>1, <2>2, <2>4 DEF Unbroken
<1> QED
  BY <1>1, <1>2, Steps

(* The list under a task need not be as promised while it is switched.     *)
LoosePCs == SwitchingPCs \cup {"revertList"}
ListOK(t, l) == \/ l = ListUnder(t) /\ task[t].pc \in LoosePCs
                \/ deployed[l] <=> l \in PromisedLists

LEMMA ListsAtWork ==
    ASSUME NEW t \in Tasks, Active = {t}
    PROVE  ListsOK <=> \A l \in Lists : ListOK(t, l)
BY DEF ListsOK, ListOK, Switching, Reverting, LoosePCs

LEMMA ListsAtWorkNext ==
    ASSUME NEW t \in Tasks, Active' = {t}
    PROVE  ListsOK' <=> \A l \in Lists : ListOK(t, l)'
BY DEF ListsOK, ListOK, Switching, Reverting, LoosePCs

LEMMA ListsQuietNext ==
    ASSUME Active' = {}
    PROVE  ListsOK' <=> \A l \in Lists : deployed'[l] <=> l \in PromisedLists'
BY DEF ListsOK, Switching, Reverting

(* A namespace is as promised, requests aside.                             *)
SpaceOK(s) ==
    /\ spaceListIds[s] = {l \in Lists : l \in PromisedLists /\ SpaceOf[l] = s}
    /\ status[s] = "DEPLOYED" <=> spaceListIds[s] # {}

LEMMA SpacesNext ==
    ASSUME OpenRequests' = {}, \A s \in Spaces : SpaceOK(s)'
    PROVE  SpacesOK'
BY DEF SpacesOK, SpaceOK, OpenRequests

(* What a task at work knows of lists: the one it switches, and others.    *)
LEMMA PromisedAtWork ==
    ASSUME NEW t \in Tasks, TypeOK, SeenEnabled = Shown(task[t]),
           task[t].deployment \in Deployments
    PROVE  /\ ListUnder(t) \in Lists /\ SpaceOf[ListUnder(t)] \in Spaces
           /\ PromisedLists \subseteq Lists /\ EnabledLists \subseteq Lists
           /\ \A l \in Lists : l # ListUnder(t) => (l \in PromisedLists <=> l \in EnabledLists)
<1>1. /\ \A d \in Deployments : ListOf[d] \in Lists
      /\ \A l \in Lists : SpaceOf[l] \in Spaces
  BY DeploymentAssumption
<1>2. \A d \in Deployments : d # task[t].deployment => (d \in SeenEnabled <=> deployment[d] = "on")
  BY DEF Shown
<1>3. SeenEnabled \subseteq Deployments
  BY DEF SeenEnabled
<1> QED
  BY <1>1, <1>2, <1>3 DEF PromisedLists, EnabledLists, ListUnder

(* A step that leaves the lists and the namespaces alone.                  *)
LEMMA Calm ==
    ASSUME NEW t \in Tasks, TypeOK, OneAtATime, Deploys, Deploys', CatalogOK, ReadsOK(t),
           ActiveStep(t), task'[t].pc \notin EndPCs,
           UNCHANGED <<deployed, spaceListIds, status>>,
           task'[t].target = task[t].target, task'[t].before = task[t].before,
           \/ task'[t].pc \in {"count", "restore"} /\ task[t].pc \notin LoosePCs
           \/ /\ deployment' = deployment
              /\ \/ task[t].pc = "validate" /\ task'[t].pc = "writeList"
                 \/ task[t].pc \in SwitchingPCs /\ task'[t].pc \in SwitchingPCs
                 \/ task[t].pc \in TryPCs /\ task'[t].pc = "revertList"
                 \/ task[t].pc = "revertFeatures" /\ task'[t].pc = "revertFeatures"
    PROVE  CatalogOK' /\ ReadsOK(t)'
<1>1. /\ Active = {t} /\ Active' = {t} /\ OpenRequests' = {}
      /\ task'[t].deployment = task[t].deployment
  BY AtWork DEF SameRequest
<1>2. PromisedLists' = PromisedLists
  BY SeenKept DEF PromisedLists
<1>3. ListsOK'
  <2>1. \A l \in Lists : ListOK(t, l)
    BY <1>1, ListsAtWork DEF CatalogOK
  <2>2. task[t].pc \in LoosePCs => task'[t].pc \in LoosePCs
    BY DEF LoosePCs, SwitchingPCs
  <2>3. \A l \in Lists : ListOK(t, l)'
    BY <1>1, <1>2, <2>1, <2>2 DEF ListUnder, ListOK
  <2> QED
    BY <1>1, <2>3, ListsAtWorkNext
<1>4. SpacesOK'
  BY <1>1, <1>2, SpacesNext DEF CatalogOK, SpacesOK, SpaceOK
<1>5. ReadsOK(t)'
  <2>1. CASE task'[t].pc \in {"count", "restore"}
    BY <2>1 DEF ReadsOK, TryPCs, RevertPCs, SwitchingPCs
  <2>2. CASE task'[t].pc \notin {"count", "restore"}
    <3>1. EnabledLists' = EnabledLists
      BY <2>2 DEF EnabledLists
    <3> QED
      BY <1>1, <1>2, <2>2, <3>1 DEF ListUnder, ReadsOK, TryPCs, RevertPCs, SwitchingPCs
  <2> QED
    BY <2>1, <2>2
<1> QED
  BY <1>3, <1>4, <1>5 DEF CatalogOK

(* Most steps of a task at work are calm.                                  *)
LEMMA CalmSteps ==
    ASSUME NEW t \in Tasks, TypeOK, OneAtATime, Deploys, Deploys', CatalogOK, ReadsOK(t),
           task'[t].pc \notin EndPCs, ~task'[t].broken,
           \/ WriteDeployment(t) \/ Validate(t) \/ UpdateFeature(t) \/ UpdateWarehouse(t)
           \/ WarehouseEnds(t) \/ FeaturesUpdated(t) \/ RevertFeature(t) \/ Fault(t)
    PROVE  CatalogOK' /\ ReadsOK(t)'
<1>0. task \in [Tasks -> Task]
  BY DEF TypeOK
<1>1. ActiveStep(t)
  BY SMTT(30) DEF ActiveStep, DeployStep, RevertStep
<1>2. UNCHANGED <<deployed, spaceListIds, status>>
  BY DEF WriteDeployment, Validate, UpdateFeature, UpdateWarehouse, WarehouseEnds,
         FeaturesUpdated, RevertFeature, Fault, catalogVars
<1> DEFINE Same == task'[t].target = task[t].target /\ task'[t].before = task[t].before
           Moved ==
             \/ task'[t].pc \in {"count", "restore"} /\ task[t].pc \notin LoosePCs
             \/ /\ deployment' = deployment
                /\ \/ task[t].pc = "validate" /\ task'[t].pc = "writeList"
                   \/ task[t].pc \in SwitchingPCs /\ task'[t].pc \in SwitchingPCs
                   \/ task[t].pc \in TryPCs /\ task'[t].pc = "revertList"
                   \/ task[t].pc = "revertFeatures" /\ task'[t].pc = "revertFeatures"
<1>3. CASE WriteDeployment(t) \/ Validate(t)
  <2>1. Same /\ Moved
    BY <1>0, <1>3 DEF WriteDeployment, Validate, Goto, Task, catalogVars, LoosePCs, SwitchingPCs
  <2> QED
    BY <1>1, <1>2, <2>1, Calm
<1>4. CASE UpdateFeature(t)
  <2>1. PICK f \in task[t].todo, pc \in {"warehouse", "features"} :
          task' = [task EXCEPT ![t] = [Remember(task[t], f) EXCEPT !.todo = task[t].todo \ {f},
                                                                   !.pc = pc]]
    BY <1>4 DEF UpdateFeature
  <2>2. task[t].pc = "features" /\ deployment' = deployment
    BY <1>4 DEF UpdateFeature
  <2>4. Same /\ task'[t].pc = pc
    BY <1>0, <2>1 DEF Remember, Task
  <2>3. Moved
    BY <2>2, <2>4 DEF SwitchingPCs
  <2> QED
    BY <1>1, <1>2, <2>3, <2>4, Calm
<1>5. CASE UpdateWarehouse(t) \/ FeaturesUpdated(t)
  <2>1. Same /\ Moved
    BY <1>0, <1>5 DEF UpdateWarehouse, FeaturesUpdated, Goto, Task, catalogVars, SwitchingPCs
  <2> QED
    BY <1>1, <1>2, <2>1, Calm
<1>6. CASE WarehouseEnds(t)
  <2>1. Same /\ Moved
    BY <1>0, <1>6 DEF WarehouseEnds, Goto, Task, catalogVars, SwitchingPCs, TryPCs
  <2> QED
    BY <1>1, <1>2, <2>1, Calm
<1>7. CASE RevertFeature(t)
  <2>1. Same /\ Moved
    BY <1>0, <1>7 DEF RevertFeature, Task
  <2> QED
    BY <1>1, <1>2, <2>1, Calm
<1>8. CASE Fault(t)
  <2>1. deployment' = deployment
    BY <1>8 DEF Fault, catalogVars
  <2>2. \/ task[t].pc \in {"start", "count", "readList", "validate"} /\ Goto(t, "restore")
        \/ /\ task[t].pc \in TryPCs
           /\ \/ Goto(t, "revertList")
              \/ \E f \in task[t].todo :
                   task' = [task EXCEPT ![t] = [Remember(task[t], f) EXCEPT !.pc = "revertList"]]
        \/ task[t].pc = "warehouse" /\ task' = task
        \/ task' = [task EXCEPT ![t].pc = "restore", ![t].broken = TRUE]
        \/ End(t, "broken")
    BY <1>8 DEF Fault, TryPCs
  <2>3. ASSUME End(t, "broken") PROVE FALSE
    BY <1>0, <2>3, Ends, TaskPCs
  <2>4. ASSUME task' = [task EXCEPT ![t].pc = "restore", ![t].broken = TRUE] PROVE FALSE
    BY <1>0, <2>4 DEF Task
  <2>5. CASE task[t].pc \in {"start", "count", "readList", "validate"} /\ Goto(t, "restore")
    <3>1. Same /\ Moved
      BY <1>0, <2>1, <2>5 DEF Goto, Task, LoosePCs, SwitchingPCs
    <3> QED
      BY <1>1, <1>2, <3>1, Calm
  <2>6. CASE task[t].pc \in TryPCs /\ Goto(t, "revertList")
    <3>1. Same /\ Moved
      BY <1>0, <2>1, <2>6 DEF Goto, Task
    <3> QED
      BY <1>1, <1>2, <3>1, Calm
  <2>7. ASSUME NEW f \in task[t].todo, task[t].pc \in TryPCs,
               task' = [task EXCEPT ![t] = [Remember(task[t], f) EXCEPT !.pc = "revertList"]]
        PROVE  CatalogOK' /\ ReadsOK(t)'
    <3>1. Same /\ task'[t].pc = "revertList"
      BY <1>0, <2>7 DEF Remember, Task
    <3> QED
      BY <1>1, <1>2, <2>1, <2>7, <3>1, Calm
  <2>8. CASE task[t].pc = "warehouse" /\ task' = task
    <3>1. Same /\ Moved
      BY <1>0, <2>1, <2>8 DEF SwitchingPCs
    <3> QED
      BY <1>1, <1>2, <3>1, Calm
  <2> QED
    BY <2>2, <2>3, <2>4, <2>5, <2>6, <2>7, <2>8
<1> QED
  BY <1>3, <1>4, <1>5, <1>6, <1>7, <1>8

(* The steps that read or write the list or its namespace.                 *)
LEMMA CatalogMoves ==
    ASSUME NEW t \in Tasks, TypeOK, OneAtATime, Deploys, Deploys', CatalogOK, ReadsOK(t),
           task'[t].pc \notin EndPCs, ~task'[t].broken,
           \/ CountEnabled(t) \/ ReadList(t) \/ WriteList(t) \/ RevertList(t) \/ ReadSpace(t)
           \/ RevertSpace(t) \/ ReadStatus(t) \/ RevertStatus(t)
    PROVE  CatalogOK' /\ ReadsOK(t)'
<1> DEFINE l == ListUnder(t)
           s == SpaceOf[l]
<1>0. /\ task \in [Tasks -> Task]
      /\ deployed \in [Lists -> BOOLEAN]
      /\ spaceListIds \in [Spaces -> SUBSET Lists]
  BY DEF TypeOK, CatalogTypeOK
<1>1. ActiveStep(t)
  BY DEF ActiveStep, DeployStep, RevertStep
<1>2. /\ Active = {t} /\ Active' = {t} /\ OpenRequests' = {} /\ ListUnder(t)' = l
      /\ l \in Lists /\ s \in Spaces
  BY <1>1, AtWork, PromisedAtWork DEF SameRequest, ListUnder
<1>3. PromisedLists' = PromisedLists
  BY <1>1, SeenKept DEF PromisedLists
<1>4. \A m \in Lists : ListOK(t, m)
  BY <1>2, ListsAtWork DEF CatalogOK
<1>5. \A z \in Spaces : SpaceOK(z)
  BY DEF CatalogOK, SpacesOK, SpaceOK
<1>6. deployment' = deployment /\ EnabledLists' = EnabledLists
  BY DEF CountEnabled, ReadList, WriteList, RevertList, ReadSpace, RevertSpace, ReadStatus,
         RevertStatus, catalogVars, EnabledLists
<1>7. ASSUME UNCHANGED <<spaceListIds, status>> PROVE SpacesOK'
  BY <1>2, <1>3, <1>5, <1>7, SpacesNext DEF SpaceOK
<1>8. ASSUME UNCHANGED deployed, task[t].pc \in LoosePCs => task'[t].pc \in LoosePCs PROVE ListsOK'
  <2>1. \A m \in Lists : ListOK(t, m)'
    BY <1>2, <1>3, <1>4, <1>8 DEF ListOK
  <2> QED
    BY <1>2, <2>1, ListsAtWorkNext
<1> USE DEF ReadsOK, TryPCs, RevertPCs, SwitchingPCs, LoosePCs
<1>9. CASE CountEnabled(t)
  <2>1. UNCHANGED <<deployed, spaceListIds, status>>
    BY <1>9 DEF CountEnabled, catalogVars
  <2>2. task[t].pc = "count" /\ task'[t].pc = "readList" /\ task'[t].target = (l \in EnabledLists)
    <3>1. PICK target \in BOOLEAN :
              /\ target <=> \E d \in Deployments : ListOf[d] = l /\ deployment[d] = "on"
              /\ task' = [task EXCEPT ![t].pc = "readList", ![t].target = target]
      BY <1>9 DEF CountEnabled
    <3>2. target = (l \in EnabledLists)
      BY <3>1 DEF EnabledLists
    <3>3. task'[t].pc = "readList" /\ task'[t].target = target
      BY <1>0, <3>1 DEF Task
    <3> QED
      BY <1>9, <3>2, <3>3 DEF CountEnabled
  <2>3. ReadsOK(t)'
    BY <1>2, <1>6, <2>2
  <2> QED
    BY <1>7, <1>8, <2>1, <2>2, <2>3 DEF CatalogOK
<1>10. CASE ReadList(t)
  <2>1. UNCHANGED <<deployed, spaceListIds, status>> /\ task[t].pc = "readList"
    BY <1>10 DEF ReadList, catalogVars
  <2>2. deployed[l] # task[t].target
    BY <1>0, <1>10, Ends, TaskPCs DEF ReadList
  <2>3. /\ task'[t].pc = "validate" /\ task'[t].target = task[t].target
        /\ task'[t].before = deployed[l]
    BY <1>0, <1>10, <2>2 DEF ReadList, Task
  <2>4. ReadsOK(t)'
    BY <1>2, <1>3, <1>4, <1>6, <2>1, <2>2, <2>3 DEF ListOK
  <2> QED
    BY <1>7, <1>8, <2>1, <2>3, <2>4 DEF CatalogOK
<1>11. CASE WriteList(t)
  <2>1. UNCHANGED <<spaceListIds, status>> /\ task[t].pc = "writeList"
    BY <1>11 DEF WriteList
  <2>2. deployed' = [deployed EXCEPT ![l] = task[t].target]
    BY <1>11 DEF WriteList
  <2>3. /\ task'[t].pc = "features" /\ task'[t].target = task[t].target
        /\ task'[t].before = task[t].before
    BY <1>0, <1>11 DEF WriteList, Task
  <2>4. \A m \in Lists : ListOK(t, m)'
    BY <1>0, <1>2, <1>3, <1>4, <2>1, <2>2, <2>3 DEF ListOK
  <2>5. ReadsOK(t)'
    BY <1>0, <1>2, <1>3, <1>6, <2>1, <2>2, <2>3
  <2> QED
    BY <1>2, <1>7, <2>1, <2>4, <2>5, ListsAtWorkNext DEF CatalogOK
<1>12. CASE RevertList(t)
  <2>1. UNCHANGED <<spaceListIds, status>> /\ task[t].pc = "revertList"
    BY <1>12 DEF RevertList
  <2>2. deployed' = [deployed EXCEPT ![l] = task[t].before]
    BY <1>12 DEF RevertList
  <2>3. task'[t].pc = "revertFeatures" /\ task'[t].before = task[t].before
    BY <1>0, <1>12 DEF RevertList, Task
  <2>4. \A m \in Lists : ListOK(t, m)'
    BY <1>0, <1>2, <1>3, <1>4, <2>1, <2>2, <2>3 DEF ListOK
  <2>5. ReadsOK(t)'
    BY <1>2, <1>3, <2>1, <2>3
  <2> QED
    BY <1>2, <1>7, <2>1, <2>4, <2>5, ListsAtWorkNext DEF CatalogOK
<1>13. CASE ReadSpace(t)
  <2>1. UNCHANGED <<deployed, spaceListIds, status>> /\ task[t].pc = "revertFeatures"
    BY <1>13 DEF ReadSpace, catalogVars
  <2>2. /\ task'[t].pc = "revertSpace" /\ task'[t].before = task[t].before
        /\ task'[t].readIds = spaceListIds[s] /\ task'[t].wasDeployed = (status[s] = "DEPLOYED")
    BY <1>0, <1>13 DEF ReadSpace, Task
  <2>3. ReadsOK(t)'
    BY <1>2, <1>3, <2>1, <2>2
  <2> QED
    BY <1>7, <1>8, <2>1, <2>2, <2>3 DEF CatalogOK
<1>14. ASSUME task[t].pc \in {"revertSpace", "readStatus"}
       PROVE  RevertedIds(t) = spaceListIds[s]
  <2>1. task[t].readIds = spaceListIds[s] /\ (task[t].before <=> l \in PromisedLists)
    BY <1>14
  <2>2. l \in spaceListIds[s] <=> l \in PromisedLists
    BY <1>2, <1>5 DEF SpaceOK
  <2> QED
    BY <2>1, <2>2 DEF RevertedIds, IncludeOrExclude
<1>15. CASE RevertSpace(t)
  <2>1. UNCHANGED <<deployed, status>> /\ task[t].pc = "revertSpace"
    BY <1>15 DEF RevertSpace
  <2>2. RevertedIds(t) = task[t].readIds
    BY <1>14, <2>1
  <2>3. UNCHANGED spaceListIds
    BY <1>15, <2>2 DEF RevertSpace
  <2>4. /\ task'[t].pc = "readStatus" /\ task'[t].before = task[t].before
        /\ task'[t].readIds = task[t].readIds /\ task'[t].wasDeployed = task[t].wasDeployed
    BY <1>0, <1>15 DEF RevertSpace, Goto, Task
  <2>5. ReadsOK(t)'
    BY <1>2, <1>3, <2>1, <2>3, <2>4
  <2> QED
    BY <1>7, <1>8, <2>1, <2>3, <2>4, <2>5 DEF CatalogOK
<1>16. CASE ReadStatus(t)
  <2>1. UNCHANGED <<deployed, spaceListIds, status>> /\ task[t].pc = "readStatus"
    BY <1>16 DEF ReadStatus, catalogVars
  <2>2. StatusAfter(RevertedIds(t), task[t].wasDeployed, status[s]) = status[s]
    <3>1. task[t].wasDeployed = (status[s] = "DEPLOYED")
      BY <2>1
    <3>2. status[s] = "DEPLOYED" <=> spaceListIds[s] # {}
      BY <1>2, <1>5 DEF SpaceOK
    <3>3. RevertedIds(t) = spaceListIds[s]
      BY <1>14, <2>1
    <3> QED
      BY <3>1, <3>2, <3>3 DEF StatusAfter
  <2>3. task'[t].pc = "restore"
    BY <1>0, <1>16, <2>2 DEF ReadStatus, Goto, Task
  <2>4. ReadsOK(t)'
    BY <2>3
  <2> QED
    BY <1>7, <1>8, <2>1, <2>3, <2>4 DEF CatalogOK
<1>17. ASSUME RevertStatus(t) PROVE FALSE
  BY <1>17 DEF RevertStatus
<1> QED
  BY <1>9, <1>10, <1>11, <1>12, <1>13, <1>15, <1>16, <1>17

(* The steps a task ends with.                                             *)
LEMMA CatalogEnds ==
    ASSUME NEW t \in Tasks, TypeOK, OneAtATime, Deploys, CatalogOK, ReadsOK(t), ActiveStep(t),
           task'[t].pc \in EndPCs, task'[t].pc # "broken"
    PROVE  CatalogOK'
<1> DEFINE l == ListUnder(t)
           s == SpaceOf[l]
<1>0. /\ task \in [Tasks -> Task]
      /\ deployed \in [Lists -> BOOLEAN]
      /\ spaceListIds \in [Spaces -> SUBSET Lists]
      /\ status \in [Spaces -> Statuses]
  BY DEF TypeOK, CatalogTypeOK
<1>1. /\ Active = {t} /\ Active' = {} /\ OpenRequests' = {}
      /\ l \in Lists /\ s \in Spaces
      /\ \A m \in Lists : m # l => (m \in PromisedLists <=> m \in EnabledLists)
      /\ PromisedLists \subseteq Lists /\ EnabledLists \subseteq Lists
  BY AtWork, PromisedAtWork
<1>2. \A m \in Lists : ListOK(t, m)
  BY <1>1, ListsAtWork DEF CatalogOK
<1>3. \A z \in Spaces : SpaceOK(z)
  BY DEF CatalogOK, SpacesOK, SpaceOK
<1>4. ASSUME UNCHANGED <<deployed, spaceListIds, status>>, PromisedLists' = PromisedLists,
             task[t].pc \notin LoosePCs
      PROVE  CatalogOK'
  <2>1. ListsOK'
    BY <1>1, <1>2, <1>4, ListsQuietNext DEF ListOK
  <2>2. SpacesOK'
    BY <1>1, <1>3, <1>4, SpacesNext DEF SpaceOK
  <2> QED
    BY <2>1, <2>2 DEF CatalogOK
<1>5. CASE Restore(t) /\ SeenEnabled' = SeenEnabled
  <2>1. UNCHANGED <<deployed, spaceListIds, status>> /\ task[t].pc = "restore"
    BY <1>5 DEF Restore
  <2> QED
    BY <1>4, <1>5, <2>1 DEF PromisedLists, LoosePCs, SwitchingPCs
<1>6. ASSUME SeenEnabled' = Enabled PROVE PromisedLists' = EnabledLists
  BY <1>6 DEF PromisedLists, EnabledLists, Enabled
<1>7. CASE ReadList(t) /\ SeenEnabled' = Enabled
  <2>1. UNCHANGED <<deployed, spaceListIds, status>> /\ task[t].pc = "readList"
    BY <1>7 DEF ReadList, catalogVars
  <2>2. deployed[l] = task[t].target
    <3>1. ASSUME deployed[l] # task[t].target PROVE FALSE
      <4>1. task'[t].pc = "validate"
        BY <1>0, <1>7, <3>1 DEF ReadList, Task
      <4> QED
        BY <4>1, TaskPCs
    <3> QED
      BY <3>1
  <2>3. deployed[l] <=> l \in EnabledLists
    BY <2>1, <2>2 DEF ReadsOK
  <2>4. deployed[l] <=> l \in PromisedLists
    BY <1>1, <1>2, <2>1 DEF ListOK, LoosePCs, SwitchingPCs
  <2>5. PromisedLists' = PromisedLists
    BY <1>1, <1>6, <1>7, <2>3, <2>4
  <2> QED
    BY <1>4, <2>1, <2>5 DEF LoosePCs, SwitchingPCs
<1>8. CASE UpdateSpace(t) /\ SeenEnabled' = Enabled
  <2> DEFINE ids == IncludeOrExclude(task[t].target, spaceListIds[s], l)
  <2>1. /\ task[t].pc = "space" /\ UNCHANGED deployed
        /\ spaceListIds' = [spaceListIds EXCEPT ![s] = ids]
        /\ status' = [status EXCEPT ![s] = StatusAfter(ids, @ = "DEPLOYED", @)]
    BY <1>8 DEF UpdateSpace
  <2>2. (task[t].target <=> l \in EnabledLists) /\ deployed[l] = task[t].target
    BY <2>1 DEF ReadsOK, TryPCs, SwitchingPCs
  <2>3. PromisedLists' = EnabledLists
    BY <1>6, <1>8
  <2>4. \A m \in Lists : deployed'[m] <=> m \in PromisedLists'
    <3>1. \A m \in Lists \ {l} : deployed[m] <=> m \in PromisedLists
      BY <1>2 DEF ListOK
    <3> QED
      BY <1>1, <2>1, <2>2, <2>3, <3>1
  <2>5. ids = {m \in Lists : m \in EnabledLists /\ SpaceOf[m] = s}
    <3>1. spaceListIds[s] = {m \in Lists : m \in PromisedLists /\ SpaceOf[m] = s}
      BY <1>1, <1>3 DEF SpaceOK
    <3>2. CASE task[t].target
      <4>1. ids = spaceListIds[s] \cup {l}
        BY <3>2 DEF IncludeOrExclude
      <4> QED
        BY <1>1, <2>2, <3>1, <3>2, <4>1
    <3>3. CASE ~task[t].target
      <4>1. ids = spaceListIds[s] \ {l}
        BY <3>3 DEF IncludeOrExclude
      <4> QED
        BY <1>1, <2>2, <3>1, <3>3, <4>1
    <3> QED
      BY <3>2, <3>3
  <2>6. ASSUME NEW z \in Spaces PROVE SpaceOK(z)'
    <3>1. CASE z = s
      <4>1. spaceListIds'[z] = ids /\ status'[z] = StatusAfter(ids, status[s] = "DEPLOYED", status[s])
        BY <1>0, <2>1, <3>1
      <4> QED
        BY <2>3, <2>5, <3>1, <4>1 DEF SpaceOK, StatusAfter
    <3>2. CASE z # s
      <4>1. spaceListIds'[z] = spaceListIds[z] /\ status'[z] = status[z]
        BY <1>0, <2>1, <3>2
      <4> QED
        BY <1>1, <1>3, <2>3, <3>2, <4>1 DEF SpaceOK
    <3> QED
      BY <3>1, <3>2
  <2> QED
    BY <1>1, <2>4, <2>6, ListsQuietNext, SpacesNext DEF CatalogOK
<1> QED
  BY <1>5, <1>7, <1>8, SeenAfter

(* The steps of users: a status that was validated is still allowed when   *)
(* it is written, because no task works in between.                        *)
LEMMA CatalogElsewhere ==
    ASSUME MaxActive = 1, TypeOK, OneAtATime, Deploys, CatalogOK,
           \A t \in Active : ReadsOK(t),
           \/ UNCHANGED vars
           \/ EnvironmentStep
           \/ \E t \in Tasks : Submit(t) \/ Start(t)
    PROVE  CatalogOK' /\ \A t \in Active' : ReadsOK(t)'
<1>0. /\ SeenEnabled' = SeenEnabled /\ deployment' = deployment
      /\ PromisedLists' = PromisedLists /\ EnabledLists' = EnabledLists
  BY SeenElsewhere, SMTT(30) DEF PromisedLists, EnabledLists
<1>1. deployed' = deployed /\ spaceListIds' = spaceListIds
  BY EnvironmentMoves DEF vars, catalogVars, Submit, SubmitUpdate, SubmitCreate, Start
<1>2. CASE UNCHANGED <<status, statusRequest, task>>
  <2>1. Active' = Active
    BY <1>2 DEF Active
  <2>2. ListsOK' /\ SpacesOK'
    BY <1>0, <1>1, <1>2, <2>1 DEF CatalogOK, ListsOK, SpacesOK, Switching, Reverting, ListUnder
  <2>3. \A t \in Active' : ReadsOK(t)'
    BY <1>0, <1>1, <1>2, <2>1, SMTT(30) DEF ReadsOK, ListUnder
  <2> QED
    BY <2>2, <2>3 DEF CatalogOK
<1>3. ASSUME NEW t \in Tasks, Submit(t) \/ Start(t)
      PROVE  CatalogOK' /\ \A u \in Active' : ReadsOK(u)'
  <2>1. UNCHANGED <<status, statusRequest>> /\ \A u \in Tasks \ {t} : task'[u] = task[u]
    BY <1>3, OneTaskMoves DEF Submit, SubmitUpdate, SubmitCreate, Start, catalogVars, environmentVars
  <2>2. t \notin Active /\ (t \in Active' => task'[t].pc = "start")
    BY <1>3, ActiveAfter, Queued, Started, TaskPCs DEF Active, Start, TypeOK
  <2>3. \A u \in Active' : \/ u \in Active /\ task'[u] = task[u]
                           \/ u = t /\ task'[u].pc = "start"
    BY <2>1, <2>2 DEF Active
  <2>4. \A u \in Active : u \in Active' /\ task'[u] = task[u]
    BY <2>1, <2>2 DEF Active
  <2>5. ListsOK'
    <3>1. \A l \in Lists : /\ Switching(l)' <=> Switching(l)
                           /\ Reverting(l)' <=> Reverting(l)
      BY <2>3, <2>4 DEF Switching, Reverting, ListUnder, SwitchingPCs
    <3> QED
      BY <1>0, <1>1, <3>1 DEF CatalogOK, ListsOK
  <2>6. SpacesOK'
    BY <1>0, <1>1, <2>1 DEF CatalogOK, SpacesOK
  <2>7. \A u \in Active' : ReadsOK(u)'
    BY <1>0, <1>1, <2>1, <2>3 DEF ReadsOK, ListUnder, TryPCs, RevertPCs, SwitchingPCs
  <2> QED
    BY <2>5, <2>6, <2>7, SMTT(30) DEF CatalogOK
<1>4. ASSUME EnvironmentStep, UNCHANGED task, SpacesOK', Active' = {}
      PROVE  CatalogOK' /\ \A t \in Active' : ReadsOK(t)'
  <2>1. Active' = Active
    BY <1>4 DEF Active
  <2>2. ListsOK'
    BY <1>0, <1>1, <1>4, <2>1 DEF CatalogOK, ListsOK, Switching, Reverting, ListUnder
  <2> QED
    BY <1>4, <2>2 DEF CatalogOK
<1>5. ASSUME NEW s \in Spaces, WriteStatus(s)
      PROVE  SpacesOK' /\ Active' = {}
  <2>1. statusRequest[s] # None /\ Active = {} /\ UNCHANGED task
    BY <1>5 DEF WriteStatus, OpenRequests, OneAtATime
  <2>2. StatusChangeAllowed(status[s], statusRequest[s], spaceListIds[s]) /\ SpaceOK(s)
    BY <2>1 DEF CatalogOK, SpacesOK, SpaceOK
  <2>3. statusRequest[s] = "DEPLOYED" <=> spaceListIds[s] # {}
    BY <2>2 DEF StatusChangeAllowed, SpaceOK
  <2>4. /\ status' = [status EXCEPT ![s] = statusRequest[s]]
        /\ statusRequest' = [statusRequest EXCEPT ![s] = None]
    BY <1>5 DEF WriteStatus
  <2>5. SpacesOK'
    BY <1>0, <1>1, <2>3, <2>4 DEF CatalogOK, SpacesOK, TypeOK, CatalogTypeOK, EnvironmentTypeOK
  <2> QED
    BY <2>1, <2>5 DEF Active
<1>6. ASSUME NEW s \in Spaces, NEW target \in Statuses, RequestStatus(s, target)
      PROVE  SpacesOK' /\ Active' = {}
  <2>1. Active = {} /\ UNCHANGED <<task, status>>
    BY <1>6, FreeSlot DEF RequestStatus, catalogVars
  <2>2. /\ statusRequest' = [statusRequest EXCEPT ![s] = target]
        /\ StatusChangeAllowed(status[s], target, spaceListIds[s])
    BY <1>6 DEF RequestStatus
  <2>3. SpacesOK'
    BY <1>0, <1>1, <2>1, <2>2 DEF CatalogOK, SpacesOK, TypeOK, CatalogTypeOK, EnvironmentTypeOK
  <2> QED
    BY <2>1, <2>3 DEF Active
<1>7. ASSUME NEW f \in Features, ChangeReadiness(f)
      PROVE  UNCHANGED <<status, statusRequest, task>>
  BY <1>7 DEF ChangeReadiness, catalogVars
<1>8. CASE UNCHANGED vars
  BY <1>2, <1>8 DEF vars, catalogVars, environmentVars
<1>9. CASE EnvironmentStep
  <2>1. UNCHANGED task
    BY <1>9, EnvironmentMoves
  <2> QED
    BY <1>2, <1>4, <1>5, <1>6, <1>7, <1>9, <2>1 DEF EnvironmentStep
<1> QED
  BY <1>3, <1>8, <1>9

LEMMA CatalogsStep ==
    ASSUME MaxActive = 1, TypeOK, Scheduled, Scheduled', Deploys, Deploys', Catalogs, [Next]_vars
    PROVE  Catalogs'
<1> SUFFICES ASSUME Unbroken'
             PROVE  CatalogOK' /\ \A t \in Active' : ReadsOK(t)'
  BY DEF Catalogs
<1>0. OneAtATime /\ CatalogOK /\ \A t \in Active : ReadsOK(t)
  BY UnbrokenBefore DEF Catalogs, Scheduled
<1>1. CASE UNCHANGED vars \/ EnvironmentStep \/ \E t \in Tasks : Submit(t) \/ Start(t)
  BY <1>0, <1>1, CatalogElsewhere
<1>2. ASSUME NEW t \in Tasks, ActiveStep(t)
      PROVE  CatalogOK' /\ \A u \in Active' : ReadsOK(u)'
  <2>1. ReadsOK(t) /\ ~task'[t].broken /\ task'[t].pc # "broken"
    BY <1>0, <1>2, ActiveSteps DEF Unbroken
  <2>2. CASE task'[t].pc \in EndPCs
    <3>1. Active' = {}
      BY <1>0, <1>2, <2>2, AtWork
    <3>2. CatalogOK'
      BY <1>0, <1>2, <2>1, <2>2, CatalogEnds
    <3> QED
      BY <3>1, <3>2
  <2>3. CASE task'[t].pc \notin EndPCs
    <3>1. Active' = {t}
      BY <1>0, <1>2, <2>3, AtWork
    <3>2. /\ ~UpdateSpace(t) /\ ~Restore(t) /\ ~Crash(t)
      BY <2>3, Ends, TaskPCs DEF UpdateSpace, Restore, Crash, TypeOK
    <3>3. CatalogOK' /\ ReadsOK(t)'
      BY <1>0, <1>2, <2>1, <2>3, <3>2, CalmSteps, CatalogMoves DEF ActiveStep, DeployStep, RevertStep
    <3> QED
      BY <3>1, <3>3
  <2> QED
    BY <2>2, <2>3
<1> QED
  BY <1>1, <1>2, Steps

-----------------------------------------------------------------------------
(* Tasks that run one at a time keep the catalog settled *)

SerialInv == Scheduled /\ Deploys /\ Catalogs

LEMMA SerialStep ==
    ASSUME MaxActive = 1, TypeOK, TypeOK', SerialInv, [Next]_vars
    PROVE  SerialInv'
<1>1. Scheduled'
  BY ScheduledStep DEF SerialInv
<1>2. Deploys'
  BY DeploysStep DEF SerialInv
<1>3. Catalogs'
  BY <1>1, <1>2, CatalogsStep DEF SerialInv
<1> QED
  BY <1>1, <1>2, <1>3 DEF SerialInv

LEMMA InitNothing ==
    ASSUME Init
    PROVE  /\ Active = {} /\ OpenRequests = {} /\ SeenEnabled = {} /\ PromisedLists = {}
           /\ \A t \in Tasks : /\ task[t].pc = "idle" /\ ~task[t].broken
                               /\ call[t] = IdleCall /\ call[t].pc = "idle"
<1>1. \A t \in Tasks : /\ task[t].pc = "idle" /\ ~task[t].broken
                       /\ call[t] = IdleCall /\ call[t].pc = "idle"
  BY DEF Init, FeatureManagerInit, IdleTask, IdleCall
<1>2. Active = {} /\ OpenRequests = {}
  BY <1>1, TaskPCs DEF Init, Active, OpenRequests
<1>3. SeenEnabled = {}
  BY <1>2, SeenQuiet DEF Init, Enabled
<1> QED
  BY <1>1, <1>2, <1>3 DEF PromisedLists

LEMMA SerialInit ==
    ASSUME Init
    PROVE  SerialInv
<1> USE InitNothing
<1>1. Scheduled
  BY DEF Scheduled, OneAtATime, CallsOwned, BrokenRestores
<1>2. Deploys
  BY TaskPCs DEF Deploys
<1>3. ListsOK
  BY DEF ListsOK, Init
<1>4. SpacesOK
  BY DEF SpacesOK, Init
<1> QED
  BY <1>1, <1>2, <1>3, <1>4 DEF SerialInv, Catalogs, CatalogOK

LEMMA SerialInvariant ==
    ASSUME MaxActive = 1
    PROVE  Spec => [](TypeOK /\ SerialInv)
<1>1. Init => SerialInv
  BY SerialInit
<1>2. TypeOK /\ TypeOK' /\ SerialInv /\ [Next]_vars => SerialInv'
  BY SerialStep
<1> QED
  BY <1>1, <1>2, TypeCorrect, PTL DEF Spec

(* Nothing has failed in its error handling when nothing runs and no task  *)
(* ended broken.                                                           *)
LEMMA QuietUnbroken ==
    ASSUME Scheduled, Quiet, NoneBroken
    PROVE  Unbroken
BY TaskPCs DEF Scheduled, BrokenRestores, Quiet, Active, NoneBroken, Unbroken

(* When tasks run one at a time, deployments, feature lists and namespaces *)
(* agree after every task, also when exceptions were raised at any of its  *)
(* statements and _revert_changes undid them (deploy.py, _update_feature_  *)
(* list and the except blocks around it).                                  *)
THEOREM DeploymentsSettle ==
    ASSUME MaxActive = 1
    PROVE  Spec => []SettledDeployment
<1>1. ASSUME TypeOK, SerialInv PROVE SettledDeployment
  <2> SUFFICES ASSUME Quiet, NoneBroken
               PROVE  /\ DeployedLists = EnabledLists
                      /\ \A s \in Spaces :
                           /\ spaceListIds[s] = {l \in DeployedLists : SpaceOf[l] = s}
                           /\ status[s] = "DEPLOYED" <=> spaceListIds[s] # {}
    BY DEF SettledDeployment
  <2>1. CatalogOK
    BY <1>1, QuietUnbroken DEF SerialInv, Catalogs
  <2>2. PromisedLists = EnabledLists
    BY SeenQuiet DEF Quiet, PromisedLists, EnabledLists, Enabled
  <2>3. EnabledLists \subseteq Lists
    BY DeploymentAssumption DEF EnabledLists
  <2>4. \A l \in Lists : deployed[l] <=> l \in PromisedLists
    BY <2>1 DEF CatalogOK, ListsOK, Switching, Reverting, Quiet
  <2>5. DeployedLists = EnabledLists
    BY <2>2, <2>3, <2>4 DEF DeployedLists
  <2> QED
    BY <2>1, <2>2, <2>3, <2>5 DEF CatalogOK, SpacesOK
<1> QED
  BY <1>1, SerialInvariant, PTL

-----------------------------------------------------------------------------
(* Jobs are stopped for unused tiles *)

StopPCs == {"stopJob", "deleteJob"}

(* A call that is at stopping jobs has found its tile unused, or was at it *)
(* already.                                                                *)
LEMMA StopsFollow ==
    ASSUME NEW t \in Tasks, WarehouseTypeOK, WarehouseStep(t), call'[t].pc \in StopPCs
    PROVE  \/ call[t].pc \in StopPCs /\ call'[t].tile = call[t].tile
           \/ ~TileInUse(call'[t].tile)
<1>0. call \in [Tasks -> Call]
  BY DEF WarehouseTypeOK
<1>e. ASSUME call' = [call EXCEPT ![t] = Ended("raised")] \/ call' = [call EXCEPT ![t] = Ended("returned")]
      PROVE  FALSE
  BY <1>0, <1>e DEF Ended, IdleCall, StopPCs
<1>j. ASSUME call' = [call EXCEPT ![t] = AfterJob(call[t])] PROVE FALSE
  <2>1. AfterJob(call[t]).pc \in {"startJob", "backfill"}
    BY <1>0 DEF AfterJob, Call
  <2> QED
    BY <1>0, <1>j, <2>1 DEF StopPCs
<1>r. ASSUME ReadUnscheduled(t) PROVE FALSE
  BY <1>0, <1>e, <1>r DEF ReadUnscheduled, StopPCs, Call
<1>1. ASSUME \/ InsertQuery(t) \/ QueriesInserted(t) \/ GenerateHistoricalTiles(t)
             \/ TilesScheduled(t) \/ PopulateFeatureStore(t)
      PROVE  FALSE
  BY <1>0, <1>1 DEF InsertQuery, QueriesInserted, GenerateHistoricalTiles, TilesScheduled,
                    PopulateFeatureStore, StopPCs, Call
<1>s. ASSUME StartJob(t) \/ CreateJob(t) \/ EnableReturns(t) PROVE FALSE
  BY <1>0, <1>e, <1>j, <1>s DEF StartJob, CreateJob, EnableReturns, StopPCs, Call
<1>2. CASE NextTile(t)
  <2>1. PICK k \in call[t].tiles :
             \/ call' = [call EXCEPT ![t] = [call[t] EXCEPT !.tiles = @ \ {k}]]
             \/ call' = [call EXCEPT ![t] = [call[t] EXCEPT !.tiles = @ \ {k}, !.pc = "startJob",
                                                            !.tile = k, !.type = "ONLINE"]]
    BY <1>0, <1>2, NextTileCall
  <2> QED
    BY <1>0, <1>2, <2>1 DEF NextTile, StopPCs, Call
<1>3. CASE ReadNamesInUse(t) \/ DeleteQuery(t) \/ QueriesRemoved(t) \/ DisableReturns(t)
  <2>1. \E c \in {[call[t] EXCEPT !.pc = "removeQueries",
                                  !.todo = NamesOf[call[t].feature] \ NamesInUse(call[t].feature)],
                  [call[t] EXCEPT !.pc = "removeQueries", !.name = None, !.doc = 0],
                  [call[t] EXCEPT !.pc = "stopTiles"], Ended("returned")} :
          call' = [call EXCEPT ![t] = c]
    BY <1>0, <1>3 DEF ReadNamesInUse, DeleteQuery, QueriesRemoved, DisableReturns
  <2> QED
    BY <1>0, <2>1 DEF StopPCs, Ended, IdleCall, Call
<1>4. CASE FindQuery(t)
  <2>1. PICK n \in call[t].todo :
             \/ call' = [call EXCEPT ![t] = [call[t] EXCEPT !.todo = @ \ {n}]]
             \/ \E d \in queries[n] :
                  call' = [call EXCEPT ![t] = [call[t] EXCEPT !.pc = "deleteQuery", !.todo = @ \ {n},
                                                              !.name = n, !.doc = d]]
    BY <1>0, <1>4, FindQueryCall
  <2>2. call[t].pc = "removeQueries" /\ call[t] \in Call
    BY <1>0, <1>4 DEF FindQuery
  <2>3. call'[t].pc \in {"removeQueries", "deleteQuery"}
    BY <1>0, <2>1, <2>2, ZenonT(30) DEF Call
  <2> QED
    BY <2>3 DEF StopPCs
<1>5. CASE RemoveTileJobs(t)
  <2>1. PICK k \in call[t].tiles :
             \/ call' = [call EXCEPT ![t] = [call[t] EXCEPT !.tiles = @ \ {k}]]
             \/ /\ ~TileInUse(k)
                /\ call' = [call EXCEPT ![t] = [call[t] EXCEPT !.tiles = @ \ {k}, !.pc = "stopJob",
                                                               !.tile = k, !.type = "ONLINE"]]
    BY <1>0, <1>5, RemoveTileJobsCall
  <2>2. call[t].pc = "stopTiles" /\ call[t] \in Call
    BY <1>0, <1>5 DEF RemoveTileJobs
  <2>3. CASE call' = [call EXCEPT ![t] = [call[t] EXCEPT !.tiles = @ \ {k}]]
    BY <1>0, <2>2, <2>3 DEF StopPCs, Call
  <2>4. CASE /\ ~TileInUse(k)
             /\ call' = [call EXCEPT ![t] = [call[t] EXCEPT !.tiles = @ \ {k}, !.pc = "stopJob",
                                                            !.tile = k, !.type = "ONLINE"]]
    <3>1. call'[t].tile = k
      BY <1>0, <2>2, <2>4 DEF Call
    <3> QED
      BY <2>4, <3>1
  <2> QED
    BY <2>1, <2>3, <2>4
<1>6. ASSUME call' = [call EXCEPT ![t] = AfterStop(call[t])], call[t].pc \in StopPCs
      PROVE  call[t].pc \in StopPCs /\ call'[t].tile = call[t].tile
  <2>1. AfterStop(call[t]).pc \in StopPCs => AfterStop(call[t]).tile = call[t].tile
    BY <1>0 DEF AfterStop, Call, StopPCs
  <2> QED
    BY <1>0, <1>6, <2>1
<1>7. CASE StopJob(t)
  <2>1. call[t].pc \in StopPCs
    BY <1>7 DEF StopJob, StopPCs
  <2>2. \/ call' = [call EXCEPT ![t] = AfterStop(call[t])]
        \/ \E d : call' = [call EXCEPT ![t] = [call[t] EXCEPT !.pc = "deleteJob", !.doc = d]]
    BY <1>0, <1>7, StopJobCall
  <2> QED
    BY <1>0, <1>6, <2>1, <2>2 DEF Call
<1>8. CASE DeleteJob(t)
  <2>1. call[t].pc \in StopPCs
    BY <1>8 DEF DeleteJob, StopPCs
  <2>2. \/ call' = [call EXCEPT ![t] = AfterStop(call[t])]
        \/ call' = [call EXCEPT ![t] = Ended("raised")]
    BY <1>0, <1>8 DEF DeleteJob
  <2> QED
    BY <1>0, <1>6, <2>1, <2>2 DEF Ended, IdleCall, StopPCs
<1> QED
  BY <1>r, <1>1, <1>s, <1>2, <1>3, <1>4, <1>5, <1>7, <1>8 DEF WarehouseStep, EnableStep, DisableStep

(* The flags of features change only where no call is running.             *)
LEMMA OnlineKept ==
    ASSUME NEW t \in Tasks, TypeOK, CallsOwned, OneAtATime, ActiveStep(t), onlineEnabled' # onlineEnabled
    PROVE  \A u \in Tasks : call[u].pc = "idle"
<1>1. task[t].pc # "warehouse" /\ t \in Active
  BY ActiveSteps, TaskPCs DEF ActiveStep, DeployStep, RevertStep, WriteDeployment, CountEnabled, ReadList,
     Validate, WriteList, UpdateFeature, UpdateWarehouse, WarehouseEnds, FeaturesUpdated, UpdateSpace,
     RevertList, RevertFeature, ReadSpace, RevertSpace, ReadStatus, RevertStatus, Restore,
     Fault, Crash, catalogVars
<1>2. ASSUME NEW u \in Tasks, call[u].pc # "idle" PROVE FALSE
  BY <1>1, <1>2, TaskPCs DEF CallsOwned, OneAtATime, Active
<1> QED
  BY <1>2, SMTT(30)

(* A task gets to stopping jobs by a statement of its call only.           *)
LEMMA StopsByCall ==
    ASSUME NEW t \in Tasks, TypeOK, Submit(t) \/ Start(t) \/ ActiveStep(t), call'[t].pc \in StopPCs
    PROVE  \/ call'[t] = call[t]
           \/ UpdateWarehouse(t) /\ WarehouseStep(t) /\ UNCHANGED onlineEnabled
<1>0. call \in [Tasks -> Call]
  BY SMTT(30) DEF TypeOK, WarehouseTypeOK
<1>1. CASE Submit(t) \/ Start(t) \/ RevertStep(t)
  BY <1>1 DEF Submit, SubmitUpdate, SubmitCreate, Start, RevertStep, RevertList, RevertFeature,
     ReadSpace, RevertSpace, ReadStatus, RevertStatus, Restore, warehouseVars
<1>2. CASE \/ WriteDeployment(t) \/ CountEnabled(t) \/ ReadList(t) \/ Validate(t) \/ WriteList(t)
           \/ FeaturesUpdated(t) \/ UpdateSpace(t)
  BY <1>2 DEF WriteDeployment, CountEnabled, ReadList, Validate, WriteList, FeaturesUpdated,
     UpdateSpace, warehouseVars
<1>3. CASE UpdateWarehouse(t)
  BY <1>3 DEF UpdateWarehouse, catalogVars
<1>4. CASE WarehouseEnds(t) \/ Crash(t)
  BY <1>0, <1>4 DEF WarehouseEnds, Crash, IdleCall, StopPCs
<1>5. CASE UpdateFeature(t)
  <2>1. PICK f \in task[t].todo, changed \in BOOLEAN, online \in BOOLEAN :
          call' = IF changed THEN [call EXCEPT ![t] = NewCall(f, online)] ELSE call
    BY <1>5 DEF UpdateFeature
  <2>2. NewCall(f, online).pc \notin StopPCs
    BY DEF NewCall, IdleCall, StopPCs
  <2> QED
    BY <1>0, <2>1, <2>2
<1>6. CASE Fault(t)
  BY <1>0, <1>6 DEF Fault, CallRaises, Ended, IdleCall, StopPCs
<1> QED
  BY <1>1, <1>2, <1>3, <1>4, <1>5, <1>6, SMTT(30) DEF ActiveStep, DeployStep

LEMMA StopsUnusedStep ==
    ASSUME TypeOK, Scheduled, StopsUnused, [Next]_vars
    PROVE  StopsUnused'
<1>0. /\ OneAtATime /\ CallsOwned
      /\ \A u \in Tasks : call[u].pc \in StopPCs => ~TileInUse(call[u].tile)
  BY DEF Scheduled, StopsUnused, StopPCs
<1>1. CASE UNCHANGED vars \/ EnvironmentStep
  <2>1. UNCHANGED <<call, onlineEnabled>>
    BY <1>1, EnvironmentMoves DEF vars, catalogVars, warehouseVars
  <2> QED
    BY <2>1 DEF StopsUnused, TileInUse
<1>2. ASSUME NEW t \in Tasks, Submit(t) \/ Start(t) \/ ActiveStep(t), NEW u \in Tasks,
             call'[u].pc \in StopPCs
      PROVE  ~TileInUse(call[u].tile)'
  <2>1. CASE call'[u] = call[u]
    <3>1. onlineEnabled' = onlineEnabled
      <4>1. CASE Submit(t) \/ Start(t)
        BY <4>1 DEF Submit, SubmitUpdate, SubmitCreate, Start, catalogVars
      <4>2. CASE ActiveStep(t)
        BY <1>0, <1>2, <2>1, <4>2, OnlineKept DEF StopPCs
      <4> QED
        BY <1>2, <4>1, <4>2, SMTT(30)
    <3> QED
      BY <1>0, <1>2, <2>1, <3>1, SMTT(30) DEF TileInUse
  <2>2. CASE call'[u] # call[u]
    <3>1. u = t
      BY <1>2, <2>2, OneTaskMoves
    <3>2. WarehouseStep(t) /\ UNCHANGED onlineEnabled
      BY <1>2, <2>2, <3>1, StopsByCall
    <3>3. \/ call[t].pc \in StopPCs /\ call'[t].tile = call[t].tile
          \/ ~TileInUse(call'[t].tile)
      BY <1>2, <3>1, <3>2, StopsFollow DEF TypeOK
    <3>4. ~TileInUse(call'[t].tile)
      BY <1>0, <3>3
    <3> QED
      BY <3>1, <3>2, <3>4 DEF TileInUse
  <2> QED
    BY <2>1, <2>2
<1>3. ASSUME NEW t \in Tasks, Submit(t) \/ Start(t) \/ ActiveStep(t)
      PROVE  StopsUnused'
  BY <1>2, <1>3 DEF StopsUnused, StopPCs
<1> QED
  BY <1>1, <1>3, Steps

(* The only step that deletes a job is the one of a call that stops jobs,  *)
(* of the tile it is at.                                                   *)
LEMMA JobsDeleted ==
    ASSUME NEW t \in Tasks, WarehouseTypeOK, WarehouseStep(t),
           NEW k \in Tiles, NEW y \in TileTypes, jobs[k][y] \ jobs'[k][y] # {}
    PROVE  call[t].pc \in StopPCs /\ k = call[t].tile
<1>0. jobs \in [Tiles -> [TileTypes -> SUBSET Tasks]] /\ CallTypeOK(call[t])
  BY DEF WarehouseTypeOK
<1>1. jobs' # jobs
  BY SMTT(30)
<1>2. CreateJob(t) \/ DeleteJob(t)
  BY <1>1 DEF WarehouseStep, EnableStep, DisableStep, ReadUnscheduled, InsertQuery, QueriesInserted,
     NextTile, StartJob, GenerateHistoricalTiles, TilesScheduled, PopulateFeatureStore,
     EnableReturns, ReadNamesInUse, FindQuery, DeleteQuery, QueriesRemoved, RemoveTileJobs, StopJob,
     DisableReturns
<1>3. ASSUME CreateJob(t) PROVE FALSE
  <2>1. jobs' = [jobs EXCEPT ![call[t].tile][call[t].type] = @ \cup {t}]
    BY <1>1, <1>3 DEF CreateJob
  <2>2. jobs[k][y] \subseteq jobs'[k][y]
    BY <1>0, <2>1
  <2> QED
    BY <2>2
<1>4. CASE DeleteJob(t)
  <2>1. /\ jobs' = [jobs EXCEPT ![call[t].tile][call[t].type] = @ \ {call[t].doc}]
        /\ call[t].pc = "deleteJob"
    BY <1>1, <1>4 DEF DeleteJob
  <2>2. k # call[t].tile => jobs'[k] = jobs[k]
    BY <1>0, <2>1
  <2> QED
    BY <2>1, <2>2 DEF StopPCs
<1> QED
  BY <1>2, <1>3, <1>4

LEMMA JobsKept ==
    ASSUME NEW t \in Tasks, Submit(t) \/ Start(t) \/ ActiveStep(t), jobs' # jobs
    PROVE  UpdateWarehouse(t)
<1>1. CASE Submit(t) \/ Start(t) \/ RevertStep(t)
  BY <1>1, ZenonT(30) DEF Submit, SubmitUpdate, SubmitCreate, Start, RevertStep, RevertList, RevertFeature,
     ReadSpace, RevertSpace, ReadStatus, RevertStatus, Restore, warehouseVars
<1>2. CASE DeployStep(t) /\ ~UpdateWarehouse(t)
  BY <1>2 DEF DeployStep, WriteDeployment, CountEnabled, ReadList, Validate, WriteList,
     FeaturesUpdated, UpdateSpace, WarehouseEnds, UpdateFeature, warehouseVars
<1>3. CASE Fault(t) \/ Crash(t)
  BY <1>3 DEF Fault, Crash
<1> QED
  BY <1>1, <1>2, <1>3, SMTT(30) DEF ActiveStep

(* When tasks run one at a time, no step removes a job of a tile that an   *)
(* online feature uses, exceptions and crashes included: between the look  *)
(* at the online features and the deletes, none can come online            *)
(* (tile_manager.py, remove_tile_jobs).                                    *)
THEOREM UsedJobsKept ==
    ASSUME MaxActive = 1
    PROVE  Spec => OnlyUnusedJobsStopped
<1> DEFINE JobsStopped == \A k \in Tiles, y \in TileTypes :
                              jobs[k][y] \ jobs'[k][y] # {} => ~TileInUse(k)
<1>1. Init => StopsUnused
  BY InitNothing DEF StopsUnused
<1>2. TypeOK /\ SerialInv /\ StopsUnused /\ [Next]_vars => StopsUnused'
  BY StopsUnusedStep DEF SerialInv
<1>3. TypeOK /\ StopsUnused /\ [Next]_vars => [JobsStopped]_vars
  <2> SUFFICES ASSUME TypeOK, StopsUnused, [Next]_vars,
                      NEW k \in Tiles, NEW y \in TileTypes, jobs[k][y] \ jobs'[k][y] # {}
               PROVE  ~TileInUse(k)
    OBVIOUS
  <2>1. jobs' # jobs
    OBVIOUS
  <2>2. PICK t \in Tasks : Submit(t) \/ Start(t) \/ ActiveStep(t)
    BY <2>1, Steps, EnvironmentMoves DEF vars, warehouseVars
  <2>3. WarehouseStep(t)
    BY <2>1, <2>2, JobsKept DEF UpdateWarehouse
  <2>4. call[t].pc \in StopPCs /\ k = call[t].tile
    BY <2>3, JobsDeleted DEF TypeOK
  <2> QED
    BY <2>4 DEF StopsUnused, StopPCs
<1>4. Spec => []StopsUnused
  BY <1>1, <1>2, SerialInvariant, PTL DEF Spec
<1>5. Spec => [][JobsStopped]_vars
  BY <1>3, <1>4, SerialInvariant, PTL DEF Spec
<1> QED
  BY <1>5 DEF OnlyUnusedJobsStopped
=============================================================================
