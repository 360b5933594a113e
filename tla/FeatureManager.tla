--------------------------- MODULE FeatureManager ---------------------------
(***************************************************************************)
(* FeatureManagerService with the part of TileManagerService it calls:     *)
(* what happens in the data warehouse and in the job collections when a    *)
(* feature has been switched online or offline.                            *)
(*                                                                         *)
(* A call runs inside one Celery task t and is not transactional: every    *)
(* read and every write of a collection is a step of its own, so calls of  *)
(* several tasks interleave.  The module that composes this one starts a   *)
(* call (StartCall), waits for "returned" or "raised" and owns the feature *)
(* documents, of which only online_enabled is read here.                   *)
(***************************************************************************)
EXTENDS Naturals, FiniteSets

CONSTANTS Tasks,        \* Celery tasks (positive naturals, in order of submission)
          Features,     \* feature documents
          Tiles,        \* aggregation ids: one tile table and one pair of jobs each
          Names,        \* aggregation result names, one compute query each
          TilesOf,      \* feature -> aggregation ids of its tile specs
          NamesOf       \* feature -> its aggregation result names

ASSUME FeatureManagerAssumption ==
    /\ Tasks \subseteq Nat \ {0}
    /\ TilesOf \in [Features -> SUBSET Tiles]
    /\ NamesOf \in [Features -> SUBSET Names]

VARIABLES onlineEnabled,  \* feature -> FeatureModel.online_enabled
          queries,        \* result name -> OnlineStoreComputeQuery documents
          jobs,           \* tile, type -> PeriodicTask documents "<type>_<tile>"
          backfilled,     \* tiles whose historical tiles were generated
          store,          \* result names with a version in the online store table
          call            \* task -> its call into this service

(* A document is named by the task that inserted it: a task inserts a      *)
(* query or a job only when it has seen none, so it owns at most one.      *)

warehouseVars == <<queries, jobs, backfilled, store, call>>

TileTypes == {"ONLINE", "OFFLINE"}
None == "none"

EnablePCs == {"enable", "insertQueries", "tiles", "startJob", "createJob", "backfill",
              "populate"}
DisablePCs == {"disable", "removeQueries", "deleteQuery", "stopTiles", "stopJob", "deleteJob"}
RunningPCs == EnablePCs \cup DisablePCs
CallPCs == RunningPCs \cup {"idle", "returned", "raised"}

(* feature: the updated_feature handed in; names: result names to insert   *)
(* and populate, or to delete; todo: the loop's remaining names;           *)
(* tiles: the remaining tile specs; tile, type, doc: what the loop is at.  *)
Call == [pc: CallPCs, feature: Features \cup {None},
         names: SUBSET Names, todo: SUBSET Names, tiles: SUBSET Tiles,
         tile: Tiles \cup {None}, name: Names \cup {None},
         type: TileTypes, doc: Tasks \cup {0}]

(* Where the loops over tile specs are inside an iteration.                *)
TilePCs == {"startJob", "createJob", "backfill", "stopJob", "deleteJob"}

IdleCall == [pc |-> "idle", feature |-> None, names |-> {}, todo |-> {}, tiles |-> {},
             tile |-> None, name |-> None, type |-> "ONLINE", doc |-> 0]

FeatureManagerInit ==
    /\ queries = [n \in Names |-> {}]
    /\ jobs = [k \in Tiles |-> [y \in TileTypes |-> {}]]
    /\ backfilled = {}
    /\ store = {}
    /\ call = [t \in Tasks |-> IdleCall]

-----------------------------------------------------------------------------
(* Calls and returns *)

(* The call record of a call for feature f, switched online or offline.    *)
NewCall(f, online) ==
    [IdleCall EXCEPT !.pc = IF online THEN "enable" ELSE "disable",
                     !.feature = f, !.tiles = TilesOf[f]]

Ended(pc) == [IdleCall EXCEPT !.pc = pc]

Running(t) == call[t].pc \in RunningPCs

(* Any statement of a running call may raise (a lost warehouse session, a  *)
(* failing SQL, a failing database): what earlier statements wrote stays.  *)
CallRaises(t) ==
    /\ Running(t)
    /\ call' = [call EXCEPT ![t] = Ended("raised")]
    /\ UNCHANGED <<queries, jobs, backfilled, store>>

-----------------------------------------------------------------------------
(* online_enable *)

(* _get_unscheduled_aggregation_result_names: the names with no compute    *)
(* query yet.  A name met twice in the cursor is removed twice from the    *)
(* set, and the second removal raises KeyError.                            *)
ReadUnscheduled(t) ==
    LET names == NamesOf[call[t].feature] IN
    /\ call[t].pc = "enable"
    /\ LET unscheduled == {n \in names : queries[n] = {}} IN
       call' = [call EXCEPT ![t] =
                  IF \E n \in names : Cardinality(queries[n]) > 1
                  THEN Ended("raised")
                  ELSE [@ EXCEPT !.pc = "insertQueries",
                                 !.names = unscheduled, !.todo = unscheduled]]
    /\ UNCHANGED <<queries, jobs, backfilled, store>>

(* _update_tile_feature_mapping_table: one create_document per name; the   *)
(* collection has no uniqueness constraint on the result name.             *)
InsertQuery(t) ==
    /\ call[t].pc = "insertQueries"
    /\ \E n \in call[t].todo :
         /\ queries' = [queries EXCEPT ![n] = @ \cup {t}]
         /\ call' = [call EXCEPT ![t].todo = @ \ {n}]
    /\ UNCHANGED <<jobs, backfilled, store>>

QueriesInserted(t) ==
    /\ call[t].pc = "insertQueries"
    /\ call[t].todo = {}
    /\ call' = [call EXCEPT ![t].pc = "tiles"]
    /\ UNCHANGED <<queries, jobs, backfilled, store>>

(* The loop over tile_specs: tile_job_exists looks only at the ONLINE job, *)
(* and a tile that has one is skipped altogether.                          *)
NextTile(t) ==
    /\ call[t].pc = "tiles"
    /\ \E k \in call[t].tiles :
         \/ /\ jobs[k]["ONLINE"] # {}
            /\ call' = [call EXCEPT ![t].tiles = @ \ {k}]
         \/ /\ jobs[k]["ONLINE"] = {}
            /\ call' = [call EXCEPT ![t].tiles = @ \ {k}, ![t].pc = "startJob",
                                    ![t].tile = k, ![t].type = "ONLINE"]
    /\ UNCHANGED <<queries, jobs, backfilled, store>>

(* After the ONLINE job comes the OFFLINE job, after that the backfill.    *)
AfterJob(c) == IF c.type = "ONLINE" THEN [c EXCEPT !.pc = "startJob", !.type = "OFFLINE"]
                                    ELSE [c EXCEPT !.pc = "backfill"]

(* _schedule_tiles_custom: get_job_details; an existing job is kept.       *)
StartJob(t) ==
    /\ call[t].pc = "startJob"
    /\ call' = [call EXCEPT ![t] =
                  IF jobs[call[t].tile][call[t].type] # {}
                  THEN AfterJob(@)
                  ELSE [@ EXCEPT !.pc = "createJob"]]
    /\ UNCHANGED <<queries, jobs, backfilled, store>>

(* PeriodicTaskService.create_document: the uniqueness check on the name   *)
(* and the insert are two operations.  A job inserted by another task      *)
(* since get_job_details is either met by the check (conflict, raised) or  *)
(* comes after the check, and then both documents exist.                   *)
CreateJob(t) ==
    LET k == call[t].tile
        y == call[t].type IN
    /\ call[t].pc = "createJob"
    /\ \/ /\ jobs' = [jobs EXCEPT ![k][y] = @ \cup {t}]
          /\ call' = [call EXCEPT ![t] = AfterJob(@)]
       \/ /\ jobs[k][y] # {}
          /\ call' = [call EXCEPT ![t] = Ended("raised")]
          /\ UNCHANGED jobs
    /\ UNCHANGED <<queries, backfilled, store>>

(* _generate_historical_tiles, then the loop goes on.                      *)
GenerateHistoricalTiles(t) ==
    /\ call[t].pc = "backfill"
    /\ backfilled' = backfilled \cup {call[t].tile}
    /\ call' = [call EXCEPT ![t].pc = "tiles", ![t].tile = None]
    /\ UNCHANGED <<queries, jobs, store>>

TilesScheduled(t) ==
    /\ call[t].pc = "tiles"
    /\ call[t].tiles = {}
    /\ call' = [call EXCEPT ![t].pc = "populate"]
    /\ UNCHANGED <<queries, jobs, backfilled, store>>

(* _populate_feature_store of one unscheduled name: runs the compute       *)
(* queries stored under that name, if there still are any.                 *)
PopulateFeatureStore(t) ==
    /\ call[t].pc = "populate"
    /\ \E n \in call[t].names :
         /\ store' = IF queries[n] # {} THEN store \cup {n} ELSE store
         /\ call' = [call EXCEPT ![t].names = @ \ {n}]
    /\ UNCHANGED <<queries, jobs, backfilled>>

(* Faulty variant: returns with names left to populate.                    *)
EnableReturnsEarly(t) ==
    /\ call[t].pc = "populate"
    /\ call' = [call EXCEPT ![t] = Ended("returned")]
    /\ UNCHANGED <<queries, jobs, backfilled, store>>

EnableReturns(t) ==
    /\ call[t].pc = "populate"
    /\ call[t].names = {}
    /\ call' = [call EXCEPT ![t] = Ended("returned")]
    /\ UNCHANGED <<queries, jobs, backfilled, store>>

-----------------------------------------------------------------------------
(* online_disable *)

(* Faulty variant: does not look at the other online features.             *)
NoNamesInUse(f) == {}

(* remove_online_store_compute_queries: a name is still in use when some   *)
(* online feature that shares any name with this one has it.               *)
NamesInUse(f) ==
    UNION {NamesOf[g] : g \in {h \in Features : /\ onlineEnabled[h]
                                                /\ NamesOf[h] \cap NamesOf[f] # {}}}

ReadNamesInUse(t) ==
    LET f == call[t].feature IN
    /\ call[t].pc = "disable"
    /\ call' = [call EXCEPT ![t].pc = "removeQueries",
                            ![t].todo = NamesOf[f] \ NamesInUse(f)]
    /\ UNCHANGED <<queries, jobs, backfilled, store>>

(* delete_by_result_name finds a document, or raises a DocumentNotFound    *)
(* that the loop ignores ...                                               *)
FindQuery(t) ==
    /\ call[t].pc = "removeQueries"
    /\ \E n \in call[t].todo :
         \/ /\ queries[n] = {}
            /\ call' = [call EXCEPT ![t].todo = @ \ {n}]
         \/ \E d \in queries[n] :
              call' = [call EXCEPT ![t].pc = "deleteQuery", ![t].todo = @ \ {n},
                                   ![t].name = n, ![t].doc = d]
    /\ UNCHANGED <<queries, jobs, backfilled, store>>

(* ... and deletes that one document; the not-found of a document gone in  *)
(* between is ignored too.                                                 *)
DeleteQuery(t) ==
    /\ call[t].pc = "deleteQuery"
    /\ queries' = [queries EXCEPT ![call[t].name] = @ \ {call[t].doc}]
    /\ call' = [call EXCEPT ![t] = [@ EXCEPT !.pc = "removeQueries", !.name = None, !.doc = 0]]
    /\ UNCHANGED <<jobs, backfilled, store>>

QueriesRemoved(t) ==
    /\ call[t].pc = "removeQueries"
    /\ call[t].todo = {}
    /\ call' = [call EXCEPT ![t].pc = "stopTiles"]
    /\ UNCHANGED <<queries, jobs, backfilled, store>>

TileInUse(k) == \E g \in Features : onlineEnabled[g] /\ k \in TilesOf[g]

(* remove_tile_jobs: a tile of an online feature keeps its jobs.           *)
RemoveTileJobs(t) ==
    /\ call[t].pc = "stopTiles"
    /\ \E k \in call[t].tiles :
         \/ /\ TileInUse(k)
            /\ call' = [call EXCEPT ![t].tiles = @ \ {k}]
         \/ /\ ~TileInUse(k)
            /\ call' = [call EXCEPT ![t].tiles = @ \ {k}, ![t].pc = "stopJob",
                                    ![t].tile = k, ![t].type = "ONLINE"]
    /\ UNCHANGED <<queries, jobs, backfilled, store>>

(* Faulty variant: forgets the tile after its first job.                   *)
AfterStopForgets(c) == IF c.type = "ONLINE"
                       THEN [c EXCEPT !.pc = "stopJob", !.type = "OFFLINE", !.tile = None]
                       ELSE [c EXCEPT !.pc = "stopTiles", !.tile = None, !.doc = 0]

AfterStop(c) == IF c.type = "ONLINE"
                THEN [c EXCEPT !.pc = "stopJob", !.type = "OFFLINE", !.doc = 0]
                ELSE [c EXCEPT !.pc = "stopTiles", !.tile = None, !.doc = 0]

(* delete_periodic_task_by_name takes the first document of that name, and *)
(* only logs when there is none ...                                        *)
StopJob(t) ==
    LET docs == jobs[call[t].tile][call[t].type] IN
    /\ call[t].pc = "stopJob"
    /\ \/ /\ docs = {}
          /\ call' = [call EXCEPT ![t] = AfterStop(@)]
       \/ \E d \in docs :
            call' = [call EXCEPT ![t].pc = "deleteJob", ![t].doc = d]
    /\ UNCHANGED <<queries, jobs, backfilled, store>>

(* ... but the delete reads the document again and raises not-found when   *)
(* it has gone in between; gone even later, nothing is left to delete.     *)
DeleteJob(t) ==
    LET k == call[t].tile
        y == call[t].type
        d == call[t].doc IN
    /\ call[t].pc = "deleteJob"
    /\ \/ /\ jobs' = [jobs EXCEPT ![k][y] = @ \ {d}]
          /\ call' = [call EXCEPT ![t] = AfterStop(@)]
       \/ /\ d \notin jobs[k][y]
          /\ call' = [call EXCEPT ![t] = Ended("raised")]
          /\ UNCHANGED jobs
    /\ UNCHANGED <<queries, backfilled, store>>

DisableReturns(t) ==
    /\ call[t].pc = "stopTiles"
    /\ call[t].tiles = {}
    /\ call' = [call EXCEPT ![t] = Ended("returned")]
    /\ UNCHANGED <<queries, jobs, backfilled, store>>

-----------------------------------------------------------------------------

(* One statement of the call running in task t.  None of them writes the   *)
(* feature documents.                                                      *)
EnableStep(t) ==
    \/ ReadUnscheduled(t) \/ InsertQuery(t) \/ QueriesInserted(t)
    \/ NextTile(t) \/ StartJob(t) \/ CreateJob(t) \/ GenerateHistoricalTiles(t)
    \/ TilesScheduled(t) \/ PopulateFeatureStore(t) \/ EnableReturns(t)

DisableStep(t) ==
    \/ ReadNamesInUse(t) \/ FindQuery(t) \/ DeleteQuery(t) \/ QueriesRemoved(t)
    \/ RemoveTileJobs(t) \/ StopJob(t) \/ DeleteJob(t) \/ DisableReturns(t)

WarehouseStep(t) == EnableStep(t) \/ DisableStep(t)

(* A running call has a feature, and inside an iteration over the tile     *)
(* specs a tile.                                                           *)
CallTypeOK(c) ==
    /\ c \in Call
    /\ c.pc \in RunningPCs => c.feature \in Features
    /\ c.pc \in TilePCs => c.tile \in Tiles

WarehouseTypeOK ==
    /\ queries \in [Names -> SUBSET Tasks]
    /\ jobs \in [Tiles -> [TileTypes -> SUBSET Tasks]]
    /\ backfilled \subseteq Tiles
    /\ store \subseteq Names
    /\ call \in [Tasks -> Call]
    /\ \A t \in Tasks : CallTypeOK(call[t])
=============================================================================
