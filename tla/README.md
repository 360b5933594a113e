# TLA+ models of the FeatureByte service

FeatureByte turns declared features into scheduled computations in a data
warehouse. Its service is a set of REST API processes and Celery workers around
one MongoDB database and the customer's warehouse. The hard part of it is not a
single function. It is keeping many documents, and the warehouse, in agreement
while several processes change them, fail half way, or die. This directory
models that part in TLA+, checks it with TLC and proves some of it with TLAPS.

1. [Inventory](#inventory)
2. [How the models correspond to the code](#how-the-models-correspond-to-the-code)
3. [What the runs check](#what-the-runs-check)
4. [What is proved](#what-is-proved)
5. [Where code and documentation disagree](#where-code-and-documentation-disagree)
6. [What is not modelled](#what-is-not-modelled)
7. [Plan](#plan)

All paths below are under `src/featurebyte/` unless they say otherwise.

## Inventory

**Deployment** (`service/deploy.py`, `service/online_enable.py`,
`service/feature_list_status.py`, `routes/deployment`,
`worker/task/deployment_create_update.py`).
State: a deployment's `enabled`, a feature list's `deployed` and
`online_enabled_feature_ids`, a feature's `online_enabled` and
`deployed_feature_list_ids`, a feature namespace's `online_enabled_feature_ids`,
a feature list namespace's `deployed_feature_list_ids` and `status`.
Operations: create, enable and disable a deployment, each as a Celery task, and a
status request from a user. Hard: six collections, only some of them in one
transaction; a try block with its own `_revert_changes`; tasks that share
features. Correct: all of these agree after every task, whether it succeeded or
was refused.

**Feature manager, tile manager, periodic tasks** (`service/feature_manager.py`,
`service/tile_manager.py`, `service/tile_scheduler.py`, `service/task_manager.py`,
`service/online_store_compute_query_service.py`).
State: compute queries by result name, ONLINE and OFFLINE jobs by tile, the
historical tiles, the online store. Operations: `online_enable` and
`online_disable` of one feature, called by the deployment task. Hard: no
transaction at all; existence checks followed by inserts and deletes; tiles and
result names shared by features. Correct: what is scheduled is what online
features need, with its history.

**Entity tagging and relationships** (`service/table_columns_info.py`,
`service/relationship.py`, `service/relationship_info.py`,
`routes/common/base_table.py`).
State: `columns_info` of the tables; `table_ids`, `primary_table_ids`, `parents`
and `ancestor_ids` of the entities; relationship info documents. Operation: save
the columns of a table, from which everything else follows. Hard: derived and
doubly stored data kept up by differences, computed from a table read before the
transaction starts. Correct: entities, relationship infos and ancestors say what
the columns say.

**Feature catalog** (`service/feature_readiness.py`, `service/feature.py`,
`service/feature_list.py`, `service/version.py`,
`service/default_version_mode.py`, `service/validator/production_ready_validator.py`,
`routes/feature`, `routes/feature_list`, `routes/feature_namespace`,
`routes/feature_list_namespace`).
State: features and lists, which name each other; their namespaces with the ids,
the default version and its readiness; the readiness distribution of lists.
Operations: create a version, change a readiness, delete a version, choose the mode
or the default of a namespace. Hard: default versions are recomputed
outside of the transaction of their cause; checks and counts precede the transactions
they guard; two transactions that write different documents both commit. Correct:
features and lists name each other, namespaces name their versions, one production
ready version at most, the default is the best version, the distribution counts the
features of the list.

**Tile jobs** (`service/tile/tile_task_executor.py`, `sql/tile_generate.py`,
`sql/tile_schedule_online_store.py`, `service/online_store_table_version.py`,
`worker/schedulers.py`).
State: the last launch of a job, the registry metadata of a tile, the tile table,
the rows and the versions of the online store. Operations: beat launches an ONLINE
or OFFLINE job; the task computes its window, merges tiles, records the metadata
and publishes a new version; enabling a feature creates the jobs, backfills the
history and populates the store. Hard: windows taken from the last run, versions
read, increased and written by runs that may overlap, be late, or fail at any
statement, without any transaction. Correct: no tile is skipped or left half computed,
the history gets complete, what is served exists and was computed from complete tiles.

**Job schedule arithmetic** (`common/date_util.py`, `worker/schedulers.py`,
`_derive_correct_job_ts`). No state: integer time arithmetic at its boundaries, done
in two places in two ways. Correct: both agree on which interval a time belongs
to, and a job is due once in each.

**Materialized tables** (`service/materialized_table.py`,
`worker/task/materialized_table_delete.py`): reference checks, and a document
deleted before its warehouse table. Not modelled.

**Working schema** (`service/working_schema.py`): rebuilds the warehouse schema in
many steps, by an administrator. Not modelled.

**MongoDB** (`persistent/`): transactions, snapshots and write conflicts. It is
modelled as the services rely on it, not as a component.

**Others**: query graph and SQL generation (sequential; SQL semantics is beyond
TLC), the session manager (a connection cache), serving and previews (reads
only), the SDK (a client), catalog, credentials, users, storage (single documents
and plain I/O). `PROJECT.json` lists each with the reason.

The components interact through the database. A deployment task calls
`DeployService`, which calls `OnlineEnableService`, which calls
`FeatureManagerService`, which calls `TileManagerService`. The feature manager
reads `online_enabled` of *all* features to find out what is still in use, so a
task depends on documents that other tasks are writing. It creates the jobs that beat
launches and the workers run: they share the compute queries, the registry metadata
and the tile tables with it. Saving a table calls the relationship services in its
own transaction and shares nothing with deployments. Requests on features and lists
share documents with deployments, but other fields of them: a deployment reads the
readiness of features, and the deletion of a list asks for its status.

## How the models correspond to the code

| Module | Models |
|---|---|
| `FeatureManager` | `FeatureManagerService` with the part of `TileManagerService`, `TaskManager` and the compute query service it calls |
| `Deployment` | extends `FeatureManager` by `DeployService`, `OnlineEnableService`, the status service, requests, tasks, failures |
| `DeploymentContract` | what a switch of a deployment promises its users (abstract specification) |
| `MCDeployment` | small instances of `Deployment` |
| `DeploymentProofs` | theorems about `Deployment` with any number of tasks at a time |
| `DeploymentSerialProofs` | theorems about it when tasks run one at a time, with failures |
| `DeploymentFaultlessProofs` | theorems about it when tasks run one at a time, as long as nothing has failed |
| `DeploymentContractProofs` | the theorem that it implements `DeploymentContract` when tasks run one at a time |
| `EntityRelationship` | saving a table's columns: tagging, relationships, relationship infos, under snapshot transactions |
| `MCEntityRelationship` | small instances of it |
| `EntityRelationshipProofs` | theorems about it |
| `FeatureCatalog` | features, lists and their namespaces under snapshot transactions |
| `MCFeatureCatalog` | small instances of it |
| `FeatureCatalogProofs` | theorems about it |
| `JobSchedule` | the time arithmetic of jobs, tiles and windows, as operators |
| `JobScheduleProofs` | theorems about it |
| `TileJobs` | extends `JobSchedule` by beat, the runs of the jobs of one tile table, the task that enables a feature, and the online store |
| `MCTileJobs` | a small instance of it |
| `TileJobsProofs` | theorems about it |

Operators named in a comment as a *faulty variant* are not part of the
specifications. Each is a plausible bug in one operation, and shows that a
property can be violated: putting the variant in the place of the operation
makes TLC report that property. `PROJECT.json` pairs them.

### Deployment and FeatureManager

A step is one MongoDB transaction, or one read or write of a collection outside
of a transaction. The transactions of `deploy.py` (`UpdateFeature`,
`UpdateSpace`, `RevertFeature`) are single steps: each reads the documents that
it also writes, so an overlap with another writer is a write conflict, which
aborts the transaction and raises. That is the action `Fault` at that statement.
Everything else is taken apart: counting the enabled deployments and reading the
list are two steps (`CountEnabled`, `ReadList`), as are finding a job and creating it
(`StartJob`, `CreateJob`), or finding a job and deleting it (`StopJob`, `DeleteJob`).

| Code | Actions |
|---|---|
| `DeploymentController`, task queue | `SubmitUpdate`, `SubmitCreate`, `Start` |
| `create_deployment`, `update_deployment` | `WriteDeployment`, and `Restore` for their except blocks |
| `_update_feature_list` | `CountEnabled`, `ReadList`, `Validate`, `WriteList`, `UpdateFeature`, `UpdateWarehouse`, `WarehouseEnds`, `FeaturesUpdated`, `UpdateSpace` |
| `_revert_changes` | `RevertList`, `RevertFeature`, `ReadSpace`, `RevertSpace`, `ReadStatus`, `RevertStatus` |
| `online_enable` | `ReadUnscheduled`, `InsertQuery`, `QueriesInserted`, `NextTile`, `StartJob`, `CreateJob`, `GenerateHistoricalTiles`, `TilesScheduled`, `PopulateFeatureStore`, `EnableReturns` |
| `online_disable` | `ReadNamesInUse`, `FindQuery`, `DeleteQuery`, `QueriesRemoved`, `RemoveTileJobs`, `StopJob`, `DeleteJob`, `DisableReturns` |
| a user's status request | `RequestStatus` (read and check), `WriteStatus` |
| readiness of a feature changes | `ChangeReadiness` |
| an exception at any statement, a dead worker | `Fault`, `Crash` |

The local variables of a task are its record in `task` (`target`, `before`,
`original`; `seen` and `seenOn` are `feature_online_enabled_map`) and in `call`.
The workers of `docker/entrypoint.sh` run many tasks in one process and there may
be several processes, so tasks really overlap. `MaxActive` says how many run at
a time. With 1 it is the case the tests of the repository cover.

A document is named by the task that inserted it, which makes duplicates visible
(two jobs of one name, two queries of one result name). `CreateJob` and
`DeleteJob` have both outcomes of their race.

Data that is abstracted: a feature is its tiles and result names, readiness is
whether it is `PRODUCTION_READY`, the tables of the warehouse are the sets
`backfilled` and `store`. The order of the features of a list and of the tiles of
a feature is left open, which allows every order the code can use.

`overwritten` is a history variable: the features whose flag was last set by
`_revert_changes`. Nothing in the specification reads it; only
`OnlineIffDeployedIds` does, to say for which features the code keeps the promise.

### EntityRelationship

The service reads the table (`Read`), later starts a transaction and works on its
snapshot (`Begin`, `AddParent`, `RemoveParent`) and commits (`Commit`) or fails
(`Fail`, or any refusal). Here a transaction is *not* one step: it reads
parent entities that it does not write, so two of them can both commit although
neither sees the other (write skew). The request therefore holds its own copy
`docs`, what it has `written`, and what it has `missed`: documents that others
wrote after its snapshot. It commits only when the two are disjoint, as MongoDB
does, and an unchanged document is not written, as `BaseDocumentService` does.
Relationship infos that a transaction inserts or deletes are merged by document.
The differences are computed from the table as it was read before the
transaction, as in the code.

Added parents come in the order of their ids (the code sorts them); removed ones
in any order (the code takes the order of the entity's list). The relationship
infos change with the parent they are for; in the code they follow within the
same transaction, where nobody can tell.
Every table has one primary key column. Parents are a set; the code's lists have
no duplicates.

`forked` (some entity has had two paths to another one) and `overlaps` (how many
saves have started while another one was running) are history variables.
`forked` is only read by `AncestorsExact`; `overlaps` is read by `TagsMatched` and
`AncestorsExact`, and it is also the bound on concurrency (`MaxOverlaps`).

A save that takes an entity's tag off one of two columns drops the table from the
entity, although the other column still names it: the flag counts columns
(`service/table_columns_info.py:149`). The model does the same. `TagsMatched` therefore
says that the tables of an entity tag it, and not that every table that tags
it is there.

### FeatureCatalog

A request reads and checks, runs a transaction on the snapshot of its start, and may
afterwards recompute a namespace outside of any transaction. As in
`EntityRelationship`, a transaction that may overlap is not one step. Its statements
are, because they see nothing but the snapshot: the action that starts it computes what
it will write (`Transaction`), and `Commit` merges that into the committed
documents. Whoever writes a document that an open transaction writes too dooms it
(`Doom`); a doomed one aborts. `Fail` ends a request at any point: an exception, or
the end of the API process.

| Code | Actions |
|---|---|
| `FeatureService.create_document` | `CreateFeature` (the version), `InsertFeature` |
| `FeatureListService.create_document` | `CreateList` (version, features, distribution), `InsertList` |
| `FeatureReadinessService.update_feature` | `UpdateReadiness` (read and validate), `MoveFeature` |
| `delete_feature` of the controller | `DeleteFeature` (the checks), `RemoveFeature` |
| `delete_feature_list`, `delete_document` | `DeleteList`, `RemoveList` |
| `DefaultVersionModeService`, the controllers of the namespaces | `SetMode`, `SetDefault`, `SetField` |
| `update_feature_namespace`, `update_feature_list_namespace` outside of a transaction | `ReadNamespace`, `ChooseDefault`, `WriteNamespace`; inside of one they are part of its action (`RecomputeAll`) |
| end of a transaction, exceptions | `Commit`, `Fail` |

A version is a natural number, so that newer is greater; `issued` makes sure that
an id is never used again. Versions are those of one day (the identifier is the
date and the count of versions of that day), and a name has one namespace id. All
reads before a transaction are one step: what matters is that they are not in it.
Deleting a list is not restricted to the status `DRAFT`, which is a further
condition of the code, so the model has more behaviours here. By hand any existing
feature can become a default that is as ready as all versions of the namespace, and any
id of a list, existing or not (`Choosable`): the controllers do not ask whether it is
one of the versions. Recomputing the namespace then shows the readiness of another name,
or raises. A list id that is not saved stands for an unknown one. A batch of changes, `make_production_ready` and creating a new version
from an old one are sequences of these requests.

History variables: `outdated` (a transaction has started from a read that no longer
held), `unsettled` (namespaces changed and not recomputed since), `overlaps` (how often
a request has started while another one ran, also the bound on concurrency). Only
properties read the first two. They are there because the code promises less when
requests overlap: two versions can become production ready, a distribution
can count features by a readiness they no longer have, the default may be
chosen from stale versions, and two versions of a list can get one
identifier (its uniqueness is checked before the transaction; for features
inside of it).

### JobSchedule and TileJobs

`JobSchedule` is arithmetic on integers: a time is a number since the epoch, in a unit
that divides all parameters. The code works in seconds, and so could the constants.
`datetime.now()` of the service is taken as UTC.

`TileJobs` follows one tile table, with one compute query on it.
An execution in `exec` is a Celery task: of a job, or the task that enables a
feature. It holds the local variables of the code, and each access to the
registry, the tile table or the versions is a step. Beat launches a job
whether or not the previous run has ended, and a launched task may wait for a worker.

| Code | Actions |
|---|---|
| `MongoScheduleEntry.is_due` and the launch | `Launch` |
| `TileTaskExecutor.execute` up to the tiles | `StartRun` |
| `TileGenerate.execute` | `Generate`, `Record` |
| `TileScheduleOnlineStore.execute` | `NoQuery`, `ReadVersion`, `InsertRows`, `WriteVersion` |
| `online_enable` | `Enable`, `ScheduleTiles` (for both types), `PlanBackfill`, then `Generate`, `Record` and the online store as above |
| `online_disable` of the last feature that needs the tile | `Disable` (the compute query), `StopJob` (for both types), `DisableFails` |
| an exception, a time limit, a dead worker | `Fault` |
| time passes | `Tick` |

What a tile table holds is abstracted to `complete`: the tiles whose row was computed
from all of their data, which means that the window that wrote it
covered all of the tile, the blind spot after its end. A merge with a window that touches a
tile replaces its row, so it can also make a complete tile incomplete (`Merged`). That
really happens: the period of OFFLINE jobs is always a day, and a frequency of 7 minutes,
5 hours or 2 days is legal (`models/tile.py:107`), so an OFFLINE window can begin or end within a
tile. `cut` holds the tiles that were complete until an OFFLINE window took a part of
them, `Computed` these and the complete ones. What a
version of the online store holds is abstracted to the job time, the kind of
execution, and whether all tiles it needed were complete (`content`).

History variables: `since` and `backfilled` say from where the code promises complete tiles,
`torn` which versions were inserted by a run that failed before it wrote the version,
`raced` whether a version was read while another run was updating it, and `overtaken`
whether another execution has published meanwhile. `cut` is one too: only properties read
it.

Enabling finds the ONLINE job missing or there, also when disabling has stopped half way:
in the second case it schedules and backfills nothing and populates the store for a new
query. Disabling writes three times, with runs of the jobs and failures in between.

Simplifications: a new job's `last_run_at` is the time of its creation, where the
code leaves it empty until beat loads the document if the modulo is 0
(`service/task_manager.py:179`); calls of `online_enable` do not overlap each other here
or `online_disable` here (that is `FeatureManager`'s subject); a tile has one compute query, so the loop over them
has one iteration.

## What the runs check

| Run | Properties |
|---|---|
| `DeploymentSerial` | `TypeOK`, `SettledDeployment`, `SettledFeatures`, `SettledWarehouse`, `SwitchIsAtomic` hold |
| `DeploymentConcurrent` | `OnlineMirrored`, `OnlineIffDeployedIds` hold |
| `DeploymentLive` | `SettledDeployment`, `TaskEnds`, `EnabledGetsServed` hold |
| `DeploymentPartialRevert` | `DeployedListIsOnline` is violated |
| `DeploymentLostHistory` | `ActiveTileHasHistory` is violated |
| `DeploymentRace` | `OnlyUnusedJobsStopped` is violated |
| `EntitySerial` | `TagsMatched`, `AncestorsExact` hold |
| `EntityConcurrent` | `TypeOK`, `InfosMatchParents` hold |
| `EntityCycle` | `NoCycle` is violated |
| `FeatureCatalogSerial` | `ListsComparable`, `DefaultsSettled`, `OneProductionReadySerially` hold |
| `FeatureCatalogConcurrent` | `TypeOK`, `LinksAgree`, `MembersListed`, `VersionsDistinct`, `ListsExact`, `ReadinessMoves` hold |
| `TileJobs` | `TypeOK`, `NoTileSkipped`, `HistoryComplete`, `OnlyOldTilesCut`, `ServedIsWritten`, `ServedOnce`, `PublishedFromCompleteTiles`, `BeatAndTaskAgree`, `OncePerInterval`, `ServedTimeAdvances` hold |

- **SettledDeployment**: whenever nothing runs, a list is deployed iff a deployment
  of it is enabled, its namespace records it, and the namespace's status fits,
  also after an exception at any statement. That is what the two levels of
  error handling are for. It excepts only a killed worker and an exception
  inside the error handling (`NoneBroken`).
- **SettledFeatures, SettledWarehouse**: without failures a feature records exactly
  the deployed lists that hold it, and the warehouse side has one query per result
  name in use, both jobs per tile in use, history and a populated store for them,
  and nothing else.
- **SwitchIsAtomic** is the refinement of `DeploymentContract`: seen through the
  mapping in `Deployment`, a switch happens as a whole when its task ends, or not
  at all. While a task is running the mapping shows the state before it. After a
  failure it does not claim the features, because that would be false
  (see below).
- **OnlineMirrored, OnlineIffDeployedIds** are about overlapping tasks with failures:
  the three copies of the online flag always agree, and the flag follows the
  feature's own record of deployed lists.
- **TaskEnds, EnabledGetsServed**: every submitted task ends, and an enabled
  deployment is served in the end unless it is given up or something failed.
- **TagsMatched, AncestorsExact, InfosMatchParents**: see the comments at their
  definitions in `EntityRelationship`.
- **LinksAgree, MembersListed**: the references in both directions agree although
  creating a list does not lock its features' readers, and deleting a feature checks for
  lists before its transaction. They hold because every transaction that adds a
  reference writes both documents.
- **VersionsDistinct**: of a feature always, since the check is in the transaction and
  a second creation in one namespace writes the same namespace; of a list when
  requests do not overlap. An identifier whose number is taken after a deletion is
  refused, not reused.
- **ReadinessMoves**: the rules of readiness hold for every write, although they are
  checked before the transaction, against a readiness that may have changed.
- **ListsExact**: as long as no transaction started from an outdated read,
  distributions are exact.
- **ListsComparable, DefaultsSettled, OneProductionReadySerially**: what the readiness
  service keeps when requests come one at a time, with a failure at any statement.
  `DefaultsSettled` excepts the namespaces whose recomputation, which is outside of the
  transaction, is still to come or has failed (`unsettled`): the code does not
  repair those until the next change. A default chosen by hand need not be a version of
  the namespace, and of such a one it says nothing: it may be deleted, or change its
  readiness without the namespace being recomputed.
- **NoTileSkipped**: no gap and no half computed tile up to the recorded end, for
  late, failed and overlapping runs, and with the feature disabled for a while. A tile
  may lack data only because an OFFLINE window has cut it after it was complete (`Computed`);
  with `complete` in its place the property is false, as `HistoryComplete` and
  `PublishedFromCompleteTiles` are.
- **OnlyOldTilesCut**: such tiles start more than an OFFLINE period ago.
- **HistoryComplete**: the backfill ends at the current tile and computes the last ones too
  early; the first ONLINE run goes back far enough to repair them, or the property
  does not apply (`Settled`).
- **ServedIsWritten, ServedOnce, PublishedFromCompleteTiles, ServedTimeAdvances**: readers
  find rows for the version they are told, once, computed from complete tiles, and
  never older than before except from an execution that was overtaken. After two
  runs raced for a version there are two documents, and `ServedOnce` says no more.
- **BeatAndTaskAgree, OncePerInterval**: the two computations of the current interval,
  in beat and in the task, agree at every moment, and a job is launched once in it.

**Bounds.** Two lists share a feature, and two features share a tile and a result
name: this is the smallest instance in which every kind of sharing occurs. Three
deployments let one list have two. Two or three tasks suffice for enable, disable and
enable again; two active at a time for the races, each of which is between two.
`MaxFaults` is 1: each failure is injected at every statement, and a second one
would only combine what the error handling already treats alone.
`MaxStatusUpdates` is 1. Deadlock is not checked for deployments because the
system stops when its tasks are used up. For entities, three of them are needed
for a second path, and two tables, one with three columns, to create and re-tag
it. The concurrent run has two entities, two tables and at most two overlaps, each
at any point of any history of saves; the proof covers the rest.

For the feature catalog, one request at a time has two versions of one feature to
choose a default from, a feature of another name, and two versions of a list.
`MaxFeatures` is 2, so features come from one name or from two. One namespace at a time is in manual
mode (`MaxManual`), which is enough for a foreign default of either kind. `Targets` is
the readiness asked for: `PUBLIC_DRAFT` and `PRODUCTION_READY` in the serial run,
all but `PUBLIC_DRAFT` in the other. Two concurrent requests
have the same features and one list, and overlap once: each hazard is between two
requests, after any history of requests. `ListsExact` needs the list, its feature
and a change of readiness; the rest is proved for any number.

Tiles are 2 long, start at an odd time, and rows have 3 to arrive, which is more than a
period, so a tile is complete only two jobs later. An OFFLINE job goes back
3, which is no multiple of 2, so its windows cut tiles. The clock runs from 8 to 13, which is three job times. Two
slots, three executions (enabling and disabling included) and one failure give two runs of the same type that overlap,
an OFFLINE run in an ONLINE one, a run that repairs the window of a failed one,
and a backfill beside a scheduled run. `MaxVersion` is 2 (three versions). The
proofs cover the rest.

`MCTwins` (two deployments of the same list) and `MCSymmetry` (the requests) are
interchangeable, and no liveness property is checked under symmetry.

**Fairness.** `FairSpec` asks weak fairness of each task's own steps and of the
write of a validated status. A worker drives the coroutine of a task it has
taken until it ends, and a free slot is taken by a queued task. Nothing is
assumed of users, faults or crashes. A killed task is at its end.

## What is proved

`DeploymentProofs` proves for every value of the constants (any number of tasks,
features, tiles, lists, deployments, any sharing, any `MaxActive` and `MaxFaults`):

- `TypeCorrect`: `Spec => []TypeOK`;
- `MirrorsAgree`: `Spec => []OnlineMirrored`;
- `OnlineFollowsDeployedIds`: `Spec => []OnlineIffDeployedIds`.

They follow from the named assumptions on the constants (`FeatureManagerAssumption`,
`DeploymentAssumption`). The type invariant is inductive
because a running call knows its feature and its tile (`CallTypeOK`) and a task at
work knows its deployment (`TaskTypeOK`). The two others are inductive together with
it: only `UpdateFeature` and `RevertFeature` write the flag, both through
`SetOnline`, and every other action leaves the four variables alone.

The next three modules assume `MaxActive = 1`, as `DeploymentSerial` does: tasks run one
after the other. Nothing in the code guarantees this; `DeploymentRace` shows what is lost
without. They prove for every value of the other constants:

- `DeploymentsSettle`: `Spec => []SettledDeployment` (`DeploymentSerialProofs`);
- `UsedJobsKept`: `Spec => OnlyUnusedJobsStopped`, so `DeploymentRace` needs two tasks;
- `FeaturesSettle`: `Spec => []SettledFeatures` (`DeploymentFaultlessProofs`);
- `WarehouseSettles`: `Spec => []SettledWarehouse`;
- `OnlineUnlessFaults`, `HistoryUnlessFaults`: what `DeploymentPartialRevert` and
  `DeploymentLostHistory` find violated holds as long as `faults = 0`;
- `SwitchImplemented`: `Spec => SwitchIsAtomic`, the refinement of
  `DeploymentContract` (`DeploymentContractProofs`).

None of the properties is inductive, since each speaks of the state between tasks. `SerialInv`
says what holds inside one. `Scheduled`: one task or one status request is at work. `Deploys`:
its deployment is what its position in the code and its `original` say. `Catalogs`: every
list is deployed as promised, except the one being switched or reverted, and namespaces and
status follow, as long as no error handling has failed. Failures are part
of it: the `revert` positions are states of the invariant like the others, and a task that
was killed or whose error handling failed is marked by `broken`, which is what the property
excepts.

`Faultless` adds `FeaturesOK` and `CallsOK`, under `faults = 0` as in the properties.
`FeaturesOK`: a feature records the deployed lists that hold it, where the list being
switched counts as switched for the features that the loop is through with. `CallsOK`: in
the middle of a call of the feature manager, the queries, jobs, tiles and store are those for the
features online *before* the switch, except for what the call has already done
about its own feature; what other online features share stays served. Both invariants
together imply that what users see follows from the deployments they see enabled
(`SeenFollows`), and a step changes at most one of these (`OneSwitch`): this is the
refinement. The theorem is about safety; that a switch ends is left to `DeploymentLive`.

`EntityRelationshipProofs` proves for any number of requests, tables, columns
and entities, and any `MaxOverlaps`:

- `TypeCorrect`: `Spec => []TypeOK`;
- `InfosFollowParents`: `Spec => []InfosMatchParents`;
- `TagsFollowColumns`: `Spec => []TagsMatched`;
- `AncestorsAlwaysExact`: `Spec => []AncestorsExact`;
- `CyclesNeedForks`: what `EntityCycle` finds violated holds as long as nothing has forked.

`InfosMatchParents` is not inductive, since it says nothing of open
transactions. The invariant `IInv` adds for each of them (`TransactionOK`): its own
version of the documents agrees (`InfosMatch`); nothing it has added is still to
be removed (`PlanOK`); every info it has changed belongs to an entity it has
written; and for every entity whose write it has *not* missed, the infos it sees
are the committed ones with its own changes (`RowsOK`). A commit without
conflicts writes only entities of the last kind, so the merged documents agree,
and for the other transactions precisely the rows that changed under them become
missed.

The last three are about saves that do not overlap (`overlaps = 0` in the properties), with
failures at any point. `SerialInv` relates the only open transaction to the
committed documents: its table relates the new parents except those still to
be added, and the old ones still to be removed (`Halfway`), other tables relate what
their columns say, and entities it has not written are unchanged (`Tracked`). This uses that
the columns of a table are finite, since the flags count them.

`AncestorsExact` needs an argument about reachability. `Reachable` is the least set closed
under parents, so facts about paths follow from exhibiting a closed set, without an
induction: what is reached is a parent or is reached from one (`ReachFirst`), and, if nothing
forks, of two entities that are reached from one and reach a third, one reaches the other
(`NoBranch`). It follows that subtracting the ancestors of a removed parent from the
child and all below it takes away exactly what was reached only through it (`RemoveReaches`),
which a fork can make false; `EntityCycle` shows what comes of it.
Adding is exact also with forks (`AddReaches`), and the validation keeps it free of
cycles (`AddLineage`). `AncestryInv` states this of the committed documents and of the open
transaction.

`FeatureCatalogProofs` proves for any number of requests, versions and namespaces, and
any bounds, from `FeatureCatalogAssumption`:

- `TypeCorrect`: `Spec => []TypeOK`. The default of a namespace is only an id of the right
  kind, not always a version of it;
- `CatalogSound`: `Spec => []IInv`, the inductive invariant;
- `LinksAlwaysAgree`: `Spec => []LinksAgree`;
- `MembersAlwaysListed`: `Spec => []MembersListed`;
- `VersionsAlwaysDistinct`: `Spec => []VersionsDistinct`;
- `ReadinessAlwaysMoves`: the action property `ReadinessMoves`;
- `OneReadyWhenSerial`: `Spec => []OneProductionReadySerially`;
- `ListsAlwaysComparable`: `Spec => []ListsComparable`;
- `ListsAlwaysExact`: `Spec => []ListsExact`;
- `DefaultsAlwaysSettled`: `Spec => []DefaultsSettled`, for every choice by hand that the
  controllers accept.

The committed documents are `Sound`: typed as far as the links need it, and with the
links, the members and the version identifiers right. This is not inductive, since
a commit brings in what a transaction computed from an older snapshot. So `IInv`
requires of every transaction that may still commit that it would leave
sound documents *now* (`Overlay` of its writes on the committed documents); that it is
`Lawful`, which means that it changes no identifier and no features of a list, and
a version comes or goes only together with a write of its namespace; and
that the versions it creates have been read by nobody (`NewIsUnread`). The
central lemma is `Merged`: two lawful transactions from one state that write disjoint
documents leave sound documents together, and what one leaves, the other may
still be laid over. It is what write conflicts buy. Writes of a namespace outside of
transactions keep its ids, and a deleted list, which the recomputation
excludes, stays deleted. For the versions of lists, `SerialOK` adds that without overlaps
the number a request has read is still unused, and `PromotionOK` that the version it is
about to make production ready is still the only one: both rest on there being one request
at work.

The last three theorems and the type invariant add four layers, each of the same form: it holds
of the committed documents and of what every open transaction would leave.

- `ModelsOK`: all documents are typed. A default that is not chosen by hand is chosen with `CHOOSE`,
  so it is a version only if there is a best one (`BestExists`): a finite set of versions with
  none would have a smallest such subset, and there is no smallest.
- `CountsOK`: a list has one feature of each name, each is counted once, and the names are
  those its namespace was created with. Nobody changes these names (`KeepsSpaces`), and
  moving a count from one readiness to another keeps the total, so no assumption on
  interleaving is needed. Lists with the same names are of one size (`SameSize`).
- `ExactOK`, as long as no transaction has started from an outdated read: distributions
  count exactly. `Locks` is why: who changes the readiness of a feature, or
  deletes it, writes all its lists. Two transactions that both commit have written
  different documents, so neither has created or recounted a list of a feature that the
  other has changed, and their results count exactly together (`MergedExact`).
- `DefaultsOK`, when requests do not overlap: every namespace outside `unsettled` is settled. A
  recomputation reads, chooses and writes in three steps; it holds that what was read is
  still there at the write, and that what it will write is settled (`RecomputedSettled`).

`JobScheduleProofs` proves for every integer time and all parameters that satisfy
`JobScheduleAssumption`:

- `NextJobAfter`: the next job time is later than the time, by a period at most (so the
  first case of `_derive_correct_job_ts` never applies);
- `JobTimeIsIntervalStart`: the job time of the task is the start of the interval;
- `DueOncePerInterval`: beat finds a job due iff it was last launched in an earlier
  interval;
- `TileOfTime`: from the first tile boundary on, the tile index of a time is that of
  the tile that contains it (before it, truncation toward zero differs).

`TileJobsProofs` proves for any number of slots, any parameters and bounds, from
the assumptions of both modules, which do not relate the frequency to the OFFLINE period:

- `TypeCorrect`: `Spec => []TypeOK`;
- `NoGaps`: `NoTileSkipped`;
- `HistoryIsComplete`: `HistoryComplete`;
- `ServedVersionsExist`: `ServedIsWritten`;
- `OnlineValuesComplete`: `PublishedFromCompleteTiles`;
- `RecentTilesUncut`: `OnlyOldTilesCut`;
- `AlignedTilesUncut`: if the OFFLINE period is a multiple of the frequency, no tile is ever
  cut, and `Computed` is `complete` in all of these;
- `BeatAgreesWithTask`: `BeatAndTaskAgree`;
- `LaunchedOnce`: the action property `OncePerInterval`;
- `ServedRowsOnce`: `ServedOnce`;
- `TimeServedAdvances`: the action property `ServedTimeAdvances`.

The invariant is about windows. Both ends of every ONLINE window and every backfill lie on tile
boundaries, and the late rows of every complete tile have arrived (`Aged`). So
whatever such window is merged, by whichever run and however late, a complete tile stays
complete (`MergedKeeps`); a backfill, which ends too early after its last rows, only fails to
complete those tiles. An OFFLINE window may lie across a tile, which then moves from `complete` to `cut`
and so stays in `Computed`, unless the OFFLINE period is a multiple of the frequency
(`NothingCut`). The window of an ONLINE run ends the blind spot before the current
time, so it completes all of its tiles, and everything before its start is complete already
(`OnlineOK`): together there is no gap up to its end. It is this that is published.
`HistoryComplete` joins it to what the backfill has completed (`BackfillKept`).

The last two theorems rest on a second invariant (`ServeOK`), about the online
store while no two runs have updated the version at a time: the run at the update has read
the version that is published, nothing but its own insert and those of failed runs lies beyond
(`Unwritten`), and whoever is at work and has not been overtaken works for a job time
that is not earlier than the published one. A new execution takes the latest job time there
can be, because job times only grow with the clock (`JobTimesGrow`).

Every invariant and action property of the passing runs is proved in this way, and so is the
refinement. What stays with TLC are the liveness properties `TaskEnds` and `EnabledGetsServed`,
because the provers know neither fairness nor `ENABLED`, and the four violations, which
are counterexamples. The induction theorems of the library take an operator as a parameter,
which the provers cannot instantiate. The proofs therefore use least closed sets
(`Reachable`) and smallest counterexamples (`BestExists`) in the place of inductions.

## Where code and documentation disagree

Each is a run that TLC ends with a counterexample; `PROJECT.json` quotes the line.

- `DeploymentPartialRevert`: when *disabling* a list fails after `_update_feature` has taken it
  out of a feature's `deployed_feature_list_ids`, `_revert_changes` (`service/deploy.py:205`)
  restores the flags of the list and of its features, but not these ids. In the trace
  two lists with one feature are deployed, disabling the second fails and is reverted, and
  disabling the first then finds no list recorded and takes the feature offline: the second
  list stays deployed with a feature that is offline (`README.md:316` of the repository
  promises it is computed and stored). A failed *enabling* does not lead there: the id
  it leaves behind only keeps a feature online.
- `DeploymentLostHistory`: the backfill is skipped for a tile that has a job
  (`service/feature_manager.py:93`), so a failure between the two, followed by a retry,
  loses the history for good.
- `DeploymentRace`: a tile is found unused, then its job is stopped
  (`service/tile_manager.py:368`); a concurrent task may put the tile into use in
  between.
- `EntityCycle`: removing a parent removes all its ancestors
  (`service/relationship.py:178`), also those still reached along another parent,
  after which a cycle is accepted. No concurrency is needed.

## What is not modelled

Of the modelled components: `online_enable` when the working schema is being
recreated; time limits and progress of tasks; tables whose key has several columns;
semantics; enabling and disabling of relationship infos; the check that tagged entities
exist; the content of a feature and the production ready validator's comparison with
its tables; the monitor step and
the log of a tile job, several compute queries on one tile, retries inside the warehouse
session, entity trackers and on demand tiles; auditing; the sharing of one MongoDB session by
coroutines of one process.

Whole components: materialized tables and their deletion, whose hazard is in
`PROJECT.json` without a property; the working schema and the migrations, which are run
while the service is down; the tile cache, query graph and SQL generation, whose
correctness is about the meaning of SQL, which is out of TLC's reach; the session
manager, a cache around third party drivers; serving and previews, which read
only; the SDK, the notebooks and the documents of catalogs, credentials, users and
feature stores, which keep no state beyond one document. Most of the
repository's lines belong to these: the models cover the part with shared state.

## Plan

Done: `FeatureManager` and `Deployment` with `DeploymentContract`;
`EntityRelationship`; `FeatureCatalog`; `JobSchedule`; `TileJobs`; and their proofs.

What remains worth doing, in this order:

1. `MaterializedTables`: reference checks, and the ordered deletion of a document and its
   warehouse table. Abstract specification: a document exists only with its table.
2. `TileJobs` with several compute queries, and composed with `FeatureManager` so that
   overlapping enabling tasks share the jobs.
3. The rebuild of the working schema with a failure between its steps.
