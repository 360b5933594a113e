----------------------------- MODULE Deployment -----------------------------
(***************************************************************************)
(* Enabling and disabling deployments: the controller's requests, the      *)
(* Celery task DeploymentCreateUpdateTask, DeployService with its error    *)
(* handling, OnlineEnableService, FeatureListStatusService, and the calls  *)
(* into FeatureManagerService for every feature whose online status        *)
(* changes.                                                                *)
(*                                                                         *)
(* A step is one MongoDB transaction, or one read or write of a collection *)
(* outside of a transaction.  Tasks interleave between steps.              *)
(***************************************************************************)
EXTENDS FeatureManager

CONSTANTS Deployments, Lists, Spaces,   \* deployments, feature lists, feature list namespaces
          FeatureSpaces,                \* feature namespaces
          ListOf,                       \* deployment -> its feature list
          FeaturesIn,                   \* feature list -> FeatureListModel.feature_ids
          SpaceOf,                      \* feature list -> its namespace
          FeatureSpaceOf,               \* feature -> its namespace
          Volatile,                     \* features whose readiness may change during the run
          MaxActive,                    \* tasks and requests running at the same time
          MaxFaults,                    \* bound: exceptions injected at arbitrary statements
          MaxStatusUpdates              \* bound: status requests of users

ASSUME DeploymentAssumption ==
    /\ ListOf \in [Deployments -> Lists]
    /\ FeaturesIn \in [Lists -> SUBSET Features]
    /\ SpaceOf \in [Lists -> Spaces]
    /\ FeatureSpaceOf \in [Features -> FeatureSpaces]
    /\ Volatile \subseteq Features
    /\ MaxActive \in Nat /\ MaxFaults \in Nat /\ MaxStatusUpdates \in Nat

VARIABLES deployment,       \* DeploymentModel: "absent", "off" or "on" (enabled)
          deployed,         \* feature list -> FeatureListModel.deployed
          listOnlineIds,    \* feature list -> online_enabled_feature_ids
          deployedListIds,  \* feature -> FeatureModel.deployed_feature_list_ids
          spaceOnlineIds,   \* feature namespace -> online_enabled_feature_ids
          spaceListIds,     \* feature list namespace -> deployed_feature_list_ids
          status,           \* feature list namespace -> status
          productionReady,  \* feature -> readiness is PRODUCTION_READY
          statusRequest,    \* namespace -> status validated by a request, to be written
          task,             \* Celery task -> local state of DeployService
          faults,           \* exceptions injected so far
          statusUpdates,    \* status requests so far
          overwritten       \* history: features whose flag _revert_changes has set

catalogVars == <<onlineEnabled, deployment, deployed, listOnlineIds, deployedListIds,
                 spaceOnlineIds, spaceListIds, status>>
environmentVars == <<productionReady, statusRequest, statusUpdates>>
vars == <<catalogVars, warehouseVars, environmentVars, task, faults, overwritten>>

Statuses == {"DRAFT", "PUBLIC_DRAFT", "TEMPLATE", "DEPLOYED", "DEPRECATED"}
DeploymentStates == {"absent", "off", "on"}

TryPCs == {"writeList", "features", "warehouse", "space"}
RevertPCs == {"revertList", "revertFeatures", "revertSpace", "readStatus", "revertStatus"}
WorkingPCs == {"queued", "start", "count", "readList", "validate", "restore"}
                  \cup TryPCs \cup RevertPCs
EndPCs == {"done", "refused", "broken"}

(* create: whether the task is to create its deployment;                   *)
(* enabled, original: requested and original state of the deployment;      *)
(* target, before: new and original FeatureListModel.deployed;             *)
(* todo: features left; feature: the one in the warehouse;                 *)
(* seen, seenOn: feature_online_enabled_map, its keys and those mapped to  *)
(* TRUE; readIds, wasDeployed: the namespace as the reverting update read  *)
(* it (deployed_feature_list_ids, status is DEPLOYED);                     *)
(* broken: an exception was raised while handling an exception.            *)
Task == [pc: WorkingPCs \cup EndPCs \cup {"idle"}, create: BOOLEAN,
         deployment: Deployments \cup {None}, enabled: BOOLEAN, original: DeploymentStates,
         target: BOOLEAN, before: BOOLEAN,
         todo: SUBSET Features, seen: SUBSET Features, seenOn: SUBSET Features,
         readIds: SUBSET Lists, wasDeployed: BOOLEAN, broken: BOOLEAN]

IdleTask == [pc |-> "idle", create |-> FALSE, deployment |-> None, enabled |-> FALSE,
             original |-> "absent", target |-> FALSE, before |-> FALSE, todo |-> {}, seen |-> {}, seenOn |-> {},
             readIds |-> {}, wasDeployed |-> FALSE, broken |-> FALSE]

Init ==
    /\ FeatureManagerInit
    /\ onlineEnabled = [f \in Features |-> FALSE]
    /\ deployment \in [Deployments -> {"absent", "off"}]
    /\ deployed = [l \in Lists |-> FALSE]
    /\ listOnlineIds = [l \in Lists |-> {}]
    /\ deployedListIds = [f \in Features |-> {}]
    /\ spaceOnlineIds = [s \in FeatureSpaces |-> {}]
    /\ spaceListIds = [s \in Spaces |-> {}]
    /\ status = [s \in Spaces |-> "DRAFT"]
    /\ productionReady \in [Features -> BOOLEAN]
    /\ statusRequest = [s \in Spaces |-> None]
    /\ task = [t \in Tasks |-> IdleTask]
    /\ faults = 0
    /\ statusUpdates = 0
    /\ overwritten = {}

-----------------------------------------------------------------------------
(* Derived state *)

ListUnder(t) == ListOf[task[t].deployment]
Goto(t, pc) == task' = [task EXCEPT ![t].pc = pc]
End(t, pc) == task' = [task EXCEPT ![t] = [IdleTask EXCEPT !.pc = pc]]

Active == {t \in Tasks : task[t].pc \in WorkingPCs \ {"queued"}}
OpenRequests == {s \in Spaces : statusRequest[s] # None}
HasSlot == Cardinality(Active) + Cardinality(OpenRequests) < MaxActive

(* Nothing is running; requests may be queued.                             *)
Quiet == Active = {} /\ OpenRequests = {}

(* Faulty variant: an id once included is never excluded.                  *)
NeverExclude(include, ids, id) == IF include THEN ids \cup {id} ELSE ids

(* mixin.py include_object_id / exclude_object_id on an id list, as a set. *)
IncludeOrExclude(include, ids, id) == IF include THEN ids \cup {id} ELSE ids \ {id}

-----------------------------------------------------------------------------
(* Requests *)

(* Tasks are used in the order of their submission.                        *)
Fresh(t) == task[t].pc = "idle" /\ \A u \in Tasks : u < t => task[u].pc # "idle"

(* Controller: an update is submitted only if it changes the deployment.   *)
SubmitUpdate(t, d) ==
    /\ Fresh(t)
    /\ deployment[d] # "absent"
    /\ task' = [task EXCEPT ![t] = [IdleTask EXCEPT !.pc = "queued", !.deployment = d,
                                                    !.enabled = (deployment[d] = "off")]]
    /\ UNCHANGED <<catalogVars, warehouseVars, environmentVars, faults, overwritten>>

(* Controller: a deployment is always created disabled.                    *)
SubmitCreate(t, d) ==
    /\ Fresh(t)
    /\ deployment[d] = "absent"
    /\ \A u \in Tasks : task[u].deployment # d
    /\ task' = [task EXCEPT ![t] = [IdleTask EXCEPT !.pc = "queued", !.create = TRUE,
                                                    !.deployment = d]]
    /\ UNCHANGED <<catalogVars, warehouseVars, environmentVars, faults, overwritten>>

(* FeatureListStatusService.update_feature_list_namespace_status: whether  *)
(* the namespace may go from its status to the target.                     *)
StatusChangeAllowed(from, to, listIds) ==
    /\ ~(from = "DRAFT" /\ to = "DEPRECATED")
    /\ to # "DRAFT"
    /\ to = "DEPLOYED" => listIds # {}
    /\ from = "DEPLOYED" => listIds = {} /\ to = "PUBLIC_DRAFT"

(* A user asks for a status: the namespace is read and the change checked  *)
(* in one step, and written in another.                                    *)
RequestStatus(s, target) ==
    /\ statusUpdates < MaxStatusUpdates
    /\ HasSlot
    /\ statusRequest[s] = None
    /\ status[s] # target
    /\ StatusChangeAllowed(status[s], target, spaceListIds[s])
    /\ statusRequest' = [statusRequest EXCEPT ![s] = target]
    /\ statusUpdates' = statusUpdates + 1
    /\ UNCHANGED <<catalogVars, warehouseVars, productionReady, task, faults, overwritten>>

WriteStatus(s) ==
    /\ statusRequest[s] # None
    /\ status' = [status EXCEPT ![s] = statusRequest[s]]
    /\ statusRequest' = [statusRequest EXCEPT ![s] = None]
    /\ UNCHANGED <<onlineEnabled, deployment, deployed, listOnlineIds, deployedListIds,
                   spaceOnlineIds, spaceListIds, warehouseVars, productionReady,
                   statusUpdates, task, faults, overwritten>>

(* FeatureReadinessService may change the readiness of a feature any time. *)
ChangeReadiness(f) ==
    /\ f \in Volatile
    /\ productionReady' = [productionReady EXCEPT ![f] = ~@]
    /\ UNCHANGED <<catalogVars, warehouseVars, statusRequest, statusUpdates, task, faults,
                   overwritten>>

-----------------------------------------------------------------------------
(* create_deployment and update_deployment, up to _update_feature_list *)

(* The worker takes the task; a creation goes on, an update reads the      *)
(* deployment and ends here when it is as wanted, or gone.                 *)
Start(t) ==
    LET d == task[t].deployment
        asWanted == task[t].enabled = (deployment[d] = "on") IN
    /\ task[t].pc = "queued"
    /\ HasSlot
    /\ \/ /\ task[t].create \/ (deployment[d] # "absent" /\ ~asWanted)
          /\ task' = [task EXCEPT ![t].pc = "start",
                                  ![t].original = IF task[t].create THEN "absent"
                                                  ELSE deployment[d]]
       \/ /\ ~task[t].create /\ deployment[d] # "absent" /\ asWanted
          /\ End(t, "done")
       \/ /\ ~task[t].create /\ deployment[d] = "absent"
          /\ End(t, "refused")
    /\ UNCHANGED <<catalogVars, warehouseVars, environmentVars, faults, overwritten>>

(* deployment_service.create_document, or update_document of enabled.      *)
WriteDeployment(t) ==
    LET d == task[t].deployment IN
    /\ task[t].pc = "start"
    /\ IF ~task[t].create /\ deployment[d] = "absent"
       THEN Goto(t, "restore") /\ UNCHANGED deployment
       ELSE /\ deployment' = [deployment EXCEPT ![d] = IF task[t].enabled THEN "on" ELSE "off"]
            /\ Goto(t, "count")
    /\ UNCHANGED <<onlineEnabled, deployed, listOnlineIds, deployedListIds, spaceOnlineIds,
                   spaceListIds, status, warehouseVars, environmentVars, faults, overwritten>>

(* Faulty variant: other deployments of the list are not looked at.        *)
CountOwn(t) ==
    /\ task[t].pc = "count"
    /\ task' = [task EXCEPT ![t].pc = "readList", ![t].target = task[t].enabled]
    /\ UNCHANGED <<catalogVars, warehouseVars, environmentVars, faults, overwritten>>

(* _update_feature_list: target_deployed from the enabled deployments ...  *)
CountEnabled(t) ==
    /\ task[t].pc = "count"
    /\ task' = [task EXCEPT ![t].pc = "readList",
                            ![t].target = \E d \in Deployments : /\ ListOf[d] = ListUnder(t)
                                                                 /\ deployment[d] = "on"]
    /\ UNCHANGED <<catalogVars, warehouseVars, environmentVars, faults, overwritten>>

(* ... then the feature list is read: nothing to do if it is as it should. *)
ReadList(t) ==
    /\ task[t].pc = "readList"
    /\ IF deployed[ListUnder(t)] = task[t].target
       THEN End(t, "done")
       ELSE task' = [task EXCEPT ![t].pc = "validate", ![t].before = deployed[ListUnder(t)]]
    /\ UNCHANGED <<catalogVars, warehouseVars, environmentVars, faults, overwritten>>

(* _validate_deployed_operation; raised before the try block, a refusal    *)
(* reverts nothing but the deployment itself.                              *)
Validate(t) ==
    LET l == ListUnder(t) IN
    /\ task[t].pc = "validate"
    /\ IF task[t].target => /\ status[SpaceOf[l]] # "DEPRECATED"
                            /\ \A f \in FeaturesIn[l] : productionReady[f]
       THEN Goto(t, "writeList")
       ELSE Goto(t, "restore")
    /\ UNCHANGED <<catalogVars, warehouseVars, environmentVars, faults, overwritten>>

-----------------------------------------------------------------------------
(* The try block of _update_feature_list *)

WriteList(t) ==
    /\ task[t].pc = "writeList"
    /\ deployed' = [deployed EXCEPT ![ListUnder(t)] = task[t].target]
    /\ task' = [task EXCEPT ![t].pc = "features", ![t].todo = FeaturesIn[ListUnder(t)]]
    /\ UNCHANGED <<onlineEnabled, deployment, listOnlineIds, deployedListIds, spaceOnlineIds,
                   spaceListIds, status, warehouseVars, environmentVars, faults, overwritten>>

(* Faulty variant: the feature lists are left as they were.                *)
SetOnlineInNamespace(f, online) ==
    /\ onlineEnabled' = [onlineEnabled EXCEPT ![f] = online]
    /\ spaceOnlineIds' = [spaceOnlineIds EXCEPT ![FeatureSpaceOf[f]] =
                             IncludeOrExclude(online, @, f)]
    /\ UNCHANGED listOnlineIds

(* OnlineEnableService.update_feature: the feature, its namespace and      *)
(* every feature list that holds it change in one transaction.             *)
SetOnline(f, online) ==
    /\ onlineEnabled' = [onlineEnabled EXCEPT ![f] = online]
    /\ IF onlineEnabled[f] # online
       THEN /\ spaceOnlineIds' = [spaceOnlineIds EXCEPT ![FeatureSpaceOf[f]] =
                                    IncludeOrExclude(online, @, f)]
            /\ listOnlineIds' = [l \in Lists |->
                                   IF f \in FeaturesIn[l]
                                   THEN IncludeOrExclude(online, listOnlineIds[l], f)
                                   ELSE listOnlineIds[l]]
       ELSE UNCHANGED <<spaceOnlineIds, listOnlineIds>>

(* What a task remembers of the features it has begun to change.           *)
Remember(c, f) == [c EXCEPT !.seen = c.seen \cup {f},
                            !.seenOn = IF onlineEnabled[f] THEN c.seenOn \cup {f}
                                       ELSE c.seenOn \ {f}]

(* Faulty variant: the flag is decided by the deployed lists the feature   *)
(* recorded before this update, not by the updated ones.                   *)
UpdateFeatureByOldIds(t) ==
    /\ task[t].pc = "features"
    /\ \E f \in task[t].todo :
         LET online == deployedListIds[f] # {}
             changed == onlineEnabled[f] # online IN
         /\ SetOnline(f, online)
         /\ deployedListIds' = [deployedListIds EXCEPT ![f] =
                                   IncludeOrExclude(task[t].target, @, ListUnder(t))]
         /\ task' = [task EXCEPT ![t] =
                       [Remember(task[t], f) EXCEPT
                          !.todo = task[t].todo \ {f},
                          !.pc = IF changed THEN "warehouse" ELSE "features"]]
         /\ call' = IF changed THEN [call EXCEPT ![t] = NewCall(f, online)] ELSE call
         /\ overwritten' = overwritten \ {f}
    /\ UNCHANGED <<deployment, deployed, spaceListIds, status, queries, jobs, backfilled,
                   store, environmentVars, faults>>

(* One iteration: the transaction of _update_feature, after which the data *)
(* warehouse is updated iff the feature's flag has changed.                *)
UpdateFeature(t) ==
    /\ task[t].pc = "features"
    /\ \E f \in task[t].todo :
         LET ids == IncludeOrExclude(task[t].target, deployedListIds[f], ListUnder(t))
             online == ids # {}
             changed == onlineEnabled[f] # online IN
         /\ SetOnline(f, online)
         /\ deployedListIds' = [deployedListIds EXCEPT ![f] = ids]
         /\ task' = [task EXCEPT ![t] =
                       [Remember(task[t], f) EXCEPT
                          !.todo = task[t].todo \ {f},
                          !.pc = IF changed THEN "warehouse" ELSE "features"]]
         /\ call' = IF changed THEN [call EXCEPT ![t] = NewCall(f, online)] ELSE call
         /\ overwritten' = overwritten \ {f}
    /\ UNCHANGED <<deployment, deployed, spaceListIds, status, queries, jobs, backfilled,
                   store, environmentVars, faults>>

(* A statement of the call into FeatureManagerService.                     *)
UpdateWarehouse(t) ==
    /\ task[t].pc = "warehouse"
    /\ WarehouseStep(t)
    /\ UNCHANGED <<catalogVars, environmentVars, task, faults, overwritten>>

(* Faulty variant: waits for the call to return, an exception is lost.     *)
WarehouseReturns(t) ==
    /\ task[t].pc = "warehouse"
    /\ call[t].pc = "returned"
    /\ Goto(t, "features")
    /\ call' = [call EXCEPT ![t] = IdleCall]
    /\ UNCHANGED <<catalogVars, queries, jobs, backfilled, store, environmentVars, faults,
                   overwritten>>

WarehouseEnds(t) ==
    /\ task[t].pc = "warehouse"
    /\ call[t].pc \in {"returned", "raised"}
    /\ Goto(t, IF call[t].pc = "returned" THEN "features" ELSE "revertList")
    /\ call' = [call EXCEPT ![t] = IdleCall]
    /\ UNCHANGED <<catalogVars, queries, jobs, backfilled, store, environmentVars, faults,
                   overwritten>>

FeaturesUpdated(t) ==
    /\ task[t].pc = "features"
    /\ task[t].todo = {}
    /\ Goto(t, "space")
    /\ UNCHANGED <<catalogVars, warehouseVars, environmentVars, faults, overwritten>>

(* The status _update_feature_list_namespace asks for, if it asks at all.  *)
StatusAfter(listIds, wasDeployed, current) ==
    IF listIds # {} THEN "DEPLOYED" ELSE IF wasDeployed THEN "PUBLIC_DRAFT" ELSE current

(* _update_feature_list_namespace in its transaction; the status service   *)
(* finds the list ids just written, so it allows the change.               *)
UpdateSpace(t) ==
    LET l == ListUnder(t)
        s == SpaceOf[l]
        ids == IncludeOrExclude(task[t].target, spaceListIds[s], l) IN
    /\ task[t].pc = "space"
    /\ spaceListIds' = [spaceListIds EXCEPT ![s] = ids]
    /\ status' = [status EXCEPT ![s] = StatusAfter(ids, @ = "DEPLOYED", @)]
    /\ End(t, "done")
    /\ UNCHANGED <<onlineEnabled, deployment, deployed, listOnlineIds, deployedListIds,
                   spaceOnlineIds, warehouseVars, environmentVars, faults, overwritten>>

-----------------------------------------------------------------------------
(* _revert_changes *)

RevertList(t) ==
    /\ task[t].pc = "revertList"
    /\ deployed' = [deployed EXCEPT ![ListUnder(t)] = task[t].before]
    /\ task' = [task EXCEPT ![t].pc = "revertFeatures", ![t].todo = task[t].seen]
    /\ UNCHANGED <<onlineEnabled, deployment, listOnlineIds, deployedListIds, spaceOnlineIds,
                   spaceListIds, status, warehouseVars, environmentVars, faults, overwritten>>

(* The flag goes back to what the map remembers; update_data_warehouse is  *)
(* then called with a feature whose flag equals online_enabled_before, and *)
(* returns at once.  deployed_feature_list_ids is not touched.             *)
RevertFeature(t) ==
    /\ task[t].pc = "revertFeatures"
    /\ \E f \in task[t].todo :
         /\ SetOnline(f, f \in task[t].seenOn)
         /\ task' = [task EXCEPT ![t].todo = @ \ {f}]
         /\ overwritten' = overwritten \cup {f}
    /\ UNCHANGED <<deployment, deployed, deployedListIds, spaceListIds, status, warehouseVars,
                   environmentVars, faults>>

(* _update_feature_list_namespace again, outside of a transaction: the     *)
(* namespace is read ...                                                   *)
ReadSpace(t) ==
    LET s == SpaceOf[ListUnder(t)] IN
    /\ task[t].pc = "revertFeatures"
    /\ task[t].todo = {}
    /\ task' = [task EXCEPT ![t].pc = "revertSpace",
                            ![t].readIds = spaceListIds[s],
                            ![t].wasDeployed = (status[s] = "DEPLOYED")]
    /\ UNCHANGED <<catalogVars, warehouseVars, environmentVars, faults, overwritten>>

RevertedIds(t) == IncludeOrExclude(task[t].before, task[t].readIds, ListUnder(t))

(* ... its list ids are written if they differ from those read ...         *)
RevertSpace(t) ==
    LET s == SpaceOf[ListUnder(t)] IN
    /\ task[t].pc = "revertSpace"
    /\ spaceListIds' = IF RevertedIds(t) = task[t].readIds THEN spaceListIds
                       ELSE [spaceListIds EXCEPT ![s] = RevertedIds(t)]
    /\ Goto(t, "readStatus")
    /\ UNCHANGED <<onlineEnabled, deployment, deployed, listOnlineIds, deployedListIds,
                   spaceOnlineIds, status, warehouseVars, environmentVars, faults, overwritten>>

(* ... the status service reads the namespace anew and may raise ...       *)
ReadStatus(t) ==
    LET s == SpaceOf[ListUnder(t)]
        wanted == StatusAfter(RevertedIds(t), task[t].wasDeployed, status[s]) IN
    /\ task[t].pc = "readStatus"
    /\ \/ wanted = status[s] /\ Goto(t, "restore")
       \/ /\ wanted # status[s]
          /\ IF StatusChangeAllowed(status[s], wanted, spaceListIds[s])
             THEN Goto(t, "revertStatus")
             ELSE task' = [task EXCEPT ![t].pc = "restore", ![t].broken = TRUE]
    /\ UNCHANGED <<catalogVars, warehouseVars, environmentVars, faults, overwritten>>

(* ... and writes the status.                                              *)
RevertStatus(t) ==
    LET s == SpaceOf[ListUnder(t)] IN
    /\ task[t].pc = "revertStatus"
    /\ status' = [status EXCEPT ![s] = StatusAfter(RevertedIds(t), task[t].wasDeployed, @)]
    /\ Goto(t, "restore")
    /\ UNCHANGED <<onlineEnabled, deployment, deployed, listOnlineIds, deployedListIds,
                   spaceOnlineIds, spaceListIds, warehouseVars, environmentVars, faults,
                   overwritten>>

(* Faulty variant: a failed task leaves the deployment as it wrote it.     *)
RestoreNothing(t) ==
    /\ task[t].pc = "restore"
    /\ End(t, IF task[t].broken THEN "broken" ELSE "refused")
    /\ UNCHANGED <<catalogVars, warehouseVars, environmentVars, faults, overwritten>>

(* The except blocks of create_deployment and update_deployment: the       *)
(* created deployment is deleted, an updated one gets its flag back.  A    *)
(* deployment that is gone makes the handler raise.                        *)
Restore(t) ==
    LET d == task[t].deployment IN
    /\ task[t].pc = "restore"
    /\ deployment' = IF deployment[d] = "absent" THEN deployment
                     ELSE [deployment EXCEPT ![d] = task[t].original]
    /\ End(t, IF task[t].broken \/ deployment[d] = "absent" THEN "broken" ELSE "refused")
    /\ UNCHANGED <<onlineEnabled, deployed, listOnlineIds, deployedListIds, spaceOnlineIds,
                   spaceListIds, status, warehouseVars, environmentVars, faults, overwritten>>

-----------------------------------------------------------------------------
(* Exceptions and crashes *)

(* Any statement may raise; a transaction it is part of is aborted.  In    *)
(* the loop over features the map may or may not have its new entry.       *)
Fault(t) ==
    /\ faults < MaxFaults
    /\ faults' = faults + 1
    /\ \/ /\ task[t].pc \in {"start", "count", "readList", "validate"}
          /\ Goto(t, "restore")
          /\ UNCHANGED call
       \/ /\ task[t].pc \in {"writeList", "features", "space"}
          /\ \/ Goto(t, "revertList")
             \/ /\ task[t].pc = "features"
                /\ \E f \in task[t].todo :
                     task' = [task EXCEPT ![t] =
                                [Remember(task[t], f) EXCEPT !.pc = "revertList"]]
          /\ UNCHANGED call
       \/ /\ task[t].pc = "warehouse"
          /\ CallRaises(t)
          /\ UNCHANGED task
       \/ /\ task[t].pc \in RevertPCs
          /\ task' = [task EXCEPT ![t].pc = "restore", ![t].broken = TRUE]
          /\ UNCHANGED call
       \/ /\ task[t].pc = "restore"
          /\ End(t, "broken")
          /\ UNCHANGED call
    /\ UNCHANGED <<catalogVars, queries, jobs, backfilled, store, environmentVars, overwritten>>

(* The worker process dies: nothing is handled and nothing is resumed.     *)
Crash(t) ==
    /\ faults < MaxFaults
    /\ task[t].pc \in WorkingPCs \ {"queued"}
    /\ faults' = faults + 1
    /\ End(t, "broken")
    /\ call' = [call EXCEPT ![t] = IdleCall]
    /\ UNCHANGED <<catalogVars, queries, jobs, backfilled, store, environmentVars, overwritten>>

-----------------------------------------------------------------------------
(* Specification *)

DeployStep(t) ==
    \/ WriteDeployment(t) \/ CountEnabled(t) \/ ReadList(t) \/ Validate(t)
    \/ WriteList(t) \/ UpdateFeature(t) \/ UpdateWarehouse(t) \/ WarehouseEnds(t)
    \/ FeaturesUpdated(t) \/ UpdateSpace(t)

RevertStep(t) ==
    \/ RevertList(t) \/ RevertFeature(t) \/ ReadSpace(t) \/ RevertSpace(t)
    \/ ReadStatus(t) \/ RevertStatus(t) \/ Restore(t)

TaskStep(t) == Start(t) \/ DeployStep(t) \/ RevertStep(t)

Submit(t) == \E d \in Deployments : SubmitUpdate(t, d) \/ SubmitCreate(t, d)

Next ==
    \/ \E t \in Tasks : Submit(t) \/ TaskStep(t) \/ Fault(t) \/ Crash(t)
    \/ \E s \in Spaces : WriteStatus(s) \/ \E target \in Statuses : RequestStatus(s, target)
    \/ \E f \in Features : ChangeReadiness(f)

Spec == Init /\ [][Next]_vars

(* A worker runs the coroutine of a task it has taken to its end, and the  *)
(* API process that has validated a status writes it.                      *)
Fairness ==
    /\ \A t \in Tasks : WF_vars(TaskStep(t))
    /\ \A s \in Spaces : WF_vars(WriteStatus(s))

FairSpec == Spec /\ Fairness

-----------------------------------------------------------------------------
(* Properties *)

CatalogTypeOK ==
    /\ onlineEnabled \in [Features -> BOOLEAN]
    /\ deployment \in [Deployments -> DeploymentStates]
    /\ deployed \in [Lists -> BOOLEAN]
    /\ listOnlineIds \in [Lists -> SUBSET Features]
    /\ deployedListIds \in [Features -> SUBSET Lists]
    /\ spaceOnlineIds \in [FeatureSpaces -> SUBSET Features]
    /\ spaceListIds \in [Spaces -> SUBSET Lists]
    /\ status \in [Spaces -> Statuses]

EnvironmentTypeOK ==
    /\ productionReady \in [Features -> BOOLEAN]
    /\ statusRequest \in [Spaces -> Statuses \cup {None}]
    /\ statusUpdates \in Nat

(* A task at work has a deployment.                                        *)
TaskTypeOK(c) == c \in Task /\ (c.pc \in WorkingPCs => c.deployment \in Deployments)

TypeOK ==
    /\ WarehouseTypeOK
    /\ CatalogTypeOK
    /\ EnvironmentTypeOK
    /\ task \in [Tasks -> Task]
    /\ \A t \in Tasks : TaskTypeOK(task[t])
    /\ faults \in Nat
    /\ overwritten \subseteq Features

(* The copies of a feature's online flag agree with it at every moment,    *)
(* whatever tasks interleave, fail or die: its namespace and every feature *)
(* list that holds it name it as online iff its document says so           *)
(* (online_enable.py, update_feature).                                     *)
OnlineMirrored ==
    /\ \A f \in Features, p \in FeatureSpaces :
         f \in spaceOnlineIds[p] <=> p = FeatureSpaceOf[f] /\ onlineEnabled[f]
    /\ \A f \in Features, l \in Lists :
         f \in listOnlineIds[l] <=> f \in FeaturesIn[l] /\ onlineEnabled[f]

(* A feature is online iff some deployed feature list is recorded in it,   *)
(* under any interleaving of tasks on shared features, for every feature   *)
(* whose flag was last set by _update_feature and not by _revert_changes.  *)
OnlineIffDeployedIds ==
    \A f \in Features \ overwritten : onlineEnabled[f] <=> deployedListIds[f] # {}

NoneBroken == \A t \in Tasks : task[t].pc # "broken"

EnabledLists == {ListOf[d] : d \in {e \in Deployments : deployment[e] = "on"}}
DeployedLists == {l \in Lists : deployed[l]}

(* When tasks run one at a time, the deployments, the feature lists and    *)
(* their namespace agree after every task, successful or refused, also     *)
(* when an exception was raised at any statement of it: a list is deployed *)
(* iff a deployment of it is enabled, the namespace records exactly its    *)
(* deployed lists, and its status is DEPLOYED iff there is one.            *)
SettledDeployment ==
    Quiet /\ NoneBroken =>
        /\ DeployedLists = EnabledLists
        /\ \A s \in Spaces :
             /\ spaceListIds[s] = {l \in DeployedLists : SpaceOf[l] = s}
             /\ status[s] = "DEPLOYED" <=> spaceListIds[s] # {}

(* When tasks run one at a time and nothing has failed, a feature records  *)
(* exactly the deployed lists that hold it, so with OnlineIffDeployedIds a *)
(* list's deployment is what keeps its features online.                    *)
SettledFeatures ==
    Quiet /\ faults = 0 =>
        \A f \in Features : deployedListIds[f] = {l \in DeployedLists : f \in FeaturesIn[l]}

(* When tasks run one at a time and nothing has failed, the warehouse side *)
(* serves exactly the online features: one compute query per result name   *)
(* and one ONLINE and one OFFLINE job per tile in use and none for others, *)
(* historical tiles and a populated online store behind each of them.      *)
SettledWarehouse ==
    Quiet /\ faults = 0 =>
        /\ \A n \in Names :
             LET used == \E f \in Features : onlineEnabled[f] /\ n \in NamesOf[f] IN
             /\ Cardinality(queries[n]) = IF used THEN 1 ELSE 0
             /\ used => n \in store
        /\ \A k \in Tiles : 
             /\ \A y \in TileTypes : Cardinality(jobs[k][y]) = IF TileInUse(k) THEN 1 ELSE 0
             /\ TileInUse(k) => k \in backfilled

(* The state users see: while a task runs, the one before it; a task that  *)
(* is killed or fails in its error handling leaves the lists unspecified,  *)
(* any failure the features (see DeployedListIsOnline).                    *)
SeenEnabled == {d \in Deployments :
                  IF \E t \in Active : task[t].deployment = d /\ task[t].pc # "start"
                  THEN \E t \in Active : task[t].deployment = d /\ task[t].original = "on"
                  ELSE deployment[d] = "on"}
SeenLists == IF Quiet /\ NoneBroken THEN DeployedLists ELSE {ListOf[d] : d \in SeenEnabled}
SeenFeatures == IF Quiet /\ faults = 0 THEN {f \in Features : onlineEnabled[f]}
                ELSE UNION {FeaturesIn[l] : l \in {ListOf[d] : d \in SeenEnabled}}

Contract == INSTANCE DeploymentContract
              WITH enabled <- SeenEnabled, deployedLists <- SeenLists,
                   onlineFeatures <- SeenFeatures

(* When tasks run one at a time, switching a deployment is atomic for its  *)
(* users: it happens as a whole when its task ends, or not at all.         *)
SwitchIsAtomic == Contract!Spec

(* tile_manager.py:376 - "Only disable the tile job if the aggregation_id  *)
(* is not referenced by any currently online enabled features": no step    *)
(* removes a job of a tile that an online feature uses.                    *)
OnlyUnusedJobsStopped ==
    [][\A k \in Tiles, y \in TileTypes : jobs[k][y] \ jobs'[k][y] # {} => ~TileInUse(k)]_vars

(* Every submitted task comes to an end, also when tasks share features    *)
(* and when statements raise: error handling neither loops nor waits.      *)
TaskEnds == \A t \in Tasks : task[t].pc = "queued" ~> task[t].pc \in EndPCs

Serving(l) ==
    /\ deployed[l]
    /\ \A f \in FeaturesIn[l] : /\ onlineEnabled[f]
                                /\ \A k \in TilesOf[f] : jobs[k]["ONLINE"] # {}
                                /\ NamesOf[f] \subseteq store

(* When tasks run one at a time, a deployment that is enabled is in the    *)
(* end either serving (list deployed, features online, tiles scheduled and *)
(* online store populated) or not enabled any more, unless something       *)
(* failed on the way.                                                      *)
EnabledGetsServed ==
    \A d \in Deployments :
        deployment[d] = "on" ~> Serving(ListOf[d]) \/ deployment[d] # "on" \/ faults > 0

(* README.md:316 - once a feature list is deployed its features are        *)
(* computed and stored for serving: the features of a deployed list are    *)
(* online whenever nothing is running.                                     *)
DeployedListIsOnline ==
    Quiet /\ NoneBroken =>
        \A l \in DeployedLists : \A f \in FeaturesIn[l] : onlineEnabled[f]

(* feature_manager.py:107 - only when the schema is being recreated can    *)
(* one not assume that historical tiles are available where there is an    *)
(* active tile job: the tiles of a feature of a deployed list have their   *)
(* history whenever nothing is running.                                    *)
ActiveTileHasHistory ==
    Quiet /\ NoneBroken =>
        \A l \in DeployedLists : \A f \in FeaturesIn[l] :
            \A k \in TilesOf[f] : jobs[k]["ONLINE"] # {} => k \in backfilled
=============================================================================
