---------------------- MODULE DeploymentFaultlessProofs ----------------------
(***************************************************************************)
(* Theorems about Deployment when tasks run one at a time and nothing has  *)
(* failed: the features record the deployed lists that hold them, and the  *)
(* data warehouse serves exactly the online features.                      *)
(***************************************************************************)
EXTENDS DeploymentSerialProofs

-----------------------------------------------------------------------------
(* The inductive invariant *)

(* The deployed lists a feature records: the list under a task counts as   *)
(* switched for the features that the loop is through with.                *)
Switched(t, f) == task[t].pc \in SwitchingPCs /\ f \notin task[t].todo
SwitchedBy(t, f, l) == l = ListUnder(t) /\ Switched(t, f)
RecordedLists(f) ==
    {l \in Lists : /\ f \in FeaturesIn[l]
                   /\ IF \E t \in Active : SwitchedBy(t, f, l)
                      THEN \E t \in Active : SwitchedBy(t, f, l) /\ task[t].target
                      ELSE l \in PromisedLists}

(* Without a fault no task reverts, and one that restores its deployment   *)
(* has been refused.                                                       *)
GoesWell(t) ==
    /\ task[t].pc \notin RevertPCs
    /\ task[t].pc = "restore" => deployment[task[t].deployment] = Wanted(task[t])
    /\ task[t].pc \in SwitchingPCs => task[t].todo \subseteq FeaturesIn[ListUnder(t)]
    /\ task[t].pc = "space" => task[t].todo = {}

FeaturesOK ==
    /\ \A f \in Features : deployedListIds[f] = RecordedLists(f)
    /\ overwritten = {}
    /\ Unbroken
    /\ \A t \in Active : GoesWell(t)

-----------------------------------------------------------------------------
(* The warehouse in the middle of a call *)

Online == {f \in Features : onlineEnabled[f]}
UsedNames(fs) == UNION {NamesOf[f] : f \in fs}
UsedTiles(fs) == UNION {TilesOf[f] : f \in fs}

(* The features that were online when the call was made.                   *)
Before(c) == IF c.pc \in DisablePCs THEN Online \cup {c.feature} ELSE Online \ {c.feature}

(* The names and tiles that still are as they were before the call.        *)
NamesLeft(c) ==
    CASE c.pc \in {"enable", "disable"} -> NamesOf[c.feature]
      [] c.pc \in {"insertQueries", "removeQueries"} -> c.todo
      [] c.pc = "deleteQuery" -> c.todo \cup {c.name}
      [] OTHER -> {}

(* Whether a name, or a tile, is in use as far as the call has come.       *)
NameUsed(c, n) == IF n \in NamesLeft(c) THEN n \in UsedNames(Before(c)) ELSE n \in UsedNames(Online)
TileUsed(c, k) == IF k \in c.tiles THEN k \in UsedTiles(Before(c)) ELSE k \in UsedTiles(Online)

One(docs) == \E d \in Tasks : docs = {d}
AtTile(c, k) == c.pc \in TilePCs /\ k = c.tile

QueriesOK(c) ==
    \A n \in Names : IF NameUsed(c, n) THEN One(queries[n]) ELSE queries[n] = {}

JobsOK(c) ==
    \A k \in Tiles : ~AtTile(c, k) =>
        \A y \in TileTypes : IF TileUsed(c, k) THEN One(jobs[k][y]) ELSE jobs[k][y] = {}

StoreOK(c) ==
    \A n \in Names \ c.names :
        n \in UsedNames(IF c.pc = "enable" THEN Before(c) ELSE Online) => n \in store

HistoryOK(c) ==
    \A k \in Tiles : TileUsed(c, k) /\ ~AtTile(c, k) => k \in backfilled

(* What the call is at.                                                    *)
LoopOK(c) ==
    LET f == c.feature
        k == c.tile IN
    /\ c.pc # "raised"
    /\ c.pc \in EnablePCs => f \in Online
    /\ c.pc \in DisablePCs => f \notin Online
    /\ c.pc \in RunningPCs => c.tiles \subseteq TilesOf[f]
    /\ c.pc \in {"idle", "returned"} => c.tiles = {}
    /\ c.pc \in {"idle", "returned", "enable"} \cup DisablePCs => c.names = {}
    /\ c.pc = "populate" => c.tiles = {}
    /\ c.pc = "insertQueries" => c.names \subseteq NamesOf[f] \ UsedNames(Before(c))
    /\ c.pc = "insertQueries" => c.todo \subseteq c.names
    /\ c.pc \in {"removeQueries", "deleteQuery"} => c.todo \subseteq NamesOf[f] \ UsedNames(Online)
    /\ c.pc = "deleteQuery" => /\ c.name \in NamesOf[f] \ (UsedNames(Online) \cup c.todo)
                               /\ queries[c.name] = {c.doc}
    /\ c.pc \in TilePCs => c.tile \in TilesOf[f] \ c.tiles
    /\ c.pc \in {"startJob", "createJob"} =>
         /\ IF c.type = "ONLINE" THEN jobs[k]["ONLINE"] = {} ELSE One(jobs[k]["ONLINE"])
         /\ jobs[k]["OFFLINE"] = {}
    /\ c.pc = "backfill" => One(jobs[k]["ONLINE"]) /\ One(jobs[k]["OFFLINE"])
    /\ c.pc \in {"stopJob", "deleteJob"} =>
         /\ c.tile \notin UsedTiles(Online)
         /\ IF c.type = "ONLINE" THEN One(jobs[k]["ONLINE"]) ELSE jobs[k]["ONLINE"] = {}
         /\ One(jobs[k]["OFFLINE"])
    /\ c.pc = "deleteJob" => jobs[k][c.type] = {c.doc}

WarehouseOK(c) == QueriesOK(c) /\ JobsOK(c) /\ StoreOK(c) /\ HistoryOK(c) /\ LoopOK(c)

CallsOK ==
    /\ (\A t \in Tasks : call[t].pc = "idle") => WarehouseOK(IdleCall)
    /\ \A t \in Tasks : call[t].pc # "idle" => WarehouseOK(call[t])

Faultless == faults = 0 => FeaturesOK /\ CallsOK

-----------------------------------------------------------------------------
(* What is in use before and after a switch *)

(* A call that goes on is about the same switch.                           *)
LEMMA SameSwitch ==
    ASSUME NEW t \in Tasks, UNCHANGED onlineEnabled, call'[t].feature = call[t].feature,
           call'[t].pc \in DisablePCs <=> call[t].pc \in DisablePCs
    PROVE  Online' = Online /\ Before(call[t])' = Before(call[t])
BY DEF Online, Before

LEMMA Enabling ==
    ASSUME NEW c, c.pc \in EnablePCs, c.feature \in Online
    PROVE  /\ UsedNames(Online) = UsedNames(Before(c)) \cup NamesOf[c.feature]
           /\ UsedTiles(Online) = UsedTiles(Before(c)) \cup TilesOf[c.feature]
<1>1. Online = Before(c) \cup {c.feature}
  BY DEF Before, EnablePCs, DisablePCs
<1> QED
  BY <1>1 DEF UsedNames, UsedTiles

LEMMA Disabling ==
    ASSUME NEW c, c.pc \in DisablePCs
    PROVE  /\ UsedNames(Before(c)) = UsedNames(Online) \cup NamesOf[c.feature]
           /\ UsedTiles(Before(c)) = UsedTiles(Online) \cup TilesOf[c.feature]
<1>1. Before(c) = Online \cup {c.feature}
  BY DEF Before
<1> QED
  BY <1>1 DEF UsedNames, UsedTiles

(* The look at the online features finds exactly what is in use.           *)
LEMMA TileInUseIs == \A k : TileInUse(k) <=> k \in UsedTiles(Online)
BY DEF TileInUse, UsedTiles, Online

LEMMA NamesInUseIs ==
    ASSUME NEW f \in Features
    PROVE  NamesOf[f] \ NamesInUse(f) = NamesOf[f] \ UsedNames(Online)
BY DEF NamesInUse, UsedNames, Online

LEMMA OneIs ==
    ASSUME NEW docs, One(docs)
    PROVE  docs # {} /\ Cardinality(docs) = 1
BY FS_Singleton DEF One

-----------------------------------------------------------------------------
(* The statements of online_enable *)

LEMMA ReadUnscheduledServes ==
    ASSUME NEW t \in Tasks, WarehouseTypeOK, UNCHANGED onlineEnabled, WarehouseOK(call[t]),
           ReadUnscheduled(t)
    PROVE  WarehouseOK(call[t])'
<1> DEFINE c == call[t]
           f == c.feature
           names == {n \in NamesOf[f] : queries[n] = {}}
<1>0. /\ call \in [Tasks -> Call] /\ c.pc = "enable" /\ f \in Features
      /\ UNCHANGED <<queries, jobs, backfilled, store>> /\ NamesOf[f] \subseteq Names
  BY FeatureManagerAssumption, PCs DEF WarehouseTypeOK, CallTypeOK, ReadUnscheduled
<1> USE DEF EnablePCs, DisablePCs, RunningPCs, TilePCs
<1>1. \A n \in Names : queries[n] = {} \/ One(queries[n])
  BY DEF WarehouseOK, QueriesOK
<1>2. call' = [call EXCEPT ![t] = [c EXCEPT !.pc = "insertQueries", !.names = names, !.todo = names]]
  <2>1. ~ \E n \in NamesOf[f] : Cardinality(queries[n]) > 1
    <3>1. ASSUME NEW n \in NamesOf[f] PROVE Cardinality(queries[n]) \in {0, 1}
      <4>1. CASE queries[n] = {}
        BY <4>1, FS_EmptySet
      <4>2. CASE One(queries[n])
        BY <4>2, OneIs
      <4> QED
        BY <1>0, <1>1, <4>1, <4>2
    <3> QED
      BY <3>1
  <2> QED
    BY <2>1 DEF ReadUnscheduled
<1>3. /\ call'[t].pc = "insertQueries" /\ call'[t].names = names /\ call'[t].todo = names
      /\ call'[t].feature = f /\ call'[t].tiles = c.tiles
  BY <1>0, <1>2 DEF Call
<1>4. Online' = Online /\ Before(call[t])' = Before(c)
  BY <1>0, <1>3, SameSwitch
<1>5. /\ UsedNames(Online) = UsedNames(Before(c)) \cup NamesOf[f]
      /\ UsedTiles(Online) = UsedTiles(Before(c)) \cup TilesOf[f]
      /\ f \in Online /\ c.tiles \subseteq TilesOf[f]
  BY <1>0, Enabling DEF WarehouseOK, LoopOK
<1>6. \A n \in NamesOf[f] : n \in names <=> n \notin UsedNames(Before(c))
  BY <1>0, OneIs DEF WarehouseOK, QueriesOK, NameUsed, NamesLeft
<1>7. QueriesOK(call[t])'
  BY <1>0, <1>3, <1>4, <1>5, <1>6 DEF WarehouseOK, QueriesOK, NameUsed, NamesLeft
<1>8. JobsOK(call[t])' /\ HistoryOK(call[t])'
  BY <1>0, <1>3, <1>4 DEF WarehouseOK, JobsOK, HistoryOK, TileUsed, AtTile
<1>9. StoreOK(call[t])'
  BY <1>0, <1>3, <1>4, <1>5, <1>6 DEF WarehouseOK, StoreOK, LoopOK
<1>10. LoopOK(call[t])'
  BY <1>0, <1>3, <1>4, <1>5, <1>6 DEF LoopOK
<1> QED
  BY <1>7, <1>8, <1>9, <1>10 DEF WarehouseOK

LEMMA InsertQueryServes ==
    ASSUME NEW t \in Tasks, WarehouseTypeOK, UNCHANGED onlineEnabled, WarehouseOK(call[t]),
           InsertQuery(t) \/ QueriesInserted(t)
    PROVE  WarehouseOK(call[t])'
<1> DEFINE c == call[t]
           f == c.feature
<1>0. /\ call \in [Tasks -> Call] /\ c.pc = "insertQueries" /\ f \in Features
      /\ UNCHANGED <<jobs, backfilled, store>> /\ queries \in [Names -> SUBSET Tasks]
  BY PCs DEF WarehouseTypeOK, CallTypeOK, InsertQuery, QueriesInserted
<1> USE DEF EnablePCs, DisablePCs, RunningPCs, TilePCs
<1>1. /\ UsedNames(Online) = UsedNames(Before(c)) \cup NamesOf[f]
      /\ f \in Online /\ c.tiles \subseteq TilesOf[f]
      /\ c.names \subseteq NamesOf[f] \ UsedNames(Before(c)) /\ c.todo \subseteq c.names
  BY <1>0, Enabling DEF WarehouseOK, LoopOK
<1>2. CASE InsertQuery(t)
  <2>1. PICK n \in c.todo : /\ queries' = [queries EXCEPT ![n] = @ \cup {t}]
                            /\ call' = [call EXCEPT ![t].todo = @ \ {n}]
    BY <1>2 DEF InsertQuery
  <2>2. /\ call'[t].pc = "insertQueries" /\ call'[t].names = c.names /\ call'[t].todo = c.todo \ {n}
        /\ call'[t].feature = f /\ call'[t].tiles = c.tiles
    BY <1>0, <2>1 DEF Call
  <2>3. Online' = Online /\ Before(call[t])' = Before(c)
    BY <1>0, <2>2, SameSwitch
  <2>4. n \in Names /\ queries[n] = {}
    BY <1>0, <1>1 DEF WarehouseOK, QueriesOK, NameUsed, NamesLeft, Call
  <2>5. \A m \in Names : queries'[m] = IF m = n THEN {t} ELSE queries[m]
    BY <1>0, <2>1, <2>4
  <2>6. QueriesOK(call[t])'
    BY <1>0, <1>1, <2>2, <2>3, <2>5 DEF WarehouseOK, QueriesOK, NameUsed, NamesLeft, One
  <2>7. JobsOK(call[t])' /\ HistoryOK(call[t])'
    BY <1>0, <2>2, <2>3 DEF WarehouseOK, JobsOK, HistoryOK, TileUsed, AtTile
  <2>8. StoreOK(call[t])' /\ LoopOK(call[t])'
    BY <1>0, <1>1, <2>2, <2>3 DEF WarehouseOK, StoreOK, LoopOK
  <2> QED
    BY <2>6, <2>7, <2>8 DEF WarehouseOK
<1>3. CASE QueriesInserted(t)
  <2>1. /\ call'[t].pc = "tiles" /\ call'[t].names = c.names /\ c.todo = {}
        /\ call'[t].feature = f /\ call'[t].tiles = c.tiles /\ UNCHANGED queries
    BY <1>0, <1>3 DEF QueriesInserted, Call
  <2>2. Online' = Online /\ Before(call[t])' = Before(c)
    BY <1>0, <2>1, SameSwitch
  <2>3. QueriesOK(call[t])'
    BY <1>0, <2>1, <2>2 DEF WarehouseOK, QueriesOK, NameUsed, NamesLeft
  <2>4. JobsOK(call[t])' /\ HistoryOK(call[t])'
    BY <1>0, <2>1, <2>2 DEF WarehouseOK, JobsOK, HistoryOK, TileUsed, AtTile
  <2>5. StoreOK(call[t])' /\ LoopOK(call[t])'
    BY <1>0, <1>1, <2>1, <2>2 DEF WarehouseOK, StoreOK, LoopOK
  <2> QED
    BY <2>3, <2>4, <2>5 DEF WarehouseOK
<1> QED
  BY <1>2, <1>3

LEMMA NextTileServes ==
    ASSUME NEW t \in Tasks, WarehouseTypeOK, UNCHANGED onlineEnabled, WarehouseOK(call[t]),
           NextTile(t)
    PROVE  WarehouseOK(call[t])'
<1> DEFINE c == call[t]
           f == c.feature
<1>0. /\ call \in [Tasks -> Call] /\ c \in Call /\ c.pc = "tiles" /\ f \in Features
      /\ UNCHANGED <<queries, jobs, backfilled, store>>
  BY PCs DEF WarehouseTypeOK, CallTypeOK, NextTile
<1> USE DEF EnablePCs, DisablePCs, RunningPCs, TilePCs
<1>1. /\ UsedTiles(Online) = UsedTiles(Before(c)) \cup TilesOf[f]
      /\ f \in Online /\ c.tiles \subseteq TilesOf[f]
  BY <1>0, Enabling DEF WarehouseOK, LoopOK
<1>2. PICK k \in c.tiles :
        \/ /\ jobs[k]["ONLINE"] # {}
           /\ call' = [call EXCEPT ![t] = [c EXCEPT !.tiles = @ \ {k}]]
        \/ /\ jobs[k]["ONLINE"] = {}
           /\ call' = [call EXCEPT ![t] = [c EXCEPT !.tiles = @ \ {k}, !.pc = "startJob",
                                                    !.tile = k, !.type = "ONLINE"]]
  BY <1>0, NextTileCall
<1>3. /\ k \in Tiles /\ k \in TilesOf[f]
      /\ \A y \in TileTypes : IF k \in UsedTiles(Before(c)) THEN One(jobs[k][y]) ELSE jobs[k][y] = {}
      /\ k \in UsedTiles(Before(c)) => k \in backfilled
  BY <1>0, <1>1 DEF WarehouseOK, JobsOK, HistoryOK, TileUsed, AtTile, Call
<1>4. /\ call'[t].feature = f /\ call'[t].names = c.names /\ call'[t].tiles = c.tiles \ {k}
      /\ \/ call'[t].pc = "tiles" /\ jobs[k]["ONLINE"] # {}
         \/ /\ call'[t].pc = "startJob" /\ jobs[k]["ONLINE"] = {}
            /\ call'[t].tile = k /\ call'[t].type = "ONLINE"
  <2>1. CASE /\ jobs[k]["ONLINE"] # {}
             /\ call' = [call EXCEPT ![t] = [c EXCEPT !.tiles = @ \ {k}]]
    BY <1>0, <2>1 DEF Call
  <2>2. CASE /\ jobs[k]["ONLINE"] = {}
             /\ call' = [call EXCEPT ![t] = [c EXCEPT !.tiles = @ \ {k}, !.pc = "startJob",
                                                      !.tile = k, !.type = "ONLINE"]]
    BY <1>0, <2>2 DEF Call
  <2> QED
    BY <1>2, <2>1, <2>2
<1>5. Online' = Online /\ Before(call[t])' = Before(c)
  BY <1>0, <1>4, SameSwitch
<1>6. /\ jobs[k]["ONLINE"] # {} => k \in UsedTiles(Before(c))
      /\ jobs[k]["ONLINE"] = {} => k \notin UsedTiles(Before(c)) /\ jobs[k]["OFFLINE"] = {}
  BY <1>3, OneIs DEF TileTypes
<1>7. QueriesOK(call[t])' /\ StoreOK(call[t])'
  BY <1>0, <1>4, <1>5 DEF WarehouseOK, QueriesOK, StoreOK, NameUsed, NamesLeft
<1>8. JobsOK(call[t])'
  BY <1>0, <1>1, <1>3, <1>4, <1>5, <1>6 DEF WarehouseOK, JobsOK, TileUsed, AtTile
<1>9. HistoryOK(call[t])'
  BY <1>0, <1>1, <1>3, <1>4, <1>5, <1>6 DEF WarehouseOK, HistoryOK, TileUsed, AtTile
<1>10. LoopOK(call[t])'
  BY <1>0, <1>1, <1>3, <1>4, <1>5, <1>6 DEF LoopOK
<1> QED
  BY <1>7, <1>8, <1>9, <1>10 DEF WarehouseOK

LEMMA StartJobServes ==
    ASSUME NEW t \in Tasks, WarehouseTypeOK, UNCHANGED onlineEnabled, WarehouseOK(call[t]),
           StartJob(t)
    PROVE  WarehouseOK(call[t])'
<1> DEFINE c == call[t]
           f == c.feature
<1>0. /\ call \in [Tasks -> Call] /\ c \in Call /\ c.pc = "startJob" /\ f \in Features
      /\ UNCHANGED <<queries, jobs, backfilled, store>>
  BY PCs DEF WarehouseTypeOK, CallTypeOK, StartJob
<1> USE DEF EnablePCs, DisablePCs, RunningPCs, TilePCs
<1>1. jobs[c.tile][c.type] = {}
  BY <1>0 DEF WarehouseOK, LoopOK, Call, TileTypes
<1>2. call' = [call EXCEPT ![t] = [c EXCEPT !.pc = "createJob"]]
  BY <1>1 DEF StartJob
<1>3. /\ call'[t].pc = "createJob" /\ call'[t].feature = f /\ call'[t].names = c.names
      /\ call'[t].tiles = c.tiles /\ call'[t].tile = c.tile /\ call'[t].type = c.type
  BY <1>0, <1>2 DEF Call
<1>4. Online' = Online /\ Before(call[t])' = Before(c)
  BY <1>0, <1>3, SameSwitch
<1>5. QueriesOK(call[t])' /\ StoreOK(call[t])'
  BY <1>0, <1>3, <1>4 DEF WarehouseOK, QueriesOK, StoreOK, NameUsed, NamesLeft
<1>6. JobsOK(call[t])' /\ HistoryOK(call[t])'
  BY <1>0, <1>3, <1>4 DEF WarehouseOK, JobsOK, HistoryOK, TileUsed, AtTile
<1>7. LoopOK(call[t])'
  BY <1>0, <1>3, <1>4 DEF WarehouseOK, LoopOK
<1> QED
  BY <1>5, <1>6, <1>7 DEF WarehouseOK

LEMMA CreateJobServes ==
    ASSUME NEW t \in Tasks, WarehouseTypeOK, UNCHANGED onlineEnabled, WarehouseOK(call[t]),
           CreateJob(t)
    PROVE  WarehouseOK(call[t])'
<1> DEFINE c == call[t]
           f == c.feature
           k == c.tile
           y == c.type
<1>0. /\ call \in [Tasks -> Call] /\ c \in Call /\ c.pc = "createJob" /\ f \in Features
      /\ UNCHANGED <<queries, backfilled, store>> /\ k \in Tiles /\ y \in TileTypes
      /\ jobs \in [Tiles -> [TileTypes -> SUBSET Tasks]]
  BY PCs DEF WarehouseTypeOK, CallTypeOK, CreateJob, TilePCs, Call
<1> USE DEF EnablePCs, DisablePCs, RunningPCs, TilePCs
<1>1. /\ IF y = "ONLINE" THEN jobs[k]["ONLINE"] = {} ELSE One(jobs[k]["ONLINE"])
      /\ jobs[k]["OFFLINE"] = {} /\ jobs[k][y] = {}
      /\ f \in Online /\ c.tiles \subseteq TilesOf[f] /\ k \in TilesOf[f] \ c.tiles
  BY <1>0 DEF WarehouseOK, LoopOK, TileTypes
<1>2. /\ jobs' = [jobs EXCEPT ![k][y] = @ \cup {t}]
      /\ call' = [call EXCEPT ![t] = AfterJob(c)]
  BY <1>1 DEF CreateJob
<1>3. /\ call'[t].feature = f /\ call'[t].names = c.names
      /\ call'[t].tiles = c.tiles /\ call'[t].tile = k
      /\ y = "ONLINE" => call'[t].pc = "startJob" /\ call'[t].type = "OFFLINE"
      /\ y # "ONLINE" => call'[t].pc = "backfill"
  BY <1>0, <1>2 DEF Call, AfterJob
<1>4. Online' = Online /\ Before(call[t])' = Before(c)
  BY <1>0, <1>3, SameSwitch
<1>5. /\ \A m \in Tiles \ {k} : jobs'[m] = jobs[m]
      /\ \A z \in TileTypes : jobs'[k][z] = IF z = y THEN {t} ELSE jobs[k][z]
  BY <1>0, <1>1, <1>2
<1>6. QueriesOK(call[t])' /\ StoreOK(call[t])'
  BY <1>0, <1>3, <1>4 DEF WarehouseOK, QueriesOK, StoreOK, NameUsed, NamesLeft
<1>7. JobsOK(call[t])' /\ HistoryOK(call[t])'
  BY <1>0, <1>3, <1>4, <1>5 DEF WarehouseOK, JobsOK, HistoryOK, TileUsed, AtTile
<1>8. LoopOK(call[t])'
  <2>1. One({t})
    BY DEF One
  <2>2. y = "ONLINE" => One(jobs'[k]["ONLINE"]) /\ jobs'[k]["OFFLINE"] = {}
    BY <1>1, <1>5, <2>1 DEF TileTypes
  <2>3. y # "ONLINE" => One(jobs'[k]["ONLINE"]) /\ One(jobs'[k]["OFFLINE"])
    BY <1>0, <1>1, <1>5, <2>1 DEF TileTypes
  <2> QED
    BY <1>1, <1>3, <1>4, <2>2, <2>3 DEF LoopOK
<1> QED
  BY <1>6, <1>7, <1>8 DEF WarehouseOK

LEMMA BackfillServes ==
    ASSUME NEW t \in Tasks, WarehouseTypeOK, UNCHANGED onlineEnabled, WarehouseOK(call[t]),
           GenerateHistoricalTiles(t)
    PROVE  WarehouseOK(call[t])'
<1> DEFINE c == call[t]
           f == c.feature
           k == c.tile
<1>0. /\ call \in [Tasks -> Call] /\ c \in Call /\ c.pc = "backfill" /\ f \in Features
      /\ UNCHANGED <<queries, jobs, store>> /\ k \in Tiles
      /\ backfilled' = backfilled \cup {k}
  BY PCs DEF WarehouseTypeOK, CallTypeOK, GenerateHistoricalTiles, TilePCs
<1> USE DEF EnablePCs, DisablePCs, RunningPCs, TilePCs
<1>1. /\ One(jobs[k]["ONLINE"]) /\ One(jobs[k]["OFFLINE"])
      /\ f \in Online /\ c.tiles \subseteq TilesOf[f] /\ k \in TilesOf[f] \ c.tiles
  BY <1>0 DEF WarehouseOK, LoopOK
<1>2. /\ call'[t].pc = "tiles" /\ call'[t].feature = f /\ call'[t].names = c.names
      /\ call'[t].tiles = c.tiles
  BY <1>0 DEF Call, GenerateHistoricalTiles
<1>3. Online' = Online /\ Before(call[t])' = Before(c)
  BY <1>0, <1>2, SameSwitch
<1>4. k \in UsedTiles(Online)
  BY <1>1 DEF UsedTiles
<1>5. QueriesOK(call[t])' /\ StoreOK(call[t])'
  BY <1>0, <1>2, <1>3 DEF WarehouseOK, QueriesOK, StoreOK, NameUsed, NamesLeft
<1>6. JobsOK(call[t])' /\ HistoryOK(call[t])'
  BY <1>0, <1>1, <1>2, <1>3, <1>4 DEF WarehouseOK, JobsOK, HistoryOK, TileUsed, AtTile, TileTypes
<1>7. LoopOK(call[t])'
  BY <1>1, <1>2, <1>3 DEF LoopOK
<1> QED
  BY <1>5, <1>6, <1>7 DEF WarehouseOK

LEMMA TilesScheduledServes ==
    ASSUME NEW t \in Tasks, WarehouseTypeOK, UNCHANGED onlineEnabled, WarehouseOK(call[t]),
           TilesScheduled(t)
    PROVE  WarehouseOK(call[t])'
<1> DEFINE c == call[t]
<1>0. /\ call \in [Tasks -> Call] /\ c \in Call /\ c.pc = "tiles" /\ c.tiles = {}
      /\ UNCHANGED <<queries, jobs, backfilled, store>>
  BY DEF WarehouseTypeOK, TilesScheduled
<1> USE DEF EnablePCs, DisablePCs, RunningPCs, TilePCs
<1>1. /\ call'[t].pc = "populate" /\ call'[t].feature = c.feature /\ call'[t].names = c.names
      /\ call'[t].tiles = c.tiles
  BY <1>0 DEF Call, TilesScheduled
<1>2. Online' = Online /\ Before(call[t])' = Before(c)
  BY <1>0, <1>1, SameSwitch
<1>3. QueriesOK(call[t])' /\ StoreOK(call[t])'
  BY <1>0, <1>1, <1>2 DEF WarehouseOK, QueriesOK, StoreOK, NameUsed, NamesLeft
<1>4. JobsOK(call[t])' /\ HistoryOK(call[t])'
  BY <1>0, <1>1, <1>2 DEF WarehouseOK, JobsOK, HistoryOK, TileUsed, AtTile
<1>5. LoopOK(call[t])'
  BY <1>0, <1>1, <1>2 DEF WarehouseOK, LoopOK
<1> QED
  BY <1>3, <1>4, <1>5 DEF WarehouseOK

LEMMA PopulateServes ==
    ASSUME NEW t \in Tasks, WarehouseTypeOK, UNCHANGED onlineEnabled, WarehouseOK(call[t]),
           PopulateFeatureStore(t)
    PROVE  WarehouseOK(call[t])'
<1> DEFINE c == call[t]
<1>0. /\ call \in [Tasks -> Call] /\ c \in Call /\ c.pc = "populate"
      /\ UNCHANGED <<queries, jobs, backfilled>>
  BY DEF WarehouseTypeOK, PopulateFeatureStore
<1> USE DEF EnablePCs, DisablePCs, RunningPCs, TilePCs
<1>1. PICK n \in c.names : /\ store' = IF queries[n] # {} THEN store \cup {n} ELSE store
                           /\ call' = [call EXCEPT ![t].names = @ \ {n}]
  BY DEF PopulateFeatureStore
<1>2. /\ call'[t].pc = "populate" /\ call'[t].feature = c.feature /\ call'[t].names = c.names \ {n}
      /\ call'[t].tiles = c.tiles
  BY <1>0, <1>1 DEF Call
<1>3. Online' = Online /\ Before(call[t])' = Before(c)
  BY <1>0, <1>2, SameSwitch
<1>4. QueriesOK(call[t])'
  BY <1>0, <1>2, <1>3 DEF WarehouseOK, QueriesOK, NameUsed, NamesLeft
<1>5. n \in UsedNames(Online) => queries[n] # {}
  <2>1. n \in Names
    BY <1>0 DEF Call
  <2> QED
    BY <1>0, <2>1, OneIs DEF WarehouseOK, QueriesOK, NameUsed, NamesLeft
<1>6. StoreOK(call[t])'
  BY <1>0, <1>1, <1>2, <1>3, <1>5 DEF WarehouseOK, StoreOK
<1>7. JobsOK(call[t])' /\ HistoryOK(call[t])'
  BY <1>0, <1>2, <1>3 DEF WarehouseOK, JobsOK, HistoryOK, TileUsed, AtTile
<1>8. LoopOK(call[t])'
  BY <1>0, <1>2, <1>3 DEF WarehouseOK, LoopOK
<1> QED
  BY <1>4, <1>6, <1>7, <1>8 DEF WarehouseOK

(* Either kind of call returns with nothing left to do.                    *)
LEMMA ReturnServes ==
    ASSUME NEW t \in Tasks, WarehouseTypeOK, UNCHANGED onlineEnabled, WarehouseOK(call[t]),
           EnableReturns(t) \/ DisableReturns(t)
    PROVE  WarehouseOK(call[t])'
<1> DEFINE c == call[t]
<1>0. /\ call \in [Tasks -> Call] /\ c.pc \in {"populate", "stopTiles"}
      /\ UNCHANGED <<queries, jobs, backfilled, store>>
      /\ call' = [call EXCEPT ![t] = Ended("returned")]
      /\ c.names = {} /\ c.tiles = {}
  BY DEF WarehouseTypeOK, EnableReturns, DisableReturns, WarehouseOK, LoopOK, EnablePCs, DisablePCs
<1> USE DEF EnablePCs, DisablePCs, RunningPCs, TilePCs
<1>1. call'[t].pc = "returned" /\ call'[t].names = {} /\ call'[t].tiles = {}
  BY <1>0 DEF Ended, IdleCall
<1>2. Online' = Online
  BY DEF Online
<1>3. QueriesOK(call[t])' /\ StoreOK(call[t])'
  BY <1>0, <1>1, <1>2 DEF WarehouseOK, QueriesOK, StoreOK, NameUsed, NamesLeft
<1>4. JobsOK(call[t])' /\ HistoryOK(call[t])'
  BY <1>0, <1>1, <1>2 DEF WarehouseOK, JobsOK, HistoryOK, TileUsed, AtTile
<1>5. LoopOK(call[t])'
  BY <1>1 DEF LoopOK
<1> QED
  BY <1>3, <1>4, <1>5 DEF WarehouseOK

-----------------------------------------------------------------------------
(* The statements of online_disable *)

LEMMA ReadNamesInUseServes ==
    ASSUME NEW t \in Tasks, WarehouseTypeOK, UNCHANGED onlineEnabled, WarehouseOK(call[t]),
           ReadNamesInUse(t)
    PROVE  WarehouseOK(call[t])'
<1> DEFINE c == call[t]
           f == c.feature
           names == NamesOf[f] \ NamesInUse(f)
<1>0. /\ call \in [Tasks -> Call] /\ c \in Call /\ c.pc = "disable" /\ f \in Features
      /\ UNCHANGED <<queries, jobs, backfilled, store>>
      /\ call' = [call EXCEPT ![t].pc = "removeQueries", ![t].todo = names]
  BY PCs DEF WarehouseTypeOK, CallTypeOK, ReadNamesInUse
<1> USE DEF EnablePCs, DisablePCs, RunningPCs, TilePCs
<1>1. names = NamesOf[f] \ UsedNames(Online)
  BY <1>0, NamesInUseIs
<1> HIDE DEF names
<1>2. /\ call'[t].pc = "removeQueries" /\ call'[t].feature = f /\ call'[t].names = c.names
      /\ call'[t].tiles = c.tiles /\ call'[t].todo = names
  BY <1>0 DEF Call
<1>3. Online' = Online /\ Before(call[t])' = Before(c)
  BY <1>0, <1>2, SameSwitch
<1>4. UsedNames(Before(c)) = UsedNames(Online) \cup NamesOf[f]
  BY <1>0, Disabling
<1>5. QueriesOK(call[t])'
  BY <1>0, <1>1, <1>2, <1>3, <1>4 DEF WarehouseOK, QueriesOK, NameUsed, NamesLeft
<1>6. StoreOK(call[t])'
  BY <1>0, <1>2, <1>3 DEF WarehouseOK, StoreOK
<1>7. JobsOK(call[t])' /\ HistoryOK(call[t])'
  BY <1>0, <1>2, <1>3 DEF WarehouseOK, JobsOK, HistoryOK, TileUsed, AtTile
<1>8. LoopOK(call[t])'
  BY <1>0, <1>1, <1>2, <1>3 DEF WarehouseOK, LoopOK
<1> QED
  BY <1>5, <1>6, <1>7, <1>8 DEF WarehouseOK

LEMMA FindQueryServes ==
    ASSUME NEW t \in Tasks, WarehouseTypeOK, UNCHANGED onlineEnabled, WarehouseOK(call[t]),
           FindQuery(t)
    PROVE  WarehouseOK(call[t])'
<1> DEFINE c == call[t]
           f == c.feature
<1>0. /\ call \in [Tasks -> Call] /\ c \in Call /\ c.pc = "removeQueries" /\ f \in Features
      /\ UNCHANGED <<queries, jobs, backfilled, store>>
  BY PCs DEF WarehouseTypeOK, CallTypeOK, FindQuery
<1> USE DEF EnablePCs, DisablePCs, RunningPCs, TilePCs
<1>1. /\ UsedNames(Before(c)) = UsedNames(Online) \cup NamesOf[f]
      /\ c.todo \subseteq NamesOf[f] \ UsedNames(Online)
  BY <1>0, Disabling DEF WarehouseOK, LoopOK
<1>2. PICK n \in c.todo :
        \/ /\ queries[n] = {}
           /\ call' = [call EXCEPT ![t] = [c EXCEPT !.todo = @ \ {n}]]
        \/ \E d \in queries[n] :
             call' = [call EXCEPT ![t] = [c EXCEPT !.pc = "deleteQuery", !.todo = @ \ {n},
                                                   !.name = n, !.doc = d]]
  BY <1>0, FindQueryCall
<1>3. n \in Names /\ One(queries[n])
  BY <1>0, <1>1 DEF WarehouseOK, QueriesOK, NameUsed, NamesLeft, Call
<1>4. PICK d \in queries[n] :
        call' = [call EXCEPT ![t] = [c EXCEPT !.pc = "deleteQuery", !.todo = @ \ {n},
                                              !.name = n, !.doc = d]]
  BY <1>2, <1>3, OneIs
<1>5. /\ call'[t].pc = "deleteQuery" /\ call'[t].feature = f /\ call'[t].names = c.names
      /\ call'[t].tiles = c.tiles /\ call'[t].todo = c.todo \ {n}
      /\ call'[t].name = n /\ call'[t].doc = d
  BY <1>0, <1>4 DEF Call
<1>6. queries[n] = {d}
  BY <1>3, <1>4 DEF One
<1>7. Online' = Online /\ Before(call[t])' = Before(c)
  BY <1>0, <1>5, SameSwitch
<1>8. QueriesOK(call[t])'
  BY <1>0, <1>5, <1>7 DEF WarehouseOK, QueriesOK, NameUsed, NamesLeft
<1>9. StoreOK(call[t])'
  BY <1>0, <1>5, <1>7 DEF WarehouseOK, StoreOK
<1>10. JobsOK(call[t])' /\ HistoryOK(call[t])'
  BY <1>0, <1>5, <1>7 DEF WarehouseOK, JobsOK, HistoryOK, TileUsed, AtTile
<1>11. LoopOK(call[t])'
  BY <1>0, <1>1, <1>5, <1>6, <1>7 DEF WarehouseOK, LoopOK
<1> QED
  BY <1>8, <1>9, <1>10, <1>11 DEF WarehouseOK

LEMMA DeleteQueryServes ==
    ASSUME NEW t \in Tasks, WarehouseTypeOK, UNCHANGED onlineEnabled, WarehouseOK(call[t]),
           DeleteQuery(t) \/ QueriesRemoved(t)
    PROVE  WarehouseOK(call[t])'
<1> DEFINE c == call[t]
           f == c.feature
<1>0. /\ call \in [Tasks -> Call] /\ c \in Call /\ c.pc \in {"deleteQuery", "removeQueries"}
      /\ UNCHANGED <<jobs, backfilled, store>> /\ queries \in [Names -> SUBSET Tasks]
  BY DEF WarehouseTypeOK, DeleteQuery, QueriesRemoved
<1> USE DEF EnablePCs, DisablePCs, RunningPCs, TilePCs
<1>1. CASE DeleteQuery(t)
  <2>1. /\ c.pc = "deleteQuery" /\ queries' = [queries EXCEPT ![c.name] = @ \ {c.doc}]
        /\ call' = [call EXCEPT ![t] = [c EXCEPT !.pc = "removeQueries", !.name = None, !.doc = 0]]
    BY <1>1 DEF DeleteQuery
  <2>2. /\ call'[t].pc = "removeQueries" /\ call'[t].feature = f /\ call'[t].names = c.names
        /\ call'[t].tiles = c.tiles /\ call'[t].todo = c.todo
    BY <1>0, <2>1 DEF Call
  <2>3. /\ c.name \in NamesOf[f] \ (UsedNames(Online) \cup c.todo) /\ queries[c.name] = {c.doc}
    BY <2>1 DEF WarehouseOK, LoopOK
  <2>4. \A n \in Names : queries'[n] = IF n = c.name THEN {} ELSE queries[n]
    BY <1>0, <2>1, <2>3
  <2>5. Online' = Online /\ Before(call[t])' = Before(c)
    BY <1>0, <2>2, SameSwitch
  <2>6. QueriesOK(call[t])'
    BY <2>1, <2>2, <2>3, <2>4, <2>5 DEF WarehouseOK, QueriesOK, NameUsed, NamesLeft
  <2>7. StoreOK(call[t])' /\ LoopOK(call[t])'
    BY <1>0, <2>1, <2>2, <2>5 DEF WarehouseOK, StoreOK, LoopOK
  <2>8. JobsOK(call[t])' /\ HistoryOK(call[t])'
    BY <1>0, <2>1, <2>2, <2>5 DEF WarehouseOK, JobsOK, HistoryOK, TileUsed, AtTile
  <2> QED
    BY <2>6, <2>7, <2>8 DEF WarehouseOK
<1>2. CASE QueriesRemoved(t)
  <2>1. /\ c.pc = "removeQueries" /\ c.todo = {} /\ UNCHANGED queries
        /\ call'[t].pc = "stopTiles" /\ call'[t].feature = f /\ call'[t].names = c.names
        /\ call'[t].tiles = c.tiles
    BY <1>0, <1>2 DEF QueriesRemoved, Call
  <2>2. Online' = Online /\ Before(call[t])' = Before(c)
    BY <1>0, <2>1, SameSwitch
  <2>3. QueriesOK(call[t])'
    BY <2>1, <2>2 DEF WarehouseOK, QueriesOK, NameUsed, NamesLeft
  <2>4. StoreOK(call[t])' /\ LoopOK(call[t])'
    BY <1>0, <2>1, <2>2 DEF WarehouseOK, StoreOK, LoopOK
  <2>5. JobsOK(call[t])' /\ HistoryOK(call[t])'
    BY <1>0, <2>1, <2>2 DEF WarehouseOK, JobsOK, HistoryOK, TileUsed, AtTile
  <2> QED
    BY <2>3, <2>4, <2>5 DEF WarehouseOK
<1> QED
  BY <1>1, <1>2

LEMMA RemoveTileJobsServes ==
    ASSUME NEW t \in Tasks, WarehouseTypeOK, UNCHANGED onlineEnabled, WarehouseOK(call[t]),
           RemoveTileJobs(t)
    PROVE  WarehouseOK(call[t])'
<1> DEFINE c == call[t]
           f == c.feature
<1>0. /\ call \in [Tasks -> Call] /\ c \in Call /\ c.pc = "stopTiles" /\ f \in Features
      /\ UNCHANGED <<queries, jobs, backfilled, store>>
  BY PCs DEF WarehouseTypeOK, CallTypeOK, RemoveTileJobs
<1> USE DEF EnablePCs, DisablePCs, RunningPCs, TilePCs
<1>1. /\ UsedTiles(Before(c)) = UsedTiles(Online) \cup TilesOf[f] /\ c.tiles \subseteq TilesOf[f]
  BY <1>0, Disabling DEF WarehouseOK, LoopOK
<1>2. PICK k \in c.tiles :
        \/ /\ k \in UsedTiles(Online)
           /\ call' = [call EXCEPT ![t] = [c EXCEPT !.tiles = @ \ {k}]]
        \/ /\ k \notin UsedTiles(Online)
           /\ call' = [call EXCEPT ![t] = [c EXCEPT !.tiles = @ \ {k}, !.pc = "stopJob",
                                                    !.tile = k, !.type = "ONLINE"]]
  BY <1>0, RemoveTileJobsCall, TileInUseIs
<1>3. /\ k \in Tiles /\ k \in TilesOf[f] /\ k \in backfilled
      /\ \A y \in TileTypes : One(jobs[k][y])
  BY <1>0, <1>1 DEF WarehouseOK, JobsOK, HistoryOK, TileUsed, AtTile, Call
<1>4. /\ call'[t].feature = f /\ call'[t].names = c.names /\ call'[t].tiles = c.tiles \ {k}
      /\ \/ call'[t].pc = "stopTiles" /\ k \in UsedTiles(Online)
         \/ /\ call'[t].pc = "stopJob" /\ k \notin UsedTiles(Online)
            /\ call'[t].tile = k /\ call'[t].type = "ONLINE"
  <2>1. CASE /\ k \in UsedTiles(Online)
             /\ call' = [call EXCEPT ![t] = [c EXCEPT !.tiles = @ \ {k}]]
    BY <1>0, <2>1 DEF Call
  <2>2. CASE /\ k \notin UsedTiles(Online)
             /\ call' = [call EXCEPT ![t] = [c EXCEPT !.tiles = @ \ {k}, !.pc = "stopJob",
                                                      !.tile = k, !.type = "ONLINE"]]
    BY <1>0, <2>2 DEF Call
  <2> QED
    BY <1>2, <2>1, <2>2
<1>5. Online' = Online /\ Before(call[t])' = Before(c)
  BY <1>0, <1>4, SameSwitch
<1>6. QueriesOK(call[t])' /\ StoreOK(call[t])'
  BY <1>0, <1>4, <1>5 DEF WarehouseOK, QueriesOK, StoreOK, NameUsed, NamesLeft
<1>7. JobsOK(call[t])'
  BY <1>0, <1>1, <1>3, <1>4, <1>5 DEF WarehouseOK, JobsOK, TileUsed, AtTile
<1>8. HistoryOK(call[t])'
  BY <1>0, <1>1, <1>3, <1>4, <1>5 DEF WarehouseOK, HistoryOK, TileUsed, AtTile
<1>9. LoopOK(call[t])'
  BY <1>0, <1>1, <1>3, <1>4, <1>5 DEF WarehouseOK, LoopOK, TileTypes
<1> QED
  BY <1>6, <1>7, <1>8, <1>9 DEF WarehouseOK

LEMMA StopJobServes ==
    ASSUME NEW t \in Tasks, WarehouseTypeOK, UNCHANGED onlineEnabled, WarehouseOK(call[t]),
           StopJob(t)
    PROVE  WarehouseOK(call[t])'
<1> DEFINE c == call[t]
           k == c.tile
<1>0. /\ call \in [Tasks -> Call] /\ c \in Call /\ c.pc = "stopJob"
      /\ UNCHANGED <<queries, jobs, backfilled, store>>
  BY SMTT(30) DEF WarehouseTypeOK, StopJob
<1> USE DEF EnablePCs, DisablePCs, RunningPCs, TilePCs
<1>1. One(jobs[k][c.type])
  BY <1>0, SMTT(30) DEF WarehouseOK, LoopOK, Call, TileTypes
<1>2. PICK d \in jobs[k][c.type] : call' = [call EXCEPT ![t] = [c EXCEPT !.pc = "deleteJob", !.doc = d]]
  BY <1>0, <1>1, OneIs, StopJobCall
<1>3. /\ call'[t].pc = "deleteJob" /\ call'[t].feature = c.feature /\ call'[t].names = c.names
      /\ call'[t].tiles = c.tiles /\ call'[t].tile = k /\ call'[t].type = c.type
      /\ call'[t].doc = d
  BY <1>0, <1>2 DEF Call
<1>4. jobs[k][c.type] = {d}
  BY <1>1, <1>2 DEF One
<1>5. Online' = Online /\ Before(call[t])' = Before(c)
  BY <1>0, <1>3, SameSwitch
<1>6. QueriesOK(call[t])' /\ StoreOK(call[t])'
  BY <1>0, <1>3, <1>5 DEF WarehouseOK, QueriesOK, StoreOK, NameUsed, NamesLeft
<1>7. JobsOK(call[t])' /\ HistoryOK(call[t])'
  BY <1>0, <1>3, <1>5 DEF WarehouseOK, JobsOK, HistoryOK, TileUsed, AtTile
<1>8. LoopOK(call[t])'
  BY <1>0, <1>3, <1>4, <1>5 DEF WarehouseOK, LoopOK
<1> QED
  BY <1>6, <1>7, <1>8 DEF WarehouseOK

LEMMA DeleteJobServes ==
    ASSUME NEW t \in Tasks, WarehouseTypeOK, UNCHANGED onlineEnabled, WarehouseOK(call[t]),
           DeleteJob(t)
    PROVE  WarehouseOK(call[t])'
<1> DEFINE c == call[t]
           f == c.feature
           k == c.tile
           y == c.type
<1>0. /\ call \in [Tasks -> Call] /\ c \in Call /\ c.pc = "deleteJob" /\ f \in Features
      /\ UNCHANGED <<queries, backfilled, store>> /\ k \in Tiles /\ y \in TileTypes
      /\ jobs \in [Tiles -> [TileTypes -> SUBSET Tasks]]
  BY PCs DEF WarehouseTypeOK, CallTypeOK, DeleteJob, TilePCs, Call
<1> USE DEF EnablePCs, DisablePCs, RunningPCs, TilePCs
<1>1. /\ k \notin UsedTiles(Online) /\ jobs[k][y] = {c.doc}
      /\ IF y = "ONLINE" THEN One(jobs[k]["ONLINE"]) ELSE jobs[k]["ONLINE"] = {}
      /\ One(jobs[k]["OFFLINE"])
      /\ c.tiles \subseteq TilesOf[f] /\ k \in TilesOf[f] \ c.tiles
  BY <1>0 DEF WarehouseOK, LoopOK
<1>2. /\ jobs' = [jobs EXCEPT ![k][y] = @ \ {c.doc}]
      /\ call' = [call EXCEPT ![t] = AfterStop(c)]
  BY <1>1 DEF DeleteJob
<1>3. /\ call'[t].feature = f /\ call'[t].names = c.names /\ call'[t].tiles = c.tiles
      /\ y = "ONLINE" => /\ call'[t].pc = "stopJob" /\ call'[t].type = "OFFLINE"
                         /\ call'[t].tile = k
      /\ y # "ONLINE" => call'[t].pc = "stopTiles"
  BY <1>0, <1>2 DEF Call, AfterStop
<1>4. Online' = Online /\ Before(call[t])' = Before(c)
  BY <1>0, <1>3, SameSwitch
<1>5. /\ \A m \in Tiles \ {k} : jobs'[m] = jobs[m]
      /\ \A z \in TileTypes : jobs'[k][z] = IF z = y THEN {} ELSE jobs[k][z]
  BY <1>0, <1>1, <1>2
<1>6. /\ y = "ONLINE" => jobs'[k]["ONLINE"] = {} /\ One(jobs'[k]["OFFLINE"])
      /\ y # "ONLINE" => jobs'[k]["ONLINE"] = {} /\ jobs'[k]["OFFLINE"] = {}
  BY <1>0, <1>1, <1>5 DEF TileTypes
<1>7. QueriesOK(call[t])' /\ StoreOK(call[t])'
  BY <1>0, <1>3, <1>4 DEF WarehouseOK, QueriesOK, StoreOK, NameUsed, NamesLeft
<1>8. JobsOK(call[t])'
  <2>1. ASSUME NEW m \in Tiles, m # k, ~AtTile(call[t], m)'
        PROVE  \A z \in TileTypes : IF TileUsed(call[t], m)' THEN One(jobs'[m][z]) ELSE jobs'[m][z] = {}
    BY <1>0, <1>3, <1>4, <1>5, <2>1 DEF WarehouseOK, JobsOK, TileUsed, AtTile
  <2>2. ASSUME NEW m \in Tiles, m = k, ~AtTile(call[t], m)'
        PROVE  ~TileUsed(call[t], m)' /\ \A z \in TileTypes : jobs'[m][z] = {}
    BY <1>0, <1>1, <1>3, <1>4, <1>6, <2>2 DEF TileUsed, AtTile, TileTypes
  <2> QED
    BY <2>1, <2>2 DEF JobsOK
<1>9. HistoryOK(call[t])'
  BY <1>0, <1>1, <1>3, <1>4 DEF WarehouseOK, HistoryOK, TileUsed, AtTile
<1>10. LoopOK(call[t])'
  BY <1>0, <1>1, <1>3, <1>4, <1>6 DEF WarehouseOK, LoopOK
<1> QED
  BY <1>7, <1>8, <1>9, <1>10 DEF WarehouseOK

LEMMA WarehouseServes ==
    ASSUME NEW t \in Tasks, WarehouseTypeOK, UNCHANGED onlineEnabled, WarehouseOK(call[t]),
           WarehouseStep(t)
    PROVE  WarehouseOK(call[t])'
BY ReadUnscheduledServes, InsertQueryServes, NextTileServes, StartJobServes, CreateJobServes,
   BackfillServes, TilesScheduledServes, PopulateServes, ReturnServes, ReadNamesInUseServes,
   FindQueryServes, DeleteQueryServes, RemoveTileJobsServes, StopJobServes, DeleteJobServes
   DEF WarehouseStep, EnableStep, DisableStep

-----------------------------------------------------------------------------
(* The lists recorded in the features *)

(* What the task at work has recorded of a list in a feature.              *)
Recorded(t, f, l) ==
    l \in deployedListIds[f] <=> /\ f \in FeaturesIn[l]
                                 /\ IF SwitchedBy(t, f, l) THEN task[t].target
                                    ELSE l \in PromisedLists

LEMMA RecordsAtWork ==
    ASSUME NEW t \in Tasks, TypeOK, Active = {t}
    PROVE  (\A f \in Features : deployedListIds[f] = RecordedLists(f))
             <=> \A f \in Features, l \in Lists : Recorded(t, f, l)
<1>1. deployedListIds \in [Features -> SUBSET Lists]
  BY DEF TypeOK, CatalogTypeOK
<1> QED
  BY <1>1 DEF RecordedLists, Recorded

LEMMA RecordsAtWorkNext ==
    ASSUME NEW t \in Tasks, TypeOK', Active' = {t}
    PROVE  (\A f \in Features : deployedListIds'[f] = RecordedLists(f)')
             <=> \A f \in Features, l \in Lists : Recorded(t, f, l)'
<1>1. deployedListIds' \in [Features -> SUBSET Lists]
  BY DEF TypeOK, CatalogTypeOK
<1> QED
  BY <1>1 DEF RecordedLists, Recorded

LEMMA RecordsQuietNext ==
    ASSUME TypeOK', Active' = {},
           \A f \in Features, l \in Lists :
              l \in deployedListIds'[f] <=> f \in FeaturesIn[l] /\ l \in PromisedLists'
    PROVE  \A f \in Features : deployedListIds'[f] = RecordedLists(f)'
<1>1. deployedListIds' \in [Features -> SUBSET Lists]
  BY DEF TypeOK, CatalogTypeOK
<1> QED
  BY <1>1 DEF RecordedLists

(* A step that records nothing and does not move the loop.                 *)
LEMMA RecordsKept ==
    ASSUME NEW t \in Tasks, TypeOK, TypeOK', OneAtATime, Deploys, Deploys', FeaturesOK,
           ActiveStep(t), task'[t].pc \notin EndPCs,
           UNCHANGED <<deployedListIds, overwritten>>,
           task'[t].broken = task[t].broken, GoesWell(t)',
           \A f \in Features, l \in Lists :
              f \in FeaturesIn[l] => (SwitchedBy(t, f, l)' <=> SwitchedBy(t, f, l)),
           task'[t].pc \in SwitchingPCs => task'[t].target = task[t].target
    PROVE  FeaturesOK'
<1>1. Active = {t} /\ Active' = {t}
  BY AtWork
<1>2. PromisedLists' = PromisedLists
  BY SeenKept DEF PromisedLists
<1>3. \A f \in Features, l \in Lists : Recorded(t, f, l)
  BY <1>1, RecordsAtWork DEF FeaturesOK
<1>4. \A f \in Features, l \in Lists : Recorded(t, f, l)'
  BY <1>2, <1>3 DEF Recorded, SwitchedBy, Switched
<1>5. Unbroken'
  BY OneTaskMoves, TaskPCs DEF FeaturesOK, Unbroken, EndPCs
<1> QED
  BY <1>1, <1>4, <1>5, RecordsAtWorkNext DEF FeaturesOK

(* The steps before the loop over the features.                            *)
LEMMA BeforeLoopWell ==
    ASSUME NEW t \in Tasks, TypeOK, TypeOK', OneAtATime, Deploys, Deploys', FeaturesOK,
           task'[t].pc \notin EndPCs,
           WriteDeployment(t) \/ CountEnabled(t) \/ ReadList(t) \/ Validate(t)
    PROVE  FeaturesOK'
<1>0. task \in [Tasks -> Task] /\ task[t] \in Task
  BY DEF TypeOK
<1>1. ActiveStep(t)
  BY DEF ActiveStep, DeployStep
<1>2. DeploymentOK(t)
  BY <1>1, AtWork
<1>3. UNCHANGED <<deployedListIds, overwritten>>
  BY DEF WriteDeployment, CountEnabled, ReadList, Validate, catalogVars
<1>4. task[t].pc \in {"start", "count", "readList", "validate"}
  BY DEF WriteDeployment, CountEnabled, ReadList, Validate
<1>5. /\ task'[t].broken = task[t].broken /\ SameRequest(t)
      /\ task'[t].pc \in {"count", "readList", "validate", "writeList", "restore"}
      /\ task'[t].pc = "restore" => WriteDeployment(t) \/ Validate(t)
  <2>1. CASE WriteDeployment(t)
    BY <1>0, <2>1 DEF WriteDeployment, Goto, Task, SameRequest
  <2>2. CASE CountEnabled(t)
    BY <1>0, <2>2 DEF CountEnabled, Task, SameRequest
  <2>3. CASE ReadList(t)
    BY <1>0, <2>3, Ends, TaskPCs DEF ReadList, Task, SameRequest
  <2>4. CASE Validate(t)
    BY <1>0, <2>4 DEF Validate, Goto, Task, SameRequest
  <2> QED
    BY <2>1, <2>2, <2>3, <2>4
<1>6. task'[t].pc = "restore" => deployment'[task[t].deployment] = Wanted(task[t])
  <2>1. ASSUME WriteDeployment(t), task'[t].pc = "restore" PROVE FALSE
    <3>1. task[t].pc = "start" /\ ~task[t].create /\ deployment[task[t].deployment] = "absent"
      BY <1>0, <2>1 DEF WriteDeployment, Goto, Task
    <3> QED
      BY <1>1, <1>2, <3>1, ActiveSteps DEF DeploymentOK
  <2>2. ASSUME Validate(t)
        PROVE  deployment'[task[t].deployment] = Wanted(task[t])
    BY <1>1, <1>2, <2>2, ActiveSteps DEF Validate, DeploymentOK, catalogVars
  <2> QED
    BY <1>5, <2>1, <2>2
<1>7. GoesWell(t)'
  BY <1>5, <1>6 DEF GoesWell, RevertPCs, SwitchingPCs, SameRequest, Wanted
<1>8. \A f \in Features, l \in Lists : ~SwitchedBy(t, f, l)' /\ ~SwitchedBy(t, f, l)
  BY <1>4, <1>5 DEF SwitchedBy, Switched, SwitchingPCs
<1> QED
  BY <1>1, <1>3, <1>5, <1>7, <1>8, RecordsKept DEF SwitchingPCs

(* The statements of the try block that do not record anything.            *)
LEMMA TryBlockWell ==
    ASSUME NEW t \in Tasks, TypeOK, TypeOK', OneAtATime, Deploys, Deploys', FeaturesOK,
           call[t].pc # "raised",
           WriteList(t) \/ UpdateWarehouse(t) \/ WarehouseEnds(t) \/ FeaturesUpdated(t)
    PROVE  FeaturesOK'
<1>0. task \in [Tasks -> Task] /\ task[t] \in Task
  BY DEF TypeOK
<1>1. ActiveStep(t)
  BY DEF ActiveStep, DeployStep
<1>2. Active = {t} /\ GoesWell(t)
  BY <1>1, AtWork DEF FeaturesOK
<1>3. UNCHANGED <<deployedListIds, overwritten>>
  BY DEF WriteList, UpdateWarehouse, WarehouseEnds, FeaturesUpdated, catalogVars
<1>4. CASE WriteList(t)
  <2>1. /\ task[t].pc = "writeList" /\ task'[t].pc = "features"
        /\ task'[t].todo = FeaturesIn[ListUnder(t)] /\ task'[t].target = task[t].target
        /\ task'[t].broken = task[t].broken /\ task'[t].deployment = task[t].deployment
    BY <1>0, <1>4 DEF WriteList, Task
  <2>2. ListUnder(t)' = ListUnder(t)
    BY <2>1 DEF ListUnder
  <2>3. GoesWell(t)'
    BY <2>1, <2>2 DEF GoesWell, RevertPCs, ListUnder
  <2>4. \A f \in Features, l \in Lists :
           f \in FeaturesIn[l] => ~SwitchedBy(t, f, l)' /\ ~SwitchedBy(t, f, l)
    BY <2>1, <2>2 DEF SwitchedBy, Switched, SwitchingPCs, ListUnder
  <2> QED
    BY <1>1, <1>3, <2>1, <2>3, <2>4, TaskPCs, RecordsKept
<1>5. ASSUME task'[t].pc \in SwitchingPCs, task[t].pc \in SwitchingPCs,
             task'[t].target = task[t].target, task'[t].todo = task[t].todo,
             task'[t].broken = task[t].broken, task'[t].deployment = task[t].deployment,
             task'[t].pc = "space" => task[t].todo = {}
      PROVE  FeaturesOK'
  <2>1. ListUnder(t)' = ListUnder(t)
    BY <1>5 DEF ListUnder
  <2>2. GoesWell(t)'
    BY <1>2, <1>5, <2>1 DEF GoesWell, RevertPCs, SwitchingPCs, ListUnder
  <2>3. \A f \in Features, l \in Lists : SwitchedBy(t, f, l)' <=> SwitchedBy(t, f, l)
    BY <1>5, <2>1 DEF SwitchedBy, Switched, ListUnder
  <2>4. task'[t].pc \notin EndPCs
    BY <1>5 DEF SwitchingPCs, EndPCs
  <2> QED
    BY <1>1, <1>3, <1>5, <2>2, <2>3, <2>4, RecordsKept
<1>6. CASE UpdateWarehouse(t)
  <2>1. task' = task /\ task[t].pc = "warehouse"
    BY <1>6 DEF UpdateWarehouse
  <2> QED
    BY <1>5, <2>1 DEF SwitchingPCs
<1>7. CASE WarehouseEnds(t)
  <2>1. task[t].pc = "warehouse" /\ task' = [task EXCEPT ![t].pc = "features"]
    BY <1>7 DEF WarehouseEnds, Goto
  <2> QED
    BY <1>0, <1>5, <2>1 DEF SwitchingPCs, Task
<1>8. CASE FeaturesUpdated(t)
  <2>1. /\ task[t].pc = "features" /\ task[t].todo = {}
        /\ task' = [task EXCEPT ![t].pc = "space"]
    BY <1>8 DEF FeaturesUpdated, Goto
  <2> QED
    BY <1>0, <1>5, <2>1 DEF SwitchingPCs, Task
<1> QED
  BY <1>4, <1>6, <1>7, <1>8

(* One iteration over the features moves one of them to its new list ids.  *)
LEMMA UpdateFeatureWell ==
    ASSUME NEW t \in Tasks, TypeOK, TypeOK', OneAtATime, Deploys, Deploys', FeaturesOK,
           UpdateFeature(t)
    PROVE  FeaturesOK'
<1>0. /\ task \in [Tasks -> Task] /\ task[t] \in Task
      /\ deployedListIds \in [Features -> SUBSET Lists]
  BY DEF TypeOK, CatalogTypeOK
<1>1. ActiveStep(t)
  BY DEF ActiveStep, DeployStep
<1> DEFINE m == ListUnder(t)
<1>2. /\ Active = {t} /\ GoesWell(t) /\ task[t].pc = "features"
      /\ task[t].todo \subseteq Features /\ m \in Lists
  BY <1>0, <1>1, AtWork, PromisedAtWork DEF FeaturesOK, UpdateFeature, Task
<1>3. PICK f \in task[t].todo, pc \in {"warehouse", "features"} :
        /\ deployedListIds' = [deployedListIds EXCEPT ![f] =
                                 IncludeOrExclude(task[t].target, deployedListIds[f], m)]
        /\ task' = [task EXCEPT ![t] = [Remember(task[t], f) EXCEPT !.todo = task[t].todo \ {f},
                                                                   !.pc = pc]]
        /\ overwritten' = overwritten \ {f}
  BY DEF UpdateFeature
<1>4. /\ task'[t].pc = pc /\ task'[t].todo = task[t].todo \ {f}
      /\ task'[t].target = task[t].target /\ task'[t].broken = task[t].broken
      /\ task'[t].deployment = task[t].deployment
  BY <1>0, <1>3 DEF Remember, Task
<1>5. ListUnder(t)' = m /\ task'[t].pc \notin EndPCs /\ f \in Features /\ f \in FeaturesIn[m]
  BY <1>2, <1>3, <1>4 DEF ListUnder, EndPCs, GoesWell, SwitchingPCs
<1>6. PromisedLists' = PromisedLists /\ Active' = {t}
  BY <1>1, <1>5, AtWork, SeenKept DEF PromisedLists
<1>7. \A g \in Features, l \in Lists : Recorded(t, g, l)
  BY <1>2, RecordsAtWork DEF FeaturesOK
<1>8. \A g \in Features, l \in Lists :
         SwitchedBy(t, g, l)' <=> SwitchedBy(t, g, l) \/ (g = f /\ l = m)
  BY <1>2, <1>4, <1>5 DEF SwitchedBy, Switched, SwitchingPCs, ListUnder
<1>9. ASSUME NEW g \in Features, NEW l \in Lists
      PROVE  Recorded(t, g, l)'
  <2>1. CASE g # f
    BY <1>0, <1>3, <1>4, <1>6, <1>7, <1>8, <2>1 DEF Recorded
  <2>2. CASE g = f /\ l # m
    <3>1. l \in deployedListIds'[f] <=> l \in deployedListIds[f]
      BY <1>0, <1>3, <1>5, <2>2 DEF IncludeOrExclude
    <3> QED
      BY <1>4, <1>6, <1>7, <1>8, <2>2, <3>1 DEF Recorded
  <2>3. CASE g = f /\ l = m
    <3>1. m \in deployedListIds'[f] <=> task[t].target
      BY <1>0, <1>3, <1>5 DEF IncludeOrExclude
    <3> QED
      BY <1>4, <1>5, <1>8, <2>3, <3>1 DEF Recorded
  <2> QED
    BY <2>1, <2>2, <2>3
<1>10. GoesWell(t)'
  BY <1>2, <1>3, <1>4, <1>5 DEF GoesWell, RevertPCs, SwitchingPCs, ListUnder
<1>11. Unbroken' /\ overwritten' = {}
  BY <1>1, <1>3, <1>4, <1>5, OneTaskMoves DEF FeaturesOK, Unbroken, EndPCs
<1> QED
  BY <1>6, <1>9, <1>10, <1>11, RecordsAtWorkNext DEF FeaturesOK

(* A task that is done, or has been refused.                               *)
LEMMA EndsWell ==
    ASSUME NEW t \in Tasks, TypeOK, TypeOK', OneAtATime, Deploys, CatalogOK, ReadsOK(t),
           FeaturesOK, task'[t].pc \in EndPCs,
           ReadList(t) \/ UpdateSpace(t) \/ Restore(t)
    PROVE  FeaturesOK'
<1>0. task \in [Tasks -> Task] /\ task[t] \in Task
  BY DEF TypeOK
<1>1. ActiveStep(t)
  BY DEF ActiveStep, DeployStep, RevertStep
<1> DEFINE m == ListUnder(t)
<1>2. /\ Active = {t} /\ Active' = {} /\ GoesWell(t) /\ m \in Lists /\ DeploymentOK(t)
      /\ \A l \in Lists : l # m => (l \in PromisedLists <=> l \in EnabledLists)
  BY <1>1, AtWork, PromisedAtWork DEF FeaturesOK
<1>3. UNCHANGED <<deployedListIds, overwritten>>
  BY DEF ReadList, UpdateSpace, Restore, catalogVars
<1>4. task'[t].pc # "broken" /\ ~task'[t].broken
  <2>1. CASE ReadList(t)
    <3>1. task[t].pc = "readList" /\ deployed[m] = task[t].target
      <4>1. ASSUME deployed[m] # task[t].target PROVE FALSE
        <5>1. task'[t].pc = "validate"
          BY <1>0, <2>1, <4>1 DEF ReadList, Task
        <5> QED
          BY <5>1, TaskPCs
      <4> QED
        BY <2>1, <4>1 DEF ReadList
    <3>2. End(t, "done")
      BY <2>1, <3>1 DEF ReadList
    <3> QED
      BY <1>0, <3>2, Ends
  <2>2. CASE UpdateSpace(t)
    BY <1>0, <2>2, Ends DEF UpdateSpace
  <2>3. CASE Restore(t)
    <3>1. task[t].pc = "restore" /\ deployment[task[t].deployment] # "absent" /\ ~task[t].broken
      BY <1>2, <2>3 DEF Restore, GoesWell, Wanted, FeaturesOK, Unbroken
    <3>2. End(t, "refused")
      BY <2>3, <3>1 DEF Restore
    <3> QED
      BY <1>0, <3>2, Ends
  <2> QED
    BY <2>1, <2>2, <2>3
<1>5. Unbroken' /\ overwritten' = {}
  BY <1>1, <1>3, <1>4, OneTaskMoves DEF FeaturesOK, Unbroken
<1>6. \A f \in Features, l \in Lists : Recorded(t, f, l)
  BY <1>2, RecordsAtWork DEF FeaturesOK
<1>7. ASSUME SeenEnabled' = Enabled PROVE PromisedLists' = EnabledLists
  BY <1>7 DEF PromisedLists, EnabledLists, Enabled
<1>8. ASSUME PromisedLists' = PromisedLists, task[t].pc \notin SwitchingPCs
      PROVE  FeaturesOK'
  <2>1. \A f \in Features, l \in Lists :
           l \in deployedListIds'[f] <=> f \in FeaturesIn[l] /\ l \in PromisedLists'
    BY <1>3, <1>6, <1>8 DEF Recorded, SwitchedBy, Switched
  <2> QED
    BY <1>2, <1>5, <2>1, RecordsQuietNext DEF FeaturesOK
<1>9. CASE Restore(t) /\ SeenEnabled' = SeenEnabled
  <2>1. task[t].pc = "restore"
    BY <1>9 DEF Restore
  <2> QED
    BY <1>8, <1>9, <2>1 DEF PromisedLists, SwitchingPCs
<1>10. CASE ReadList(t) /\ SeenEnabled' = Enabled
  <2>1. task[t].pc = "readList" /\ deployed[m] = task[t].target
    <3>1. ASSUME deployed[m] # task[t].target PROVE FALSE
      <4>1. task'[t].pc = "validate"
        BY <1>0, <1>10, <3>1 DEF ReadList, Task
      <4> QED
        BY <4>1, TaskPCs
    <3> QED
      BY <1>10, <3>1 DEF ReadList
  <2>2. deployed[m] <=> m \in EnabledLists
    BY <2>1 DEF ReadsOK
  <2>3. deployed[m] <=> m \in PromisedLists
    BY <1>2, <2>1, ListsAtWork DEF CatalogOK, ListOK, LoosePCs, SwitchingPCs
  <2>4. PromisedLists' = PromisedLists
    <3>1. PromisedLists \subseteq Lists /\ EnabledLists \subseteq Lists
      BY <1>1, AtWork, PromisedAtWork
    <3> QED
      BY <1>2, <1>7, <1>10, <2>2, <2>3, <3>1
  <2> QED
    BY <1>8, <2>1, <2>4 DEF SwitchingPCs
<1>11. CASE UpdateSpace(t) /\ SeenEnabled' = Enabled
  <2>1. task[t].pc = "space" /\ task[t].todo = {}
    BY <1>2, <1>11 DEF UpdateSpace, GoesWell
  <2>2. task[t].target <=> m \in EnabledLists
    BY <2>1 DEF ReadsOK, TryPCs
  <2>3. \A f \in Features, l \in Lists : SwitchedBy(t, f, l) <=> l = m
    BY <2>1 DEF SwitchedBy, Switched, SwitchingPCs
  <2>4. \A f \in Features, l \in Lists :
           l \in deployedListIds'[f] <=> f \in FeaturesIn[l] /\ l \in PromisedLists'
    BY <1>2, <1>3, <1>6, <1>7, <1>11, <2>2, <2>3 DEF Recorded
  <2> QED
    BY <1>2, <1>5, <2>4, RecordsQuietNext DEF FeaturesOK
<1> QED
  BY <1>1, <1>4, <1>9, <1>10, <1>11, SeenAfter

(* Requests, the start of a task and the steps around the tasks.           *)
LEMMA ElsewhereWell ==
    ASSUME MaxActive = 1, TypeOK, TypeOK', OneAtATime, Deploys, FeaturesOK,
           \/ UNCHANGED vars
           \/ EnvironmentStep
           \/ \E t \in Tasks : Submit(t) \/ Start(t)
    PROVE  FeaturesOK'
<1>0. /\ SeenEnabled' = SeenEnabled /\ deployment' = deployment
      /\ PromisedLists' = PromisedLists
  BY SeenElsewhere, SMTT(30) DEF PromisedLists
<1>1. deployedListIds' = deployedListIds /\ overwritten' = overwritten
  BY EnvironmentMoves DEF vars, catalogVars, Submit, SubmitUpdate, SubmitCreate, Start
<1>2. CASE task' = task
  <2>1. Active' = Active
    BY <1>2 DEF Active
  <2> QED
    BY <1>0, <1>1, <1>2, <2>1 DEF FeaturesOK, RecordedLists, SwitchedBy, Switched, ListUnder,
       GoesWell, Unbroken, Wanted
<1>3. ASSUME NEW t \in Tasks, Submit(t) \/ Start(t)
      PROVE  FeaturesOK'
  <2>1. \A u \in Tasks \ {t} : task'[u] = task[u]
    BY <1>3, OneTaskMoves
  <2>2. /\ t \notin Active /\ (t \in Active' => task'[t].pc = "start")
        /\ task'[t].pc # "broken" /\ ~task'[t].broken
    <3>1. CASE Submit(t)
      BY <3>1, Queued, TaskPCs DEF Active, TypeOK
    <3>2. CASE Start(t)
      <4>1. task[t].pc = "queued" /\ ~task[t].broken
        BY <3>2 DEF Start, FeaturesOK, Unbroken
      <4>2. CASE task'[t].pc = "start" /\ task'[t].broken = task[t].broken
        BY <4>1, <4>2 DEF Active
      <4>3. ASSUME NEW pc \in {"done", "refused"}, End(t, pc)
            PROVE  task'[t].pc \in {"done", "refused"} /\ ~task'[t].broken
        BY <4>3, Ends DEF TypeOK
      <4>4. CASE task'[t].pc \in {"done", "refused"} /\ ~task'[t].broken
        BY <4>1, <4>4, TaskPCs DEF Active
      <4>5. \/ task'[t].pc = "start" /\ task'[t].broken = task[t].broken
            \/ \E pc \in {"done", "refused"} : End(t, pc)
        BY <3>2 DEF Start, TypeOK, Task
      <4> QED
        BY <4>2, <4>3, <4>4, <4>5
    <3> QED
      BY <1>3, <3>1, <3>2
  <2>3. \A u \in Active' : \/ u \in Active /\ task'[u] = task[u]
                           \/ u = t /\ task'[u].pc = "start"
    BY <2>1, <2>2 DEF Active
  <2>4. \A u \in Active : u \in Active' /\ task'[u] = task[u]
    BY <2>1, <2>2 DEF Active
  <2>5. \A f \in Features : RecordedLists(f)' = RecordedLists(f)
    BY <1>0, <2>3, <2>4 DEF RecordedLists, SwitchedBy, Switched, ListUnder, SwitchingPCs
  <2>6. \A u \in Active' : GoesWell(u)'
    BY <1>0, <2>3 DEF FeaturesOK, GoesWell, ListUnder, RevertPCs, SwitchingPCs, Wanted
  <2>7. Unbroken'
    BY <2>1, <2>2 DEF FeaturesOK, Unbroken
  <2> QED
    BY <1>1, <2>5, <2>6, <2>7 DEF FeaturesOK
<1> QED
  BY <1>2, <1>3, EnvironmentMoves DEF vars

LEMMA FeaturesStep ==
    ASSUME MaxActive = 1, TypeOK, TypeOK', SerialInv, SerialInv', FeaturesOK, CallsOK,
           faults = 0, faults' = 0, [Next]_vars
    PROVE  FeaturesOK'
<1>1. /\ OneAtATime /\ Deploys /\ Deploys' /\ CallsOwned
      /\ CatalogOK /\ \A t \in Active : ReadsOK(t)
  BY DEF SerialInv, Scheduled, Catalogs, FeaturesOK
<1>2. ASSUME NEW t \in Tasks, ActiveStep(t)
      PROVE  FeaturesOK'
  <2>1. t \in Active /\ GoesWell(t) /\ ReadsOK(t)
    BY <1>1, <1>2, ActiveSteps DEF FeaturesOK
  <2>2. ~Fault(t) /\ ~Crash(t)
    BY DEF Fault, Crash
  <2>3. task[t].pc \notin RevertPCs
    BY <2>1 DEF GoesWell
  <2>4. DeployStep(t) \/ Restore(t)
    BY <1>2, <2>2, <2>3 DEF ActiveStep, RevertStep, RevertList, RevertFeature, ReadSpace,
       RevertSpace, ReadStatus, RevertStatus, RevertPCs
  <2>5. call[t].pc # "raised"
    BY DEF CallsOK, WarehouseOK, LoopOK
  <2>6. CASE WriteDeployment(t) \/ CountEnabled(t) \/ ReadList(t) \/ Validate(t)
    <3>1. CASE task'[t].pc \notin EndPCs
      BY <1>1, <2>6, <3>1, BeforeLoopWell
    <3>2. CASE task'[t].pc \in EndPCs
      <4>1. ~WriteDeployment(t) /\ ~CountEnabled(t) /\ ~Validate(t)
        BY <3>2 DEF WriteDeployment, CountEnabled, Validate, Goto, EndPCs, TypeOK, Task
      <4> QED
        BY <1>1, <2>1, <2>6, <3>2, <4>1, EndsWell
    <3> QED
      BY <3>1, <3>2
  <2>7. CASE WriteList(t) \/ UpdateWarehouse(t) \/ WarehouseEnds(t) \/ FeaturesUpdated(t)
    BY <1>1, <2>5, <2>7, TryBlockWell
  <2>8. CASE UpdateFeature(t)
    BY <1>1, <2>8, UpdateFeatureWell
  <2>9. CASE UpdateSpace(t) \/ Restore(t)
    <3>1. task'[t].pc \in EndPCs
      BY <2>9, Ends DEF UpdateSpace, Restore, EndPCs, TypeOK
    <3> QED
      BY <1>1, <2>1, <2>9, <3>1, EndsWell
  <2> QED
    BY <2>4, <2>6, <2>7, <2>8, <2>9 DEF DeployStep
<1> QED
  BY <1>1, <1>2, ElsewhereWell, Steps

-----------------------------------------------------------------------------
(* The calls of the tasks *)

LEMMA CallsKept ==
    ASSUME CallsOK, UNCHANGED <<onlineEnabled, warehouseVars>>
    PROVE  CallsOK'
<1>1. Online' = Online
  BY DEF Online
<1>2. UNCHANGED <<queries, jobs, backfilled, store, call>>
  BY DEF warehouseVars
<1>3. WarehouseOK(IdleCall) => WarehouseOK(IdleCall)'
  BY <1>1, <1>2 DEF WarehouseOK, QueriesOK, JobsOK, StoreOK, HistoryOK, LoopOK, NameUsed, TileUsed,
     Before, NamesLeft, AtTile
<1>4. ASSUME NEW t \in Tasks, WarehouseOK(call[t])
      PROVE  WarehouseOK(call[t])'
  <2>1. Before(call[t])' = Before(call[t]) /\ call'[t] = call[t]
    BY <1>1, <1>2 DEF Before
  <2>2. QueriesOK(call[t])' /\ StoreOK(call[t])'
    BY <1>1, <1>2, <1>4, <2>1 DEF WarehouseOK, QueriesOK, StoreOK, NameUsed, NamesLeft
  <2>3. JobsOK(call[t])' /\ HistoryOK(call[t])'
    BY <1>1, <1>2, <1>4, <2>1 DEF WarehouseOK, JobsOK, HistoryOK, TileUsed, AtTile
  <2>4. LoopOK(call[t])'
    BY <1>1, <1>2, <1>4, <2>1 DEF WarehouseOK, LoopOK
  <2> QED
    BY <2>2, <2>3, <2>4 DEF WarehouseOK
<1> QED
  BY <1>2, <1>3, <1>4 DEF CallsOK

(* The only call is that of the task at work.                              *)
LEMMA CallAtWork ==
    ASSUME NEW t \in Tasks, CallsOwned, Active = {t}
    PROVE  \A u \in Tasks \ {t} : call[u].pc = "idle"
BY TaskPCs DEF CallsOwned, Active

(* Between two calls, all that is in use is what online features use.      *)
LEMMA Resting ==
    ASSUME NEW c, c.pc \in {"idle", "returned"}, c.tiles = {}, c.names = {}
    PROVE  /\ \A n : NameUsed(c, n) <=> n \in UsedNames(Online)
           /\ \A k : TileUsed(c, k) <=> k \in UsedTiles(Online)
           /\ \A k : ~AtTile(c, k)
           /\ StoreOK(c) <=> \A n \in Names : n \in UsedNames(Online) => n \in store
BY DEF NameUsed, NamesLeft, TileUsed, AtTile, TilePCs, StoreOK

(* What holds of the warehouse when no call is under way.                  *)
Served(fs) ==
    /\ \A n \in Names : /\ IF n \in UsedNames(fs) THEN One(queries[n]) ELSE queries[n] = {}
                        /\ n \in UsedNames(fs) => n \in store
    /\ \A k \in Tiles :
         /\ \A y \in TileTypes : IF k \in UsedTiles(fs) THEN One(jobs[k][y]) ELSE jobs[k][y] = {}
         /\ k \in UsedTiles(fs) => k \in backfilled

LEMMA RestingServed ==
    ASSUME NEW c, c.pc \in {"idle", "returned"}
    PROVE  WarehouseOK(c) <=> c.tiles = {} /\ c.names = {} /\ Served(Online)
<1>1. LoopOK(c) <=> c.tiles = {} /\ c.names = {}
  BY DEF LoopOK, EnablePCs, DisablePCs, RunningPCs, TilePCs
<1>2. ASSUME c.tiles = {}, c.names = {}
      PROVE  QueriesOK(c) /\ JobsOK(c) /\ StoreOK(c) /\ HistoryOK(c) <=> Served(Online)
  BY <1>2, Resting DEF QueriesOK, JobsOK, HistoryOK, Served
<1> QED
  BY <1>1, <1>2 DEF WarehouseOK

LEMMA IdleServedNext == Served(Online)' => WarehouseOK(IdleCall)'
<1>1. /\ IdleCall.pc = "idle" /\ IdleCall.tiles = {} /\ IdleCall.names = {}
  BY DEF IdleCall
<1>2. LoopOK(IdleCall)'
  BY <1>1 DEF LoopOK, EnablePCs, DisablePCs, RunningPCs, TilePCs
<1>3. Served(Online)' => QueriesOK(IdleCall)' /\ StoreOK(IdleCall)'
  BY <1>1 DEF Served, QueriesOK, StoreOK, NameUsed, NamesLeft
<1>4. Served(Online)' => JobsOK(IdleCall)' /\ HistoryOK(IdleCall)'
  BY <1>1 DEF Served, JobsOK, HistoryOK, TileUsed
<1> QED
  BY <1>2, <1>3, <1>4 DEF WarehouseOK

(* A call begins where the one before it left the warehouse.               *)
LEMMA CallBegins ==
    ASSUME NEW t \in Tasks, NEW f \in Features, NEW online \in BOOLEAN,
           onlineEnabled \in [Features -> BOOLEAN], call \in [Tasks -> Call],
           WarehouseOK(IdleCall), onlineEnabled[f] # online,
           onlineEnabled' = [onlineEnabled EXCEPT ![f] = online],
           UNCHANGED <<queries, jobs, backfilled, store>>,
           call' = [call EXCEPT ![t] = NewCall(f, online)]
    PROVE  WarehouseOK(call[t])'
<1>1. /\ call'[t].pc = IF online THEN "enable" ELSE "disable"
      /\ call'[t].feature = f /\ call'[t].tiles = TilesOf[f] /\ call'[t].names = {}
  BY DEF NewCall, IdleCall
<1>2. Served(Online)
  BY RestingServed DEF IdleCall
<1>3. /\ Online' = IF online THEN Online \cup {f} ELSE Online \ {f}
      /\ online <=> f \notin Online
  BY DEF Online
<1>4. Before(call[t])' = Online
  BY <1>1, <1>3 DEF Before, DisablePCs
<1>5. UsedNames(Online)' = UsedNames(Online') /\ UsedTiles(Online)' = UsedTiles(Online')
  OBVIOUS
<1>6. online => /\ UsedNames(Online') = UsedNames(Online) \cup NamesOf[f]
                /\ UsedTiles(Online') = UsedTiles(Online) \cup TilesOf[f]
  BY <1>3 DEF UsedNames, UsedTiles
<1>7. ~online => /\ UsedNames(Online) = UsedNames(Online') \cup NamesOf[f]
                 /\ UsedTiles(Online) = UsedTiles(Online') \cup TilesOf[f]
  <2>1. ASSUME ~online PROVE Online = Online' \cup {f}
    BY <1>3, <2>1
  <2> QED
    BY <2>1 DEF UsedNames, UsedTiles
<1>8. \A n : NameUsed(call[t], n)' <=> n \in UsedNames(Online)
  BY <1>1, <1>4, <1>6, <1>7 DEF NameUsed, NamesLeft
<1>9. \A k : TileUsed(call[t], k)' <=> k \in UsedTiles(Online)
  BY <1>1, <1>4, <1>6, <1>7 DEF TileUsed
<1>10. QueriesOK(call[t])' /\ JobsOK(call[t])' /\ HistoryOK(call[t])'
  BY <1>2, <1>8, <1>9 DEF QueriesOK, JobsOK, HistoryOK, Served
<1>11. StoreOK(call[t])'
  BY <1>1, <1>2, <1>4, <1>7 DEF StoreOK, Served
<1>12. LoopOK(call[t])'
  BY <1>1, <1>3 DEF LoopOK, EnablePCs, DisablePCs, RunningPCs, TilePCs
<1> QED
  BY <1>10, <1>11, <1>12 DEF WarehouseOK

LEMMA CallsByUpdateFeature ==
    ASSUME NEW t \in Tasks, TypeOK, CallsOwned, CallsOK, Active = {t}, UpdateFeature(t)
    PROVE  CallsOK'
<1>0. /\ onlineEnabled \in [Features -> BOOLEAN] /\ call \in [Tasks -> Call]
      /\ task[t] \in Task
  BY DEF TypeOK, CatalogTypeOK, WarehouseTypeOK
<1>1. PICK f \in task[t].todo, online \in BOOLEAN :
        /\ onlineEnabled' = [onlineEnabled EXCEPT ![f] = online]
        /\ call' = IF onlineEnabled[f] # online THEN [call EXCEPT ![t] = NewCall(f, online)]
                   ELSE call
  BY DEF UpdateFeature, SetOnline
<1>2. f \in Features /\ UNCHANGED <<queries, jobs, backfilled, store>> /\ task[t].pc = "features"
  BY <1>0 DEF UpdateFeature, Task
<1>3. CASE onlineEnabled[f] = online
  <2>1. UNCHANGED <<onlineEnabled, warehouseVars>>
    BY <1>0, <1>1, <1>2, <1>3 DEF warehouseVars
  <2> QED
    BY <2>1, CallsKept
<1>4. CASE onlineEnabled[f] # online
  <2>1. \A u \in Tasks : call[u].pc = "idle"
    BY <1>2, CallAtWork DEF CallsOwned
  <2>2. WarehouseOK(IdleCall)
    BY <2>1 DEF CallsOK
  <2>3. call' = [call EXCEPT ![t] = NewCall(f, online)]
    BY <1>1, <1>4
  <2>4. WarehouseOK(call[t])'
    BY <1>0, <1>1, <1>2, <1>4, <2>2, <2>3, CallBegins
  <2>5. call'[t].pc # "idle" /\ \A u \in Tasks \ {t} : call'[u].pc = "idle"
    BY <1>0, <2>1, <2>3 DEF NewCall, IdleCall
  <2> QED
    BY <2>4, <2>5 DEF CallsOK
<1> QED
  BY <1>3, <1>4

LEMMA CallsByUpdateWarehouse ==
    ASSUME NEW t \in Tasks, TypeOK, CallsOwned, CallsOK, Active = {t}, UpdateWarehouse(t)
    PROVE  CallsOK'
<1>1. WarehouseTypeOK /\ WarehouseStep(t) /\ UNCHANGED onlineEnabled
  BY DEF TypeOK, UpdateWarehouse, catalogVars
<1>2. /\ call[t].pc # "idle" /\ call'[t].pc # "idle"
      /\ \A u \in Tasks \ {t} : call'[u] = call[u]
  BY <1>1, CallContinues
<1>3. WarehouseOK(call[t])'
  BY <1>1, <1>2, WarehouseServes DEF CallsOK
<1>4. \A u \in Tasks \ {t} : call'[u].pc = "idle"
  BY <1>2, CallAtWork
<1> QED
  BY <1>2, <1>3, <1>4 DEF CallsOK

LEMMA CallsByWarehouseEnds ==
    ASSUME NEW t \in Tasks, TypeOK, CallsOwned, CallsOK, Active = {t}, WarehouseEnds(t)
    PROVE  CallsOK'
<1>1. /\ call[t].pc \in {"returned", "raised"} /\ call' = [call EXCEPT ![t] = IdleCall]
      /\ UNCHANGED <<onlineEnabled, queries, jobs, backfilled, store>>
      /\ call \in [Tasks -> Call]
  BY DEF TypeOK, WarehouseTypeOK, WarehouseEnds, catalogVars
<1>2. WarehouseOK(call[t]) /\ call[t].pc = "returned"
  BY <1>1 DEF CallsOK, WarehouseOK, LoopOK
<1>3. Served(Online)
  BY <1>2, RestingServed
<1>4. Served(Online)'
  <2>1. Online' = Online
    BY <1>1 DEF Online
  <2> QED
    BY <1>1, <1>3, <2>1 DEF Served
<1>5. WarehouseOK(IdleCall)'
  BY <1>4, IdleServedNext
<1>6. \A u \in Tasks : call'[u].pc = "idle"
  BY <1>1, CallAtWork DEF IdleCall
<1> QED
  BY <1>5, <1>6 DEF CallsOK

LEMMA CallsStep ==
    ASSUME TypeOK, SerialInv, FeaturesOK, CallsOK, faults = 0, faults' = 0, [Next]_vars
    PROVE  CallsOK'
<1>1. OneAtATime /\ Deploys /\ CallsOwned
  BY DEF SerialInv, Scheduled
<1>2. CASE UNCHANGED vars \/ EnvironmentStep \/ \E t \in Tasks : Submit(t) \/ Start(t)
  <2>1. UNCHANGED <<onlineEnabled, warehouseVars>>
    BY <1>2, EnvironmentMoves
       DEF vars, catalogVars, Submit, SubmitUpdate, SubmitCreate, Start
  <2> QED
    BY <2>1, CallsKept, SMTT(30)
<1>3. ASSUME NEW t \in Tasks, ActiveStep(t)
      PROVE  CallsOK'
  <2>1. Active = {t} /\ GoesWell(t)
    BY <1>1, <1>3, AtWork DEF FeaturesOK
  <2>2. ~Fault(t) /\ ~Crash(t) /\ ~RevertFeature(t)
    BY <2>1 DEF Fault, Crash, RevertFeature, GoesWell, RevertPCs
  <2>3. CASE UpdateFeature(t) \/ UpdateWarehouse(t) \/ WarehouseEnds(t)
    BY <1>1, <2>1, <2>3, CallsByUpdateFeature, CallsByUpdateWarehouse, CallsByWarehouseEnds
  <2>4. CASE UNCHANGED <<onlineEnabled, warehouseVars>>
    BY <2>4, CallsKept
  <2>5. \/ UpdateFeature(t) \/ UpdateWarehouse(t) \/ WarehouseEnds(t)
        \/ UNCHANGED <<onlineEnabled, warehouseVars>>
    BY <1>3, <2>2 DEF ActiveStep, DeployStep, RevertStep, WriteDeployment, CountEnabled, ReadList,
       Validate, WriteList, FeaturesUpdated, UpdateSpace, RevertList, ReadSpace, RevertSpace,
       ReadStatus, RevertStatus, Restore, catalogVars
  <2> QED
    BY <2>3, <2>4, <2>5
<1> QED
  BY <1>2, <1>3, Steps

-----------------------------------------------------------------------------
(* The theorems *)

LEMMA FaultsCount ==
    ASSUME TypeOK, [Next]_vars, faults' = 0
    PROVE  faults = 0
<1>1. faults \in Nat
  BY SMTT(30) DEF TypeOK
<1>2. faults' = faults \/ faults' = faults + 1
  BY Steps, EnvironmentMoves, ZenonT(30) DEF vars, Submit, SubmitUpdate, SubmitCreate, Start, ActiveStep,
     DeployStep, RevertStep, WriteDeployment, CountEnabled, ReadList, Validate, WriteList,
     UpdateFeature, UpdateWarehouse, WarehouseEnds, FeaturesUpdated, UpdateSpace, RevertList,
     RevertFeature, ReadSpace, RevertSpace, ReadStatus, RevertStatus, Restore, Fault, Crash
<1> QED
  BY <1>1, <1>2

LEMMA FaultlessInit ==
    ASSUME Init
    PROVE  Faultless
<1>1. /\ Active = {} /\ PromisedLists = {}
      /\ \A t \in Tasks : /\ task[t].pc = "idle" /\ ~task[t].broken
                          /\ call[t].pc = "idle"
  BY InitNothing
<1>2. FeaturesOK
  BY <1>1 DEF FeaturesOK, RecordedLists, Unbroken, Init
<1>3. Online = {}
  BY DEF Online, Init
<1>4. Served(Online)
  BY <1>3 DEF Served, UsedNames, UsedTiles, Init, FeatureManagerInit
<1>5. WarehouseOK(IdleCall)
  BY <1>4, RestingServed DEF IdleCall
<1> QED
  BY <1>1, <1>2, <1>5 DEF Faultless, CallsOK

LEMMA FaultlessStep ==
    ASSUME MaxActive = 1, TypeOK, TypeOK', SerialInv, SerialInv', Faultless, [Next]_vars
    PROVE  Faultless'
BY FaultsCount, FeaturesStep, CallsStep DEF Faultless

LEMMA FaultlessInvariant ==
    ASSUME MaxActive = 1
    PROVE  Spec => [](TypeOK /\ SerialInv /\ Faultless)
<1>1. Init => Faultless
  BY FaultlessInit
<1>2. TypeOK /\ TypeOK' /\ SerialInv /\ SerialInv' /\ Faultless /\ [Next]_vars => Faultless'
  BY FaultlessStep
<1> QED
  BY <1>1, <1>2, SerialInvariant, PTL DEF Spec

(* When nothing runs and nothing has failed.                               *)
LEMMA AtRest ==
    ASSUME TypeOK, SerialInv, Faultless, Quiet, faults = 0
    PROVE  /\ FeaturesOK /\ Served(Online)
           /\ DeployedLists = PromisedLists /\ PromisedLists = EnabledLists
           /\ \A f \in Features : deployedListIds[f] = {l \in DeployedLists : f \in FeaturesIn[l]}
<1>1. FeaturesOK /\ CallsOK /\ CatalogOK /\ Active = {} /\ CallsOwned
  BY DEF Faultless, FeaturesOK, SerialInv, Catalogs, Quiet, Scheduled
<1>2. PromisedLists = EnabledLists /\ PromisedLists \subseteq Lists
  BY <1>1, SeenQuiet, DeploymentAssumption DEF PromisedLists, EnabledLists, Enabled
<1>3. DeployedLists = PromisedLists
  BY <1>1, <1>2 DEF CatalogOK, ListsOK, Switching, Reverting, DeployedLists
<1>4. \A f \in Features : deployedListIds[f] = {l \in DeployedLists : f \in FeaturesIn[l]}
  BY <1>1, <1>2, <1>3 DEF FeaturesOK, RecordedLists
<1>5. \A t \in Tasks : call[t].pc = "idle"
  BY <1>1, TaskPCs DEF CallsOwned, Active
<1>6. Served(Online)
  BY <1>1, <1>5, RestingServed DEF CallsOK, IdleCall
<1> QED
  BY <1>1, <1>2, <1>3, <1>4, <1>6

(* When tasks run one at a time and nothing has failed, a feature records  *)
(* exactly the deployed lists that hold it after every task, whatever      *)
(* lists share it (deploy.py, _update_feature with the loop over the       *)
(* features of a list in _update_feature_list).                            *)
THEOREM FeaturesSettle ==
    ASSUME MaxActive = 1
    PROVE  Spec => []SettledFeatures
<1>1. TypeOK /\ SerialInv /\ Faultless => SettledFeatures
  BY AtRest DEF SettledFeatures
<1> QED
  BY <1>1, FaultlessInvariant, PTL

(* When tasks run one at a time and nothing has failed, the data warehouse *)
(* serves exactly the online features after every task: one compute query  *)
(* for each result name in use, one ONLINE and one OFFLINE job for each    *)
(* tile in use, and none for others, with historical tiles and a populated *)
(* online store (feature_manager.py, online_enable and online_disable).    *)
THEOREM WarehouseSettles ==
    ASSUME MaxActive = 1
    PROVE  Spec => []SettledWarehouse
<1>1. ASSUME TypeOK, SerialInv, Faultless PROVE SettledWarehouse
  <2> SUFFICES ASSUME Quiet, faults = 0
               PROVE  /\ \A n \in Names :
                           LET used == \E f \in Features : onlineEnabled[f] /\ n \in NamesOf[f] IN
                           /\ Cardinality(queries[n]) = IF used THEN 1 ELSE 0
                           /\ used => n \in store
                      /\ \A k \in Tiles :
                           /\ \A y \in TileTypes :
                                Cardinality(jobs[k][y]) = IF TileInUse(k) THEN 1 ELSE 0
                           /\ TileInUse(k) => k \in backfilled
    BY DEF SettledWarehouse
  <2>1. Served(Online)
    BY <1>1, AtRest
  <2>2. \A n : (\E f \in Features : onlineEnabled[f] /\ n \in NamesOf[f]) <=> n \in UsedNames(Online)
    BY DEF UsedNames, Online
  <2>3. \A docs : (One(docs) => Cardinality(docs) = 1) /\ (docs = {} => Cardinality(docs) = 0)
    BY OneIs, FS_EmptySet
  <2> QED
    BY <2>1, <2>2, <2>3, TileInUseIs DEF Served
<1> QED
  BY <1>1, FaultlessInvariant, PTL

(* When tasks run one at a time, the features of deployed lists go offline *)
(* (README.md:316) only after a fault: what DeploymentPartialRevert shows  *)
(* needs _revert_changes (deploy.py), and no sharing of features brings it *)
(* about.                                                                  *)
THEOREM OnlineUnlessFaults ==
    ASSUME MaxActive = 1
    PROVE  Spec => [](faults = 0 => DeployedListIsOnline)
<1>1. ASSUME TypeOK, SerialInv, Faultless, OnlineIffDeployedIds, faults = 0, Quiet,
             NEW l \in DeployedLists, NEW f \in FeaturesIn[l]
      PROVE  onlineEnabled[f]
  <2>1. l \in Lists /\ f \in Features
    BY <1>1, DeploymentAssumption DEF DeployedLists
  <2>2. l \in deployedListIds[f]
    BY <1>1, <2>1, AtRest
  <2>3. overwritten = {}
    BY <1>1, AtRest DEF FeaturesOK
  <2> QED
    BY <1>1, <2>1, <2>2, <2>3 DEF OnlineIffDeployedIds
<1>2. TypeOK /\ SerialInv /\ Faultless /\ OnlineIffDeployedIds => (faults = 0 => DeployedListIsOnline)
  BY <1>1 DEF DeployedListIsOnline
<1> QED
  BY <1>2, FaultlessInvariant, OnlineFollowsDeployedIds, PTL

(* When tasks run one at a time, an active tile of a deployed list lacks   *)
(* its history (feature_manager.py:107) only after a fault: skipping the   *)
(* backfill of a tile that has a job, in online_enable, is right as long   *)
(* as no call has stopped between the job and the backfill.                *)
THEOREM HistoryUnlessFaults ==
    ASSUME MaxActive = 1
    PROVE  Spec => [](faults = 0 => ActiveTileHasHistory)
<1>1. ASSUME TypeOK, SerialInv, Faultless, DeployedListIsOnline, faults = 0, Quiet, NoneBroken,
             NEW l \in DeployedLists, NEW f \in FeaturesIn[l], NEW k \in TilesOf[f]
      PROVE  k \in backfilled
  <2>1. f \in Features /\ k \in Tiles
    BY DeploymentAssumption, FeatureManagerAssumption DEF DeployedLists
  <2>2. f \in Online
    BY <1>1, <2>1 DEF DeployedListIsOnline, Online
  <2>3. k \in UsedTiles(Online)
    BY <2>2 DEF UsedTiles
  <2> QED
    BY <1>1, <2>1, <2>3, AtRest DEF Served
<1>2. TypeOK /\ SerialInv /\ Faultless /\ (faults = 0 => DeployedListIsOnline) =>
          (faults = 0 => ActiveTileHasHistory)
  BY <1>1 DEF ActiveTileHasHistory
<1> QED
  BY <1>2, FaultlessInvariant, OnlineUnlessFaults, PTL
=============================================================================
