------------------------------ MODULE TileJobs ------------------------------
(***************************************************************************)
(* The life of one tile table: celery beat launches its ONLINE and OFFLINE *)
(* job, workers run them (TileTaskExecutor: generate tiles, record what    *)
(* has been generated, refresh the online store), and FeatureManager-      *)
(* Service creates the jobs, backfills the history and populates the       *)
(* store when a feature is enabled.                                        *)
(*                                                                         *)
(* A run starts when a worker is free, may take any time, may fail at      *)
(* every statement, and may overlap with other runs of either type: beat   *)
(* does not ask whether the last one has ended.  Nothing is transactional: *)
(* every access to the registry, to the warehouse and to the versions of   *)
(* the online store is a step.                                             *)
(***************************************************************************)
EXTENDS JobSchedule, Sequences, FiniteSets

CONSTANTS Slots,          \* executions that can be under way at a time
          StartTime,      \* the time at which the model starts
          MaxTime,        \* bound: the last time of the clock
          MaxVersion,     \* bound: the last version of the online store
          MaxRuns,        \* bound: executions, enabling and disabling included
          MaxFaults,      \* bound: failed executions
          None            \* Python's None

ASSUME TileJobsAssumption ==
    /\ IsFiniteSet(Slots)
    /\ StartTime \in Nat /\ MaxTime \in Nat
    /\ MaxVersion \in Nat /\ MaxRuns \in Nat /\ MaxFaults \in Nat
    /\ None \notin Int

VARIABLES now,        \* the clock
          job,        \* type -> last_run_at of its PeriodicTask, None without one
          query,      \* whether the OnlineStoreComputeQuery of the tile exists
          disabling,  \* the next statement of online_disable, "no" if none is at work
          metadata,   \* type -> last_run_metadata_<type>.tile_end_date, or None
          complete,   \* tiles whose stored row was computed from all their data
          rows,       \* version -> how often its rows were inserted
          content,    \* version -> what was inserted last
          versions,   \* OnlineStoreTableVersion documents, the newest one first
          exec,       \* slot -> execution
          runs,       \* executions so far
          faults,     \* failed executions
          since,      \* history: start of the last first ONLINE window, or None
          backfilled, \* history: to where a backfill completed all tiles, or None
          cut,        \* history: tiles that were complete until an OFFLINE run cut them
          torn,       \* history: versions that were inserted by a run that failed then
          raced       \* history: a version was read while another run was at its update

history == <<since, backfilled, cut, torn, raced>>
storeVars == <<rows, content, versions>>
vars == <<now, job, query, disabling, metadata, complete, rows, content, versions, exec,
          runs, faults, since, backfilled, cut, torn, raced>>

Types == {"ONLINE", "OFFLINE"}
Kinds == Types \cup {"ENABLE"}
EnablePCs == {"startOnline", "startOffline", "backfill"}
DisablePCs == {"no", "stopOnline", "stopOffline"}
StorePCs == {"insert", "writeVersion"}
PCs == {"idle", "queued", "generate", "record", "readVersion"} \cup EnablePCs \cup StorePCs
Versions == 0..MaxVersion

(* job: job time used for the store; start, end: the window; first: there  *)
(* was no metadata to start from; populate: the query is new; seen: the    *)
(* version read; overtaken (history): another execution has published      *)
(* since this one took its job time.                                       *)
Execution == [pc: PCs, kind: Kinds, job: Int, start: Int, end: Int,
              first: BOOLEAN, populate: BOOLEAN, seen: Versions \cup {None},
              overtaken: BOOLEAN]

Idle == [pc |-> "idle", kind |-> "ONLINE", job |-> 0, start |-> 0, end |-> 0,
         first |-> FALSE, populate |-> FALSE, seen |-> None, overtaken |-> FALSE]

-----------------------------------------------------------------------------
(* Tiles.                                                                  *)
Tiles == {k \in 0..(MaxTime + BlindSpot) : IndexToTime(k) >= 0 /\ IndexToTime(k + 1) <= MaxTime}

Within(k, start, end) == start <= IndexToTime(k) /\ IndexToTime(k + 1) <= end
Touches(k, start, end) == IndexToTime(k) < end /\ start < IndexToTime(k + 1)

(* The merge of a window: it replaces each tile with the rows of [start,   *)
(* end) that have arrived by now.  A tile is complete when the window has  *)
(* all of it and its last rows have had the blind spot to arrive.          *)
Merged(start, end) ==
    {k \in complete : ~Touches(k, start, end)}
        \cup {k \in Tiles : Within(k, start, end) /\ IndexToTime(k + 1) + BlindSpot <= now}

(* The period of OFFLINE jobs need not be a multiple of the frequency      *)
(* (models/tile.py:107 allows 7 minutes, 5 hours or 2 days, the period is  *)
(* always a day): the window of an OFFLINE job may then take a part of a   *)
(* complete tile, and its merge replaces the row by one of that part.      *)
CutBy(kind, start, end) ==
    IF kind = "OFFLINE"
    THEN {k \in complete : Touches(k, start, end) /\ ~Within(k, start, end)} ELSE {}

(* Tiles that have been computed from all their data, cut or not.          *)
Computed == complete \cup cut

(* From where on all tiles are promised, None before the first ONLINE run: *)
(* from the epoch if the first windows left nothing between themselves and *)
(* what a backfill from the epoch could complete.                          *)
Settled == since # None /\ backfilled # None /\ since <= backfilled
PromisedFrom == IF Settled THEN 0 ELSE since

AllComplete(end) ==
    since # None => {k \in Tiles : Within(k, PromisedFrom, end)} \subseteq Computed

Earlier(a, b) == IF a < b THEN a ELSE b
Later(a, b) == IF a = None THEN b ELSE IF a > b THEN a ELSE b

-----------------------------------------------------------------------------
Init ==
    /\ now = StartTime
    /\ job = [t \in Types |-> None]
    /\ query = FALSE /\ disabling = "no"
    /\ metadata = [t \in Types |-> None]
    /\ complete = {}
    /\ rows = [v \in Versions |-> 0]
    /\ content = [v \in Versions |-> None]
    /\ versions = <<>>
    /\ exec = [s \in Slots |-> Idle]
    /\ runs = 0
    /\ faults = 0
    /\ since = None /\ backfilled = None /\ cut = {} /\ torn = {} /\ raced = FALSE

At(s, pc) == exec[s].pc = pc
Goto(s, pc) == exec' = [exec EXCEPT ![s].pc = pc]
Ends(s) == exec' = [exec EXCEPT ![s] = Idle]
NoEnableAtWork == \A s \in Slots : exec[s].pc # "idle" => exec[s].kind # "ENABLE"

Tick ==
    /\ now < MaxTime
    /\ now' = now + 1
    /\ UNCHANGED <<job, query, disabling, metadata, complete, storeVars, exec, runs, faults,
                   history>>

(* Celery beat launches a job and notes the time.                          *)
Launch(s, type) ==
    /\ At(s, "idle")
    /\ job[type] # None
    /\ IsDue(now, job[type], Interval(type))
    /\ runs < MaxRuns
    /\ runs' = runs + 1
    /\ job' = [job EXCEPT ![type] = now]
    /\ exec' = [exec EXCEPT ![s] = [Idle EXCEPT !.pc = "queued", !.kind = type]]
    /\ UNCHANGED <<now, query, disabling, metadata, complete, storeVars, faults, history>>

-----------------------------------------------------------------------------
(* TileTaskExecutor.execute: a worker takes the task.  The job time is the *)
(* one before the current time; the window is extended to the end of the   *)
(* last ONLINE run if that is earlier, for both types.                     *)
(* Faulty variant: an OFFLINE run works for the time of its window.        *)
ShiftedJobTime(type) ==
    CorrectJobTime(now) - (IF type = "ONLINE" THEN 0 ELSE OfflinePeriod)

JobTimeOf(type) == CorrectJobTime(now)

(* Faulty variants: the metadata are ignored; the metadata are not checked *)
(* for None.                                                               *)
StartNotExtended(type) == WindowStart(type, CorrectJobTime(now))
StartUnchecked(type) ==
    LET start == WindowStart(type, CorrectJobTime(now))
        last == metadata["ONLINE"] IN
    IF last = None \/ last < start THEN last ELSE start

ExtendedStart(type) ==
    LET start == WindowStart(type, CorrectJobTime(now))
        last == metadata["ONLINE"] IN
    IF last # None /\ last < start THEN last ELSE start

StartRun(s) ==
    /\ At(s, "queued")
    /\ LET type == exec[s].kind IN
       exec' = [exec EXCEPT ![s].pc = "generate",
                            ![s].job = JobTimeOf(type),
                            ![s].start = ExtendedStart(type),
                            ![s].end = WindowEnd(type, CorrectJobTime(now)),
                            ![s].first = metadata["ONLINE"] = None]
    /\ UNCHANGED <<now, job, query, disabling, metadata, complete, storeVars, runs, faults,
                   history>>

(* TileGenerate.execute, first part: merge into the tile table.            *)
Generate(s) ==
    /\ At(s, "generate")
    /\ complete' = Merged(exec[s].start, exec[s].end)
    /\ cut' = (cut \cup CutBy(exec[s].kind, exec[s].start, exec[s].end)) \ complete'
    /\ backfilled' = IF exec[s].kind = "ENABLE" /\ exec[s].first
                     THEN Later(backfilled, Earlier(exec[s].end, now - BlindSpot))
                     ELSE backfilled
    /\ Goto(s, "record")
    /\ UNCHANGED <<now, job, query, disabling, metadata, storeVars, runs, faults, since,
                   torn, raced>>

(* Second part: update_last_run_metadata.  A backfill is of type OFFLINE.  *)
RecordedType(kind) == IF kind = "ONLINE" THEN "ONLINE" ELSE "OFFLINE"

Record(s) ==
    /\ At(s, "record")
    /\ metadata' = [metadata EXCEPT ![RecordedType(exec[s].kind)] = exec[s].end]
    /\ since' = IF exec[s].kind = "ONLINE" /\ exec[s].first
                THEN Later(since, exec[s].start) ELSE since
    /\ IF exec[s].kind = "ENABLE" /\ ~exec[s].populate
       THEN Ends(s) ELSE Goto(s, "readVersion")
    /\ UNCHANGED <<now, job, query, disabling, complete, storeVars, runs, faults, backfilled,
                   cut, torn, raced>>

-----------------------------------------------------------------------------
(* TileScheduleOnlineStore.execute, for the only compute query.            *)
NoQuery(s) ==
    /\ At(s, "readVersion")
    /\ ~query
    /\ Ends(s)
    /\ UNCHANGED <<now, job, query, disabling, metadata, complete, storeVars, runs, faults,
                   history>>

(* get_version reads the newest document.                                  *)
ReadVersion(s) ==
    /\ At(s, "readVersion")
    /\ query
    /\ exec' = [exec EXCEPT ![s].pc = "insert",
                            ![s].seen = IF versions = <<>> THEN None ELSE Head(versions)]
    /\ raced' = (raced \/ \E o \in Slots \ {s} : exec[o].pc \in StorePCs)
    /\ UNCHANGED <<now, job, query, disabling, metadata, complete, storeVars, runs, faults, since,
                   backfilled, cut, torn>>

(* Faulty variant: the version is not increased.                           *)
SameVersion(seen) == IF seen = None THEN 0 ELSE seen

NextVersion(seen) == IF seen = None THEN 0 ELSE seen + 1

(* The feature store table is created with the rows, or they are inserted. *)
(* Faulty variant: an error of the warehouse is swallowed.                 *)
RowsLost(version) == rows
RowsWith(version) == [rows EXCEPT ![version] = @ + 1]

InsertRows(s) ==
    LET next == NextVersion(exec[s].seen) IN
    /\ At(s, "insert")
    /\ next <= MaxVersion
    /\ rows' = RowsWith(next)
    /\ content' = [content EXCEPT ![next] =
                     [job |-> exec[s].job, kind |-> exec[s].kind,
                      full |-> AllComplete(exec[s].job - BlindSpot)]]
    /\ Goto(s, "writeVersion")
    /\ UNCHANGED <<now, job, query, disabling, metadata, complete, versions, runs,
                   faults, history>>

(* create_document, or update_version, which updates the newest document.  *)
WriteVersion(s) ==
    LET next == NextVersion(exec[s].seen) IN
    /\ At(s, "writeVersion")
    /\ versions' = IF exec[s].seen = None THEN <<next>> \o versions
                   ELSE [versions EXCEPT ![1] = next]
    /\ exec' = [o \in Slots |->
                  IF o = s THEN Idle
                  ELSE [exec[o] EXCEPT !.overtaken = exec[o].pc \notin {"idle", "queued"}]]
    /\ UNCHANGED <<now, job, query, disabling, metadata, complete, rows, content, runs,
                   faults, history>>

(* get_versions, which online serving uses: of several documents of one    *)
(* result name, the last one listed, which is the oldest one, is taken.    *)
Served == versions[Len(versions)]

-----------------------------------------------------------------------------
(* FeatureManagerService.online_enable of the feature: the schedule time   *)
(* is taken, a missing compute query is inserted.  If the ONLINE job is    *)
(* there, neither jobs nor backfill follow: only the store is populated,   *)
(* for a new query.  Calls that overlap are the subject of module          *)
(* FeatureManager.                                                         *)
Enable(s) ==
    /\ At(s, "idle")
    /\ NoEnableAtWork /\ disabling = "no"
    /\ job["ONLINE"] = None \/ ~query
    /\ exec' = [exec EXCEPT ![s] =
                  [Idle EXCEPT !.pc = IF job["ONLINE"] = None THEN "startOnline"
                                      ELSE "readVersion",
                               !.kind = "ENABLE",
                               !.job = NextJobTime(now) - Frequency,
                               !.populate = ~query]]
    /\ query' = TRUE
    /\ runs < MaxRuns
    /\ runs' = runs + 1
    /\ UNCHANGED <<now, job, disabling, metadata, complete, storeVars, faults, history>>

(* schedule_online_tiles, schedule_offline_tiles: unless it exists.        *)
ScheduleTiles(s, type, pc, next) ==
    /\ At(s, pc)
    /\ job' = [job EXCEPT ![type] = IF @ = None THEN now ELSE @]
    /\ Goto(s, next)
    /\ UNCHANGED <<now, query, disabling, metadata, complete, storeVars, runs, faults,
                   history>>

(* _generate_historical_tiles, up to the call of generate_tiles.           *)
PlanBackfill(s) ==
    /\ At(s, "backfill")
    /\ exec' = [exec EXCEPT ![s].pc = "generate",
                            ![s].start = BackfillStart(IF metadata["OFFLINE"] = None
                                                       THEN 0 ELSE metadata["OFFLINE"]),
                            ![s].end = BackfillEnd(now),
                            ![s].first = metadata["OFFLINE"] = None]
    /\ UNCHANGED <<now, job, query, disabling, metadata, complete, storeVars, runs, faults,
                   history>>

(* online_disable of the last feature that needs the tile: the compute     *)
(* query is deleted, then the jobs are stopped one by one.  It may fail in *)
(* between; a retry finds a part of it done.                               *)
Disable ==
    /\ NoEnableAtWork /\ disabling = "no"
    /\ query \/ \E t \in Types : job[t] # None
    /\ runs < MaxRuns
    /\ runs' = runs + 1
    /\ query' = FALSE
    /\ disabling' = "stopOnline"
    /\ UNCHANGED <<now, job, metadata, complete, storeVars, exec, faults, history>>

StopJob(type, pc, next) ==
    /\ disabling = pc
    /\ job' = [job EXCEPT ![type] = None]
    /\ disabling' = next
    /\ UNCHANGED <<now, query, metadata, complete, storeVars, exec, runs, faults, history>>

DisableFails ==
    /\ disabling # "no"
    /\ faults < MaxFaults
    /\ faults' = faults + 1
    /\ disabling' = "no"
    /\ UNCHANGED <<now, job, query, metadata, complete, storeVars, exec, runs, history>>

(* A statement raises, the time limit strikes or the worker dies.          *)
Fault(s) ==
    /\ exec[s].pc # "idle"
    /\ faults < MaxFaults
    /\ faults' = faults + 1
    /\ torn' = IF At(s, "writeVersion") THEN torn \cup {NextVersion(exec[s].seen)} ELSE torn
    /\ Ends(s)
    /\ UNCHANGED <<now, job, query, disabling, metadata, complete, storeVars, runs, since,
                   backfilled, cut, raced>>

Next ==
    \/ Tick
    \/ Disable
    \/ StopJob("ONLINE", "stopOnline", "stopOffline")
    \/ StopJob("OFFLINE", "stopOffline", "no")
    \/ DisableFails
    \/ \E s \in Slots :
          \/ \E type \in Types : Launch(s, type)
          \/ StartRun(s)
          \/ Generate(s)
          \/ Record(s)
          \/ NoQuery(s)
          \/ ReadVersion(s)
          \/ InsertRows(s)
          \/ WriteVersion(s)
          \/ Enable(s)
          \/ ScheduleTiles(s, "ONLINE", "startOnline", "startOffline")
          \/ ScheduleTiles(s, "OFFLINE", "startOffline", "backfill")
          \/ PlanBackfill(s)
          \/ Fault(s)

Spec == Init /\ [][Next]_vars

-----------------------------------------------------------------------------
(* Type invariant of the job documents, the metadata, the online store and *)
(* the executions at work.                                                 *)
TypeOK ==
    /\ now \in Nat
    /\ job \in [Types -> Nat \cup {None}]
    /\ query \in BOOLEAN /\ disabling \in DisablePCs
    /\ metadata \in [Types -> Int \cup {None}]
    /\ complete \subseteq Tiles
    /\ rows \in [Versions -> Nat]
    /\ content \in [Versions -> [job: Int, kind: Kinds, full: BOOLEAN] \cup {None}]
    /\ versions \in Seq(Versions)
    /\ exec \in [Slots -> Execution]
    /\ runs \in 0..MaxRuns
    /\ faults \in 0..MaxFaults
    /\ since \in Int \cup {None}
    /\ backfilled \in Int \cup {None}
    /\ cut \subseteq Tiles
    /\ torn \subseteq Versions
    /\ raced \in BOOLEAN

(* Up to the end that the metadata of the ONLINE job record, no tile is    *)
(* missing or half computed since the first window: late runs, failed      *)
(* runs, overlapping runs and a disabled feature leave no gap, because a   *)
(* run starts where the recorded one ended (tile_task_executor.py:107).    *)
(* The only tiles that lack data are those that an OFFLINE window has cut. *)
NoTileSkipped ==
    metadata["ONLINE"] # None =>
        {k \in Tiles : Within(k, since, metadata["ONLINE"])} \subseteq Computed

(* The backfill computes its latest tiles before their late rows have had  *)
(* the blind spot to arrive.  The lookback of the first ONLINE window      *)
(* makes up for it: if that window starts early enough, every tile since   *)
(* the epoch has been computed from all its data (feature_manager.py:177). *)
HistoryComplete ==
    Settled /\ metadata["ONLINE"] # None =>
        {k \in Tiles : Within(k, 0, metadata["ONLINE"])} \subseteq Computed

(* An OFFLINE window ends an OFFLINE period before the window of an ONLINE *)
(* run at that time, so it never takes a row of the last period from a     *)
(* tile: the tiles that are cut start before (tile_task_executor.py:85).   *)
OnlyOldTilesCut == \A k \in cut : IndexToTime(k) + BlindSpot + OfflinePeriod < now

(* What readers are given always exists: every version that a document     *)
(* names has its rows in the online store table, in every interleaving and *)
(* after every failure (tile_schedule_online_store.py:120).                *)
ServedIsWritten ==
    \A i \in DOMAIN versions : rows[versions[i]] > 0

(* As long as no two runs read and update the version at a time, there is  *)
(* one document, and each version that is not torn was inserted once: no   *)
(* entity has two rows in it.  A race creates a second document, and       *)
(* get_versions then serves the one that is never updated again.           *)
ServedOnce ==
    ~raced => /\ Len(versions) <= 1
              /\ \A v \in Versions \ torn : rows[v] <= 1

(* When an ONLINE run publishes values for a job time, every tile up to    *)
(* that job time has been computed from all its data: none is missing, and *)
(* none lacks rows unless an OFFLINE window has cut it since.  An OFFLINE  *)
(* run promises less: it publishes without having generated the latest     *)
(* tiles.                                                                  *)
PublishedFromCompleteTiles ==
    \A v \in Versions :
        content[v] # None /\ content[v].kind = "ONLINE" => content[v].full

(* The due check of celery beat and the job time of the task, which are    *)
(* computed in different ways, agree: a job is due iff it has not been     *)
(* launched in the current interval, and the task that starts at this time *)
(* works for the start of this interval (schedulers.py:59,                 *)
(* tile_task_executor.py:264).                                             *)
BeatAndTaskAgree ==
    /\ CorrectJobTime(now) = IntervalStart(now)
    /\ \A t \in Types : job[t] # None =>
          LET i == Interval(t) IN
          IsDue(now, job[t], i) <=> IntervalOf(job[t], i) < IntervalOf(now, i)

(* A job is never launched twice in one interval (schedulers.py:59).       *)
OncePerInterval ==
    [][\A t \in Types :
          job[t] # None /\ job'[t] # None /\ job'[t] # job[t] =>
              IntervalOf(job[t], Interval(t)) < IntervalOf(job'[t], Interval(t))]_vars

(* Readers get values of an earlier job time than before only from an      *)
(* execution that was overtaken: a later one published while it was at     *)
(* work.  That can be a slow run, or an enabling task, which populates the *)
(* store for the time at which it has started (feature_manager.py:171).    *)
ServedTime == content[Served].job

ServedTimeAdvances ==
    [][~raced /\ versions # <<>> /\ ServedTime' < ServedTime =>
          \E s \in Slots : exec[s].overtaken /\ exec'[s] # exec[s]]_vars
=============================================================================
