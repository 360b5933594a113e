--------------------------- MODULE TileJobsProofs ---------------------------
(***************************************************************************)
(* Theorems about TileJobs, for any job setting, any number of executions  *)
(* that overlap, any clock and any number of faults.                       *)
(***************************************************************************)
EXTENDS TileJobs, JobScheduleProofs

TilesIn(start, end) == {k \in Tiles : Within(k, start, end)}

(* A job was launched in the past.                                         *)
Launched == \A t \in Types : job[t] # None => job[t] <= now

(* What ONLINE runs record are tile boundaries.                            *)
Grid ==
    /\ metadata["ONLINE"] # None => OnGrid(metadata["ONLINE"])
    /\ since # None => OnGrid(since)

(* The late rows of complete tiles have arrived.                           *)
Aged == \A k \in complete : IndexToTime(k + 1) + BlindSpot <= now

(* The first ONLINE window is known once the job has recorded anything.    *)
FirstKnown == metadata["ONLINE"] # None => since # None

(* What a backfill from the epoch has completed is only lost to a cut.     *)
BackfillKept == backfilled # None => TilesIn(0, backfilled) \subseteq Computed

(* The windows of a kind of execution are bounded by tile boundaries.      *)
Aligned(kind) == kind = "OFFLINE" => OfflinePeriod % Frequency = 0

NothingCut == Aligned("OFFLINE") => cut = {}

(* What an execution e knows, at time t, with "done" the computed tiles,   *)
(* "from" the first window, "ins" the inserted rows and "docs" the version *)
(* documents.                                                              *)
WindowPCs == {"generate", "record"}
PublishPCs == {"readVersion", "insert"}

WindowOK(e) ==
    /\ e.pc \in WindowPCs /\ Aligned(e.kind) => OnGrid(e.start) /\ OnGrid(e.end)
    /\ e.pc = "generate" /\ e.kind = "ENABLE" /\ e.first => e.start = BackfillStart(0)

OnlineOK(e, t, done, from) ==
    e.kind = "ONLINE" =>
        /\ e.pc \in WindowPCs \cup PublishPCs => e.end = e.job - BlindSpot /\ e.job <= t
        /\ e.pc \in WindowPCs /\ ~e.first => from # None /\ TilesIn(from, e.start) \subseteq done
        /\ e.pc = "record" => TilesIn(e.start, e.end) \subseteq done
        /\ e.pc \in PublishPCs => from # None /\ TilesIn(from, e.end) \subseteq done

OfflineOK(e, t) ==
    e.kind = "OFFLINE" /\ e.pc \in WindowPCs => e.end + BlindSpot + OfflinePeriod <= t

KindOK(e) ==
    /\ e.pc \in EnablePCs => e.kind = "ENABLE"
    /\ e.pc = "queued" => e.kind \in Types

VersionOK(e, ins, docs) ==
    /\ e.pc \in StorePCs /\ e.seen # None => docs # <<>>
    /\ e.pc = "writeVersion" =>
          NextVersion(e.seen) \in Versions /\ ins[NextVersion(e.seen)] > 0

ExecOK(e, t, done, from, ins, docs) ==
    /\ WindowOK(e) /\ KindOK(e)
    /\ OnlineOK(e, t, done, from)
    /\ OfflineOK(e, t)
    /\ VersionOK(e, ins, docs)

ExecutionsOK == \A s \in Slots : ExecOK(exec[s], now, Computed, since, rows, versions)

IInv ==
    /\ TypeOK
    /\ Launched /\ Grid /\ Aged /\ FirstKnown
    /\ NoTileSkipped /\ BackfillKept /\ OnlyOldTilesCut /\ NothingCut
    /\ ServedIsWritten /\ PublishedFromCompleteTiles
    /\ ExecutionsOK

-----------------------------------------------------------------------------
LEMMA Settings ==
    /\ Frequency \in Nat \ {0} /\ Modulo \in Int /\ BlindSpot \in Nat
    /\ OfflinePeriod \in Nat \ {0} /\ MonitorPeriods \in Nat
    /\ StartTime \in Nat /\ MaxTime \in Nat /\ MaxVersion \in Nat /\ MaxFaults \in Nat
    /\ MaxRuns \in Nat /\ None \notin Int
BY JobScheduleAssumption, TileJobsAssumption

LEMMA TilesAreNaturals ==
    /\ Tiles \subseteq Nat
    /\ \A k \in Tiles : /\ IndexToTime(k) \in Int /\ IndexToTime(k + 1) \in Int
                        /\ IndexToTime(k) >= 0
BY Settings, IndexToTimeInt DEF Tiles

(* A window between boundaries never takes a complete tile apart: it       *)
(* computes the whole tile again, or does not touch it.  Other windows may *)
(* only be those of OFFLINE runs, which may cut it.                        *)
LEMMA MergedKeeps ==
    ASSUME now \in Nat, complete \subseteq Tiles, Aged, NEW kind,
           NEW start, NEW end, Aligned(kind) => OnGrid(start) /\ OnGrid(end)
    PROVE  /\ complete \subseteq Merged(start, end) \cup CutBy(kind, start, end)
           /\ Aligned(kind) => CutBy(kind, start, end) = {}
<1> SUFFICES ASSUME NEW k \in complete
             PROVE  /\ k \in Merged(start, end) \cup CutBy(kind, start, end)
                    /\ Aligned(kind) => k \in Merged(start, end) /\ k \notin CutBy(kind, start, end)
  BY DEF CutBy
<1>1. k \in Tiles /\ k \in Int /\ IndexToTime(k + 1) + BlindSpot <= now
  BY TilesAreNaturals DEF Aged
<1>2. IndexToTime(k) \in Int /\ IndexToTime(k + 1) \in Int
  BY <1>1, IndexToTimeInt
<1>3. CASE Aligned(kind)
  <2>1. /\ start \in Int /\ (IndexToTime(k + 1) <= start \/ start <= IndexToTime(k))
        /\ end \in Int /\ (IndexToTime(k + 1) <= end \/ end <= IndexToTime(k))
    BY <1>1, <1>3, GridSplit
  <2>2. Touches(k, start, end) => Within(k, start, end)
    BY <1>2, <2>1 DEF Within, Touches
  <2> QED BY <1>1, <2>2 DEF Merged, CutBy
<1>4. CASE ~Aligned(kind)
  <2>1. kind = "OFFLINE"
    BY <1>4 DEF Aligned
  <2> QED BY <1>1, <1>4, <2>1 DEF Merged, CutBy
<1> QED BY <1>3, <1>4

LEMMA MergedType ==
    ASSUME now \in Nat, complete \subseteq Tiles, Aged, NEW start, NEW end
    PROVE  /\ Merged(start, end) \subseteq Tiles
           /\ \A k \in Merged(start, end) : IndexToTime(k + 1) + BlindSpot <= now
BY DEF Merged, Aged

(* A window that ends a blind spot ago is complete when it was computed.   *)
LEMMA MergedCompletes ==
    ASSUME now \in Nat, NEW start \in Int, NEW end \in Int, end + BlindSpot <= now
    PROVE  TilesIn(start, end) \subseteq Merged(start, end)
<1> SUFFICES ASSUME NEW k \in Tiles, Within(k, start, end)
             PROVE  k \in Merged(start, end)
  BY DEF TilesIn
<1>1. IndexToTime(k + 1) \in Int /\ IndexToTime(k + 1) <= end
  BY TilesAreNaturals DEF Within
<1>2. IndexToTime(k + 1) + BlindSpot <= now
  BY <1>1, Settings
<1> QED BY <1>2 DEF Merged

(* Tiles on both sides of a boundary are all the tiles.                    *)
LEMMA TilesJoin ==
    ASSUME NEW a \in Int, NEW b, OnGrid(b), NEW c \in Int, NEW d \in Int, d <= b,
           NEW done, TilesIn(a, b) \subseteq done, TilesIn(d, c) \subseteq done
    PROVE  TilesIn(a, c) \subseteq done
<1> SUFFICES ASSUME NEW k \in Tiles, Within(k, a, c) PROVE k \in done
  BY DEF TilesIn
<1>1. k \in Int /\ IndexToTime(k) \in Int /\ IndexToTime(k + 1) \in Int
  BY TilesAreNaturals
<1>2. b \in Int /\ (IndexToTime(k + 1) <= b \/ b <= IndexToTime(k))
  BY <1>1, GridSplit
<1>3. CASE IndexToTime(k + 1) <= b
  BY <1>3 DEF TilesIn, Within
<1>4. CASE b <= IndexToTime(k)
  BY <1>1, <1>2, <1>4 DEF TilesIn, Within
<1> QED BY <1>2, <1>3, <1>4

LEMMA TilesShrink ==
    ASSUME NEW a \in Int, NEW b \in Int, NEW c \in Int, NEW d \in Int, a <= b, d <= c
    PROVE  TilesIn(b, d) \subseteq TilesIn(a, c)
<1> SUFFICES ASSUME NEW k \in Tiles, Within(k, b, d) PROVE Within(k, a, c)
  BY DEF TilesIn
<1>1. IndexToTime(k) \in Int /\ IndexToTime(k + 1) \in Int
  BY TilesAreNaturals
<1> QED BY <1>1 DEF Within

(* What an execution knows remains true while time passes, tiles become    *)
(* complete, the first window moves on and versions are published.         *)
LEMMA ExecStays ==
    ASSUME NEW e \in Execution,
           NEW t \in Nat, NEW t2 \in Nat, t <= t2,
           NEW done, NEW done2, done \subseteq done2,
           NEW from \in Int \cup {None}, NEW from2 \in Int \cup {None},
           from # None => from2 # None /\ from <= from2,
           NEW ins \in [Versions -> Nat], NEW ins2 \in [Versions -> Nat],
           \A v \in Versions : ins[v] <= ins2[v],
           NEW docs, NEW docs2, docs # <<>> => docs2 # <<>>,
           ExecOK(e, t, done, from, ins, docs)
    PROVE  ExecOK(e, t2, done2, from2, ins2, docs2)
<1>1. WindowOK(e) /\ KindOK(e)
  BY DEF ExecOK
<1>2. VersionOK(e, ins2, docs2)
  <2>1. ASSUME e.pc = "writeVersion" PROVE ins2[NextVersion(e.seen)] > 0
    <3>1. NextVersion(e.seen) \in Versions /\ ins[NextVersion(e.seen)] > 0
      BY <2>1 DEF ExecOK, VersionOK
    <3> QED BY <3>1
  <2> QED BY <2>1 DEF ExecOK, VersionOK
<1>3. OnlineOK(e, t2, done2, from2)
  <2> SUFFICES ASSUME e.kind = "ONLINE" PROVE OnlineOK(e, t2, done2, from2)
    BY DEF OnlineOK
  <2>1. e.start \in Int /\ e.end \in Int /\ e.job \in Int
    BY DEF Execution
  <2>2. ASSUME e.pc \in WindowPCs, ~e.first
        PROVE  from2 # None /\ TilesIn(from2, e.start) \subseteq done2
    <3>1. from # None /\ TilesIn(from, e.start) \subseteq done
      BY <2>2 DEF ExecOK, OnlineOK
    <3> QED BY <2>1, <3>1, TilesShrink
  <2>3. ASSUME e.pc \in PublishPCs
        PROVE  from2 # None /\ TilesIn(from2, e.end) \subseteq done2
    <3>1. from # None /\ TilesIn(from, e.end) \subseteq done
      BY <2>3 DEF ExecOK, OnlineOK
    <3> QED BY <2>1, <3>1, TilesShrink
  <2>4. e.pc \in WindowPCs \cup PublishPCs => e.end = e.job - BlindSpot /\ e.job <= t2
    BY <2>1 DEF ExecOK, OnlineOK
  <2>5. e.pc = "record" => TilesIn(e.start, e.end) \subseteq done2
    BY DEF ExecOK, OnlineOK
  <2> QED BY <2>2, <2>3, <2>4, <2>5 DEF OnlineOK
<1>4. OfflineOK(e, t2)
  BY Settings DEF ExecOK, OfflineOK, Execution
<1> QED BY <1>1, <1>2, <1>3, <1>4 DEF ExecOK

LEMMA IdleOK ==
    ASSUME NEW t, NEW done, NEW from, NEW ins, NEW docs
    PROVE  Idle \in Execution /\ ExecOK(Idle, t, done, from, ins, docs)
BY Settings DEF Idle, Execution, PCs, Kinds, Types, ExecOK, WindowOK, OnlineOK, OfflineOK, KindOK, VersionOK,
   WindowPCs, PublishPCs, EnablePCs, StorePCs

(* A step that moves execution s to a good record e, and takes nothing     *)
(* away, leaves all executions good.                                       *)
StoreGrows ==
    /\ now' \in Nat /\ now <= now'
    /\ Computed \subseteq Computed'
    /\ since' \in Int \cup {None} /\ (since # None => since' # None /\ since <= since')
    /\ rows' \in [Versions -> Nat] /\ \A v \in Versions : rows[v] <= rows'[v]
    /\ versions # <<>> => versions' # <<>>

LEMMA OthersStay ==
    ASSUME TypeOK, ExecutionsOK, StoreGrows, NEW o \in Slots
    PROVE  ExecOK(exec[o], now', Computed', since', rows', versions')
<1>1. /\ exec[o] \in Execution /\ now \in Nat /\ since \in Int \cup {None}
      /\ rows \in [Versions -> Nat]
      /\ ExecOK(exec[o], now, Computed, since, rows, versions)
  BY DEF TypeOK, ExecutionsOK
<1> QED BY <1>1, ExecStays DEF StoreGrows

LEMMA SlotMoves ==
    ASSUME TypeOK, ExecutionsOK, StoreGrows,
           NEW s \in Slots, NEW e \in Execution,
           ExecOK(e, now', Computed', since', rows', versions'),
           exec' = [exec EXCEPT ![s] = e]
    PROVE  exec' \in [Slots -> Execution] /\ ExecutionsOK'
<1>1. exec \in [Slots -> Execution]
  BY DEF TypeOK
<1>2. ASSUME NEW o \in Slots
      PROVE  ExecOK(exec'[o], now', Computed', since', rows', versions')
  BY <1>1, OthersStay
<1> QED BY <1>1, <1>2 DEF ExecutionsOK

LEMMA Unmoved ==
    ASSUME TypeOK, now' = now, complete' = complete, cut' = cut, since' = since, rows' = rows,
           versions' = versions
    PROVE  StoreGrows
BY DEF TypeOK, StoreGrows, Computed

-----------------------------------------------------------------------------
(* Initially nothing has been launched, computed or published.             *)
LEMMA InitOK == Init => IInv
<1> SUFFICES ASSUME Init PROVE IInv
  OBVIOUS
<1>1. TypeOK
  <2>1. exec \in [Slots -> Execution]
    BY IdleOK DEF Init
  <2>2. /\ now \in Nat /\ runs \in 0..MaxRuns /\ faults \in 0..MaxFaults
        /\ rows \in [Versions -> Nat] /\ versions \in Seq(Versions)
    BY Settings DEF Init
  <2> QED BY <2>1, <2>2 DEF Init, TypeOK, DisablePCs
<1>2. ExecutionsOK
  BY IdleOK DEF Init, ExecutionsOK
<1>3. /\ Launched /\ Grid /\ Aged /\ FirstKnown /\ BackfillKept /\ ServedIsWritten
      /\ OnlyOldTilesCut /\ NothingCut
  BY DEF Init, Launched, Grid, Aged, FirstKnown, BackfillKept, ServedIsWritten, Types,
         OnlyOldTilesCut, NothingCut
<1>4. NoTileSkipped /\ PublishedFromCompleteTiles
  BY DEF Init, NoTileSkipped, PublishedFromCompleteTiles, Types
<1> QED BY <1>1, <1>2, <1>3, <1>4 DEF IInv

(* The parts of the invariant that say nothing of executions, when neither *)
(* tiles, metadata nor the store change.                                   *)
LEMMA StoreKept ==
    ASSUME IInv, now' \in Nat, now <= now',
           UNCHANGED <<metadata, complete, storeVars, since, backfilled, cut>>
    PROVE  /\ Grid' /\ Aged' /\ FirstKnown' /\ NoTileSkipped' /\ BackfillKept'
           /\ OnlyOldTilesCut' /\ NothingCut'
           /\ ServedIsWritten' /\ PublishedFromCompleteTiles'
<1>1. Grid' /\ FirstKnown' /\ NoTileSkipped' /\ ServedIsWritten' /\ PublishedFromCompleteTiles'
  BY DEF IInv, Grid, FirstKnown, NoTileSkipped, ServedIsWritten, PublishedFromCompleteTiles,
         storeVars, Computed
<1>2. BackfillKept' /\ NothingCut'
  BY DEF IInv, BackfillKept, NothingCut, Computed
<1>3. Aged'
  <2> SUFFICES ASSUME NEW k \in complete PROVE IndexToTime(k + 1) + BlindSpot <= now'
    BY DEF Aged
  <2>1. k \in Tiles /\ IndexToTime(k + 1) + BlindSpot <= now /\ now \in Nat
    BY DEF IInv, TypeOK, Aged
  <2> QED BY <2>1, TilesAreNaturals, Settings
<1>4. OnlyOldTilesCut'
  <2> SUFFICES ASSUME NEW k \in cut PROVE IndexToTime(k) + BlindSpot + OfflinePeriod < now'
    BY DEF OnlyOldTilesCut
  <2>1. k \in Tiles /\ IndexToTime(k) + BlindSpot + OfflinePeriod < now /\ now \in Nat
    BY DEF IInv, TypeOK, OnlyOldTilesCut
  <2> QED BY <2>1, TilesAreNaturals, Settings
<1> QED BY <1>1, <1>2, <1>3, <1>4

LEMMA TickOK == IInv /\ Tick => IInv'
<1> SUFFICES ASSUME IInv, Tick PROVE IInv'
  OBVIOUS
<1>1. /\ now \in Nat /\ now' = now + 1
      /\ UNCHANGED <<job, query, disabling, metadata, complete, storeVars, exec, runs, faults, history>>
  BY DEF IInv, TypeOK, Tick
<1>2. TypeOK'
  BY <1>1 DEF IInv, TypeOK, storeVars, history
<1>3. StoreGrows
  BY <1>1 DEF IInv, TypeOK, StoreGrows, storeVars, history, Computed
<1>4. ExecutionsOK'
  BY <1>1, <1>3, OthersStay DEF IInv, ExecutionsOK
<1>5. Launched'
  BY <1>1 DEF IInv, TypeOK, Launched
<1> QED BY <1>1, <1>2, <1>4, <1>5, StoreKept DEF IInv, history

(* The steps of online_disable only take jobs away.                        *)
LEMMA DisableOK ==
    ASSUME IInv, \/ Disable \/ DisableFails
                 \/ StopJob("ONLINE", "stopOnline", "stopOffline")
                 \/ StopJob("OFFLINE", "stopOffline", "no")
    PROVE  IInv'
<1>1. /\ UNCHANGED <<now, metadata, complete, storeVars, exec, history>>
      /\ query' = FALSE \/ query' = query
      /\ disabling' \in DisablePCs
      /\ job' = job \/ \E t \in Types : job' = [job EXCEPT ![t] = None]
  BY DEF Disable, DisableFails, StopJob, DisablePCs, Types
<1>2. runs' \in 0..MaxRuns /\ faults' \in 0..MaxFaults
  <2>1. runs \in 0..MaxRuns /\ faults \in 0..MaxFaults /\ MaxRuns \in Nat /\ MaxFaults \in Nat
    BY Settings DEF IInv, TypeOK
  <2>2. runs' = runs \/ (runs < MaxRuns /\ runs' = runs + 1)
    BY DEF Disable, DisableFails, StopJob
  <2>3. faults' = faults \/ (faults < MaxFaults /\ faults' = faults + 1)
    BY DEF Disable, DisableFails, StopJob
  <2> QED BY <2>1, <2>2, <2>3
<1>3. job' \in [Types -> Nat \cup {None}] /\ \A t \in Types : job'[t] \in {job[t], None}
  BY <1>1 DEF IInv, TypeOK
<1>4. TypeOK' /\ now' \in Nat /\ now <= now'
  <2>1. UNCHANGED <<now, metadata, complete, rows, content, versions, exec,
                    since, backfilled, cut, torn, raced>>
    BY <1>1 DEF storeVars, history
  <2>2. query' \in BOOLEAN
    BY <1>1 DEF IInv, TypeOK
  <2> QED BY <1>1, <1>2, <1>3, <2>1, <2>2 DEF IInv, TypeOK
<1>5. ExecutionsOK'
  BY <1>1 DEF IInv, ExecutionsOK, storeVars, history, Computed
<1>6. Launched'
  BY <1>1, <1>3 DEF IInv, Launched
<1> QED BY <1>1, <1>4, <1>5, <1>6, StoreKept DEF IInv, history

(* An action that only moves one execution and changes jobs.               *)
LEMMA MoveOK ==
    ASSUME IInv, NEW s \in Slots, NEW e \in Execution,
           ExecOK(e, now, Computed, since, rows, versions),
           exec' = [exec EXCEPT ![s] = e],
           UNCHANGED <<now, disabling, metadata, complete, storeVars, since, backfilled, cut>>,
           job' \in [Types -> Nat \cup {None}], Launched', query' \in BOOLEAN,
           runs' \in 0..MaxRuns, faults' \in 0..MaxFaults,
           torn' \subseteq Versions, raced' \in BOOLEAN
    PROVE  IInv'
<1>1. StoreGrows
  BY Unmoved DEF IInv, storeVars
<1>2. exec' \in [Slots -> Execution] /\ ExecutionsOK'
  BY <1>1, SlotMoves DEF IInv, storeVars, Computed
<1>3. TypeOK' /\ now' \in Nat /\ now <= now'
  BY <1>2 DEF IInv, TypeOK, storeVars
<1> QED BY <1>2, <1>3, StoreKept DEF IInv

LEMMA JobsKept == IInv /\ UNCHANGED <<job, now>> => Launched' /\ job' \in [Types -> Nat \cup {None}]
BY DEF IInv, TypeOK, Launched

(* A further execution stays within the bound.                             *)
LEMMA RunCounted ==
    ASSUME MaxRuns \in Nat, runs \in 0..MaxRuns, runs < MaxRuns, runs' = runs + 1
    PROVE  runs' \in 0..MaxRuns
OBVIOUS

LEMMA LaunchOK ==
    ASSUME IInv, NEW s \in Slots, NEW type \in Types, Launch(s, type)
    PROVE  IInv'
<1> DEFINE e == [Idle EXCEPT !.pc = "queued", !.kind = type]
<1>1. e \in Execution /\ e.pc = "queued" /\ e.kind = type
  BY IdleOK DEF Idle, Execution, PCs, Kinds
<1>2. ExecOK(e, now, Computed, since, rows, versions)
  BY <1>1 DEF ExecOK, WindowOK, OnlineOK, OfflineOK, KindOK, VersionOK, WindowPCs, PublishPCs, EnablePCs,
              StorePCs
<1>3. Launched' /\ job' \in [Types -> Nat \cup {None}]
  BY DEF IInv, TypeOK, Launch, Launched
<1>4. runs' \in 0..MaxRuns
  <2>1. runs \in 0..MaxRuns /\ MaxRuns \in Nat
    BY Settings DEF IInv, TypeOK
  <2>2. runs < MaxRuns /\ runs' = runs + 1
    BY DEF Launch
  <2> QED
    BY <2>1, <2>2, RunCounted
<1> HIDE DEF e
<1>5. exec' = [exec EXCEPT ![s] = e]
  BY DEF Launch, e
<1>6. /\ UNCHANGED <<now, disabling, metadata, complete, storeVars, since, backfilled, cut>>
      /\ query' \in BOOLEAN /\ faults' \in 0..MaxFaults
      /\ torn' \subseteq Versions /\ raced' \in BOOLEAN
  BY DEF IInv, TypeOK, Launch, history, storeVars
<1> QED BY <1>1, <1>2, <1>3, <1>4, <1>5, <1>6, MoveOK

LEMMA EnableOK ==
    ASSUME IInv, NEW s \in Slots, Enable(s)
    PROVE  IInv'
<1> DEFINE pc == IF job["ONLINE"] = None THEN "startOnline" ELSE "readVersion"
           e == [Idle EXCEPT !.pc = pc, !.kind = "ENABLE",
                             !.job = NextJobTime(now) - Frequency, !.populate = ~query]
<1>0. NextJobTime(now) - Frequency \in Int /\ query \in BOOLEAN
  BY Settings, NextJobAfter DEF IInv, TypeOK
<1>1. e \in Execution /\ e.pc \in {"startOnline", "readVersion"} /\ e.kind = "ENABLE"
  BY <1>0, IdleOK DEF Idle, Execution, PCs, EnablePCs, Kinds
<1>2. ExecOK(e, now, Computed, since, rows, versions)
  BY <1>1 DEF ExecOK, WindowOK, OnlineOK, OfflineOK, KindOK, VersionOK, WindowPCs, PublishPCs, EnablePCs,
              StorePCs
<1>3. Launched' /\ job' \in [Types -> Nat \cup {None}]
  BY JobsKept DEF Enable
<1>4. runs' \in 0..MaxRuns
  <2>1. runs \in 0..MaxRuns /\ MaxRuns \in Nat
    BY Settings DEF IInv, TypeOK
  <2>2. runs < MaxRuns /\ runs' = runs + 1
    BY DEF Enable
  <2> QED
    BY <2>1, <2>2, RunCounted
<1> HIDE DEF e
<1>5. exec' = [exec EXCEPT ![s] = e]
  BY DEF Enable, e
<1>6. /\ UNCHANGED <<now, disabling, metadata, complete, storeVars, since, backfilled, cut>>
      /\ query' \in BOOLEAN /\ faults' \in 0..MaxFaults
      /\ torn' \subseteq Versions /\ raced' \in BOOLEAN
  BY DEF IInv, TypeOK, Enable, history, storeVars
<1> QED BY <1>1, <1>2, <1>3, <1>4, <1>5, <1>6, MoveOK

(* What holds of a slot, spelled out.                                      *)
LEMMA SlotFacts ==
    ASSUME IInv, NEW s \in Slots
    PROVE  /\ exec \in [Slots -> Execution] /\ exec[s] \in Execution
           /\ ExecOK(exec[s], now, Computed, since, rows, versions)
           /\ now \in Nat /\ complete \subseteq Tiles
           /\ metadata \in [Types -> Int \cup {None}]
           /\ rows \in [Versions -> Nat] /\ versions \in Seq(Versions)
           /\ since \in Int \cup {None} /\ backfilled \in Int \cup {None}
BY DEF IInv, TypeOK, ExecutionsOK

LEMMA ScheduleTilesOK ==
    ASSUME IInv, NEW s \in Slots, NEW type \in Types, NEW pc \in EnablePCs,
           NEW next \in EnablePCs, ScheduleTiles(s, type, pc, next)
    PROVE  IInv'
<1> DEFINE e == [exec[s] EXCEPT !.pc = next]
<1>1. e \in Execution /\ e.pc = next /\ e.kind = exec[s].kind
  BY SlotFacts DEF Execution, PCs
<1>2. e.kind = "ENABLE"
  BY <1>1, SlotFacts DEF ScheduleTiles, At, ExecOK, KindOK
<1>3. ExecOK(e, now, Computed, since, rows, versions)
  BY <1>1, <1>2 DEF ExecOK, WindowOK, OnlineOK, OfflineOK, KindOK, VersionOK, WindowPCs, PublishPCs,
                    EnablePCs, StorePCs
<1>4. Launched' /\ job' \in [Types -> Nat \cup {None}]
  BY DEF IInv, TypeOK, ScheduleTiles, Launched
<1>5. exec' = [exec EXCEPT ![s] = e]
  BY SlotFacts DEF ScheduleTiles, Goto
<1> HIDE DEF e
<1>6. /\ UNCHANGED <<now, disabling, metadata, complete, storeVars, since, backfilled, cut>>
      /\ query' \in BOOLEAN /\ faults' \in 0..MaxFaults /\ runs' \in 0..MaxRuns
      /\ torn' \subseteq Versions /\ raced' \in BOOLEAN
  BY DEF IInv, TypeOK, ScheduleTiles, history, storeVars
<1> QED BY <1>1, <1>3, <1>4, <1>5, <1>6, MoveOK

LEMMA PlanBackfillOK ==
    ASSUME IInv, NEW s \in Slots, PlanBackfill(s)
    PROVE  IInv'
<1> DEFINE from == IF metadata["OFFLINE"] = None THEN 0 ELSE metadata["OFFLINE"]
           e == [exec[s] EXCEPT !.pc = "generate", !.start = BackfillStart(from),
                                !.end = BackfillEnd(now),
                                !.first = metadata["OFFLINE"] = None]
<1>1. from \in Int /\ now \in Int /\ (metadata["OFFLINE"] = None => from = 0)
  BY SlotFacts DEF Types
<1>2. /\ BackfillStart(from) \in Int /\ OnGrid(BackfillStart(from))
      /\ BackfillEnd(now) \in Int /\ OnGrid(BackfillEnd(now))
  BY <1>1, TileOfTime, IndexToTimeInt DEF BackfillStart, BackfillEnd, OnGrid
<1> HIDE DEF from
<1>3. /\ e \in Execution /\ e.pc = "generate" /\ e.kind = exec[s].kind
      /\ e.start = BackfillStart(from) /\ e.end = BackfillEnd(now)
      /\ e.first = (metadata["OFFLINE"] = None)
  BY <1>2, SlotFacts DEF Execution, PCs
<1>4. e.kind = "ENABLE"
  BY <1>3, SlotFacts DEF PlanBackfill, At, ExecOK, KindOK, EnablePCs
<1>5. exec' = [exec EXCEPT ![s] = e]
  BY SlotFacts DEF PlanBackfill, from
<1> HIDE DEF e
<1>6. ExecOK(e, now, Computed, since, rows, versions)
  <2>1. WindowOK(e)
    BY <1>1, <1>2, <1>3 DEF WindowOK
  <2> QED BY <1>3, <1>4, <2>1 DEF ExecOK, OnlineOK, OfflineOK, KindOK, VersionOK, EnablePCs, StorePCs
<1>7. Launched' /\ job' \in [Types -> Nat \cup {None}]
  BY JobsKept DEF PlanBackfill
<1>8. /\ UNCHANGED <<now, disabling, metadata, complete, storeVars, since, backfilled, cut>>
      /\ query' \in BOOLEAN /\ faults' \in 0..MaxFaults /\ runs' \in 0..MaxRuns
      /\ torn' \subseteq Versions /\ raced' \in BOOLEAN
  BY DEF IInv, TypeOK, PlanBackfill, history, storeVars
<1> QED BY <1>3, <1>5, <1>6, <1>7, <1>8, MoveOK

(* A run starts with a window between boundaries, which continues what the *)
(* ONLINE job has recorded.                                                *)
LEMMA StartRunOK ==
    ASSUME IInv, NEW s \in Slots, StartRun(s)
    PROVE  IInv'
<1> DEFINE type == exec[s].kind
           j == CorrectJobTime(now)
           e == [exec[s] EXCEPT !.pc = "generate", !.job = JobTimeOf(type),
                                !.start = ExtendedStart(type), !.end = WindowEnd(type, j),
                                !.first = metadata["ONLINE"] = None]
<1>1. /\ type \in Types /\ now \in Nat /\ metadata["ONLINE"] \in Int \cup {None}
  BY SlotFacts DEF StartRun, At, ExecOK, KindOK, Types
<1>2. /\ j \in Int /\ j <= now
      /\ Aligned(type) => OnGrid(WindowStart(type, j)) /\ OnGrid(WindowEnd(type, j))
  BY <1>1, JobTimeIsIntervalStart, WindowsOnGrid DEF Types, Aligned
<1>3. WindowStart(type, j) \in Int /\ WindowEnd(type, j) \in Int
  <2>1. Frequency * (MonitorPeriods + 1) \in Int /\ OfflinePeriod \in Int /\ BlindSpot \in Int
    BY Settings
  <2> QED BY <1>2, <2>1 DEF WindowStart, WindowEnd, Lookback
<1>4. /\ ExtendedStart(type) \in Int
      /\ Aligned(type) => OnGrid(ExtendedStart(type))
      /\ metadata["ONLINE"] # None => ExtendedStart(type) <= metadata["ONLINE"]
  <2>1. metadata["ONLINE"] # None => OnGrid(metadata["ONLINE"])
    BY DEF IInv, Grid, Types
  <2> QED BY <1>1, <1>2, <1>3, <2>1 DEF ExtendedStart
<1> HIDE DEF type, j
<1>5. /\ e \in Execution /\ e.pc = "generate" /\ e.kind = type /\ e.job = j
      /\ e.start = ExtendedStart(type) /\ e.end = WindowEnd(type, j)
      /\ e.first = (metadata["ONLINE"] = None)
  BY <1>2, <1>3, <1>4, SlotFacts DEF Execution, PCs, JobTimeOf, j, type
<1>6. exec' = [exec EXCEPT ![s] = e]
  BY SlotFacts DEF StartRun, type, j
<1> HIDE DEF e
<1>7. OnlineOK(e, now, Computed, since)
  <2> SUFFICES ASSUME type = "ONLINE"
               PROVE  /\ e.end = e.job - BlindSpot /\ e.job <= now
                      /\ ~e.first => since # None /\ TilesIn(since, e.start) \subseteq Computed
    BY <1>5 DEF OnlineOK, PublishPCs
  <2>1. e.end = e.job - BlindSpot
    BY <1>2, <1>5, Settings DEF WindowEnd
  <2>2. ASSUME metadata["ONLINE"] # None
        PROVE  since # None /\ TilesIn(since, e.start) \subseteq Computed
    <3>1. since # None /\ TilesIn(since, metadata["ONLINE"]) \subseteq Computed
      BY <2>2 DEF IInv, FirstKnown, NoTileSkipped, TilesIn
    <3>2. TilesIn(since, e.start) \subseteq TilesIn(since, metadata["ONLINE"])
      BY <1>1, <1>4, <1>5, <2>2, <3>1, SlotFacts, TilesShrink
    <3> QED BY <3>1, <3>2
  <2> QED BY <1>2, <1>5, <2>1, <2>2
<1>8. ExecOK(e, now, Computed, since, rows, versions)
  <2>1. OfflineOK(e, now)
    BY <1>1, <1>2, <1>5, Settings DEF OfflineOK, WindowEnd
  <2> QED BY <1>1, <1>2, <1>4, <1>5, <1>7, <2>1
             DEF ExecOK, WindowOK, KindOK, VersionOK, EnablePCs, StorePCs, Types
<1>9. Launched' /\ job' \in [Types -> Nat \cup {None}]
  BY JobsKept DEF StartRun
<1>10. /\ UNCHANGED <<now, disabling, metadata, complete, storeVars, since, backfilled, cut>>
       /\ query' \in BOOLEAN /\ faults' \in 0..MaxFaults /\ runs' \in 0..MaxRuns
       /\ torn' \subseteq Versions /\ raced' \in BOOLEAN
  BY DEF IInv, TypeOK, StartRun, history, storeVars
<1> QED BY <1>5, <1>6, <1>8, <1>9, <1>10, MoveOK

LEMMA NoQueryOK ==
    ASSUME IInv, NEW s \in Slots, NoQuery(s)
    PROVE  IInv'
<1>1. Launched' /\ job' \in [Types -> Nat \cup {None}]
  BY JobsKept DEF NoQuery
<1>2. /\ UNCHANGED <<now, disabling, metadata, complete, storeVars, since, backfilled, cut>>
      /\ query' \in BOOLEAN /\ faults' \in 0..MaxFaults /\ runs' \in 0..MaxRuns
      /\ torn' \subseteq Versions /\ raced' \in BOOLEAN
  BY DEF IInv, TypeOK, NoQuery, history, storeVars
<1> QED BY <1>1, <1>2, IdleOK, MoveOK DEF NoQuery, Ends

LEMMA FaultOK ==
    ASSUME IInv, NEW s \in Slots, Fault(s)
    PROVE  IInv'
<1>1. Launched' /\ job' \in [Types -> Nat \cup {None}]
  BY JobsKept DEF Fault
<1>2. torn' \subseteq Versions
  BY SlotFacts DEF IInv, TypeOK, Fault, At, ExecOK, VersionOK
<1>3. faults' \in 0..MaxFaults
  BY Settings DEF IInv, TypeOK, Fault
<1>4. /\ UNCHANGED <<now, disabling, metadata, complete, storeVars, since, backfilled, cut>>
      /\ query' \in BOOLEAN /\ runs' \in 0..MaxRuns /\ raced' \in BOOLEAN
  BY DEF IInv, TypeOK, Fault, storeVars
<1> QED BY <1>1, <1>2, <1>3, <1>4, IdleOK, MoveOK DEF Fault, Ends

(* A merge loses tiles only to a cut, and those of a run that waited for   *)
(* late rows are all complete then.                                        *)
LEMMA GenerateOK ==
    ASSUME IInv, NEW s \in Slots, Generate(s)
    PROVE  IInv'
<1> DEFINE start == exec[s].start
           end == exec[s].end
           kind == exec[s].kind
           e == [exec[s] EXCEPT !.pc = "record"]
<1>1. /\ exec[s] \in Execution /\ exec[s].pc = "generate"
      /\ now \in Nat /\ complete \subseteq Tiles /\ cut \subseteq Tiles /\ Aged
      /\ start \in Int /\ end \in Int
      /\ Aligned(kind) => OnGrid(start) /\ OnGrid(end)
  BY SlotFacts DEF Generate, At, IInv, TypeOK, ExecOK, WindowOK, WindowPCs, Execution
<1>2. /\ complete' = Merged(start, end) /\ complete' \subseteq Tiles /\ Aged'
      /\ cut' = (cut \cup CutBy(kind, start, end)) \ complete' /\ cut' \subseteq Tiles
      /\ Computed \subseteq Computed' /\ complete' \subseteq Computed'
  <2>1. now' = now /\ complete' = Merged(start, end)
        /\ cut' = (cut \cup CutBy(kind, start, end)) \ complete'
    BY DEF Generate
  <2>2. complete \subseteq Merged(start, end) \cup CutBy(kind, start, end)
    BY <1>1, MergedKeeps
  <2>3. CutBy(kind, start, end) \subseteq Tiles
    BY <1>1 DEF CutBy
  <2> HIDE DEF start, end, kind
  <2> QED BY <1>1, <2>1, <2>2, <2>3, MergedType DEF Aged, Computed
<1>3. /\ UNCHANGED <<now, job, metadata, query, disabling, rows, content, versions, runs,
                     faults, since, torn, raced>>
      /\ exec' = [exec EXCEPT ![s] = e]
  BY SlotFacts DEF Generate, Goto, storeVars
<1>4. StoreGrows
  BY <1>2, <1>3, SlotFacts DEF StoreGrows
<1>5. e \in Execution /\ e.pc = "record" /\ e.kind = exec[s].kind /\ e.start = start /\ e.end = end
      /\ e.first = exec[s].first /\ e.job = exec[s].job
  BY <1>1 DEF Execution, PCs
<1>6. ExecOK(e, now, Computed', since, rows, versions)
  <2>1. WindowOK(e) /\ KindOK(e) /\ VersionOK(e, rows, versions)
    BY <1>1, <1>5 DEF WindowOK, KindOK, VersionOK, EnablePCs, StorePCs
  <2>2. OnlineOK(e, now, Computed', since)
    <3>1. OnlineOK(exec[s], now, Computed, since)
      BY SlotFacts DEF ExecOK
    <3>2. e.kind = "ONLINE" => end + BlindSpot <= now /\ end = e.job - BlindSpot /\ e.job <= now
      BY <1>1, <1>5, <3>1, Settings DEF OnlineOK, WindowPCs, Execution
    <3>3. e.kind = "ONLINE" => TilesIn(start, end) \subseteq Computed'
      BY <1>1, <1>2, <3>2, MergedCompletes
    <3>4. e.kind = "ONLINE" /\ ~e.first => since # None /\ TilesIn(since, start) \subseteq Computed'
      BY <1>1, <1>2, <1>5, <3>1 DEF OnlineOK, WindowPCs
    <3> QED BY <1>5, <3>2, <3>3, <3>4 DEF OnlineOK, PublishPCs
  <2>3. OfflineOK(e, now)
    BY <1>1, <1>5, SlotFacts DEF ExecOK, OfflineOK, WindowPCs
  <2> QED BY <2>1, <2>2, <2>3 DEF ExecOK
<1> HIDE DEF e
<1>7. exec' \in [Slots -> Execution] /\ ExecutionsOK'
  BY <1>3, <1>4, <1>5, <1>6, SlotMoves DEF IInv
<1>8. backfilled' \in Int \cup {None} /\ BackfillKept'
  <2>1. backfilled' = backfilled \/
          /\ backfilled' = Earlier(end, now - BlindSpot)
          /\ exec[s].kind = "ENABLE" /\ exec[s].first
    BY DEF Generate, Later
  <2>2. CASE backfilled' = backfilled
    BY <1>2, <2>2, SlotFacts DEF IInv, BackfillKept
  <2>3. CASE /\ backfilled' = Earlier(end, now - BlindSpot)
             /\ exec[s].kind = "ENABLE" /\ exec[s].first
    <3>1. /\ backfilled' \in Int /\ backfilled' <= end /\ backfilled' + BlindSpot <= now
      BY <1>1, <2>3, Settings DEF Earlier
    <3>2. start = BackfillStart(0)
      BY <1>1, <2>3, SlotFacts DEF ExecOK, WindowOK
    <3>3. ASSUME NEW k \in Tiles, Within(k, 0, backfilled') PROVE k \in complete'
      <4>1. /\ k \in Nat /\ IndexToTime(k) \in Int /\ IndexToTime(k + 1) \in Int
            /\ IndexToTime(k) >= 0
        BY TilesAreNaturals
      <4>2. start <= IndexToTime(k)
        BY <3>2, <4>1, BackfillFromEpoch
      <4>3. IndexToTime(k + 1) <= end /\ IndexToTime(k + 1) + BlindSpot <= now
        <5> DEFINE b == backfilled'
                   t == IndexToTime(k + 1)
        <5>1. t <= b /\ now \in Int /\ BlindSpot \in Int /\ t \in Int
          BY <1>1, <3>3, <4>1, Settings DEF Within
        <5>2. end \in Int /\ b \in Int /\ b <= end /\ b + BlindSpot <= now
          BY <1>1, <3>1
        <5> HIDE DEF b, t, end
        <5>3. t <= end /\ t + BlindSpot <= now
          BY <5>1, <5>2
        <5> QED BY <5>3 DEF t
      <4> QED BY <1>2, <4>2, <4>3 DEF Merged, Within
    <3> QED BY <1>2, <3>1, <3>3 DEF BackfillKept, TilesIn
  <2> QED BY <2>1, <2>2, <2>3
<1>9. TypeOK'
  BY <1>2, <1>3, <1>7, <1>8 DEF IInv, TypeOK
<1>10. Launched' /\ Grid' /\ FirstKnown' /\ ServedIsWritten' /\ PublishedFromCompleteTiles'
  BY <1>3 DEF IInv, Launched, Grid, FirstKnown, ServedIsWritten, PublishedFromCompleteTiles
<1>11. NoTileSkipped'
  BY <1>2, <1>3 DEF IInv, NoTileSkipped
<1>12. OnlyOldTilesCut'
  <2> SUFFICES ASSUME NEW k \in CutBy(kind, start, end)
               PROVE  IndexToTime(k) + BlindSpot + OfflinePeriod < now
    BY <1>2, <1>3 DEF IInv, OnlyOldTilesCut
  <2>1. kind = "OFFLINE" /\ k \in Tiles /\ IndexToTime(k) < end
    BY <1>1 DEF CutBy, Touches
  <2>2. end + BlindSpot + OfflinePeriod <= now
    BY <1>1, <2>1, SlotFacts DEF ExecOK, OfflineOK, WindowPCs
  <2> QED BY <1>1, <2>1, <2>2, TilesAreNaturals, Settings
<1>13. NothingCut'
  <2> SUFFICES ASSUME Aligned("OFFLINE") PROVE cut' = {}
    BY DEF NothingCut, Aligned
  <2>1. Aligned(kind) /\ cut = {}
    BY DEF Aligned, IInv, NothingCut
  <2>2. CutBy(kind, start, end) = {}
    BY <1>1, <2>1, MergedKeeps
  <2> QED BY <1>2, <2>1, <2>2
<1> QED BY <1>2, <1>7, <1>8, <1>9, <1>10, <1>11, <1>12, <1>13 DEF IInv

(* What a run records as generated has no gap behind it.                   *)
LEMMA RecordOK ==
    ASSUME IInv, NEW s \in Slots, Record(s)
    PROVE  IInv'
<1> DEFINE x == exec[s]
           online == x.kind = "ONLINE"
           t == RecordedType(x.kind)
<1>1. /\ x \in Execution /\ x.pc = "record"
      /\ online => OnGrid(x.start) /\ OnGrid(x.end)
      /\ x.start \in Int /\ x.end \in Int /\ x.job \in Int
      /\ OnlineOK(x, now, Computed, since) /\ since \in Int \cup {None}
      /\ now \in Nat /\ t \in Types /\ (t = "ONLINE" <=> online)
  BY SlotFacts DEF Record, At, ExecOK, WindowOK, WindowPCs, Execution, RecordedType, Types,
                   Aligned
<1>2. /\ UNCHANGED <<now, job, query, disabling, complete, rows, content, versions, runs,
                     faults, backfilled, cut, torn, raced>>
      /\ Computed' = Computed
      /\ metadata' = [metadata EXCEPT ![t] = x.end]
      /\ since' = IF online /\ x.first THEN Later(since, x.start) ELSE since
  BY DEF Record, storeVars, Computed
<1>3. /\ since' \in Int \cup {None} /\ (since # None => since' # None /\ since <= since')
      /\ since' # None => OnGrid(since')
  BY <1>1, <1>2, Settings DEF IInv, Grid, Later
<1>4. online => /\ since' # None
                /\ TilesIn(since', x.end) \subseteq Computed
  <2> SUFFICES ASSUME online PROVE since' # None /\ TilesIn(since', x.end) \subseteq Computed
    OBVIOUS
  <2>1. TilesIn(x.start, x.end) \subseteq Computed
    BY <1>1 DEF OnlineOK
  <2>2. CASE x.first
    <3>1. since' # None /\ since' \in Int /\ x.start <= since'
      BY <1>1, <1>2, <2>2, Settings DEF Later
    <3>2. TilesIn(since', x.end) \subseteq TilesIn(x.start, x.end)
      BY <1>1, <3>1, TilesShrink
    <3> QED BY <2>1, <3>1, <3>2
  <2>3. CASE ~x.first
    <3>1. since # None /\ since' = since /\ TilesIn(since, x.start) \subseteq Computed
      BY <1>1, <1>2, <2>3 DEF OnlineOK, WindowPCs
    <3>2. since \in Int /\ x.start <= x.start
      BY <1>1, <3>1
    <3> QED BY <1>1, <2>1, <3>1, <3>2, TilesJoin
  <2> QED BY <1>1, <2>2, <2>3 DEF Execution
<1> HIDE DEF x, online, t
<1>5. StoreGrows
  BY <1>2, <1>3, SlotFacts DEF StoreGrows
<1>6. exec' \in [Slots -> Execution] /\ ExecutionsOK'
  <2>1. CASE exec' = [exec EXCEPT ![s] = Idle]
    BY <1>5, <2>1, IdleOK, SlotMoves DEF IInv
  <2>2. CASE exec' = [exec EXCEPT ![s].pc = "readVersion"]
    <3> DEFINE e == [x EXCEPT !.pc = "readVersion"]
    <3>1. e \in Execution /\ e.pc = "readVersion" /\ e.kind = x.kind /\ e.end = x.end /\ e.job = x.job
      BY <1>1 DEF Execution, PCs
    <3>2. exec' = [exec EXCEPT ![s] = e]
      BY <2>2, SlotFacts DEF x
    <3> HIDE DEF e
    <3>3. OnlineOK(e, now', Computed', since')
      BY <1>1, <1>2, <1>4, <3>1 DEF OnlineOK, online, WindowPCs, PublishPCs
    <3>4. ExecOK(e, now', Computed', since', rows', versions')
      BY <3>1, <3>3 DEF ExecOK, WindowOK, KindOK, OfflineOK, VersionOK, WindowPCs, EnablePCs, StorePCs
    <3> QED BY <1>5, <3>1, <3>2, <3>4, SlotMoves DEF IInv
  <2> QED BY <2>1, <2>2 DEF Record, Ends, Goto
<1>7. metadata' \in [Types -> Int \cup {None}]
  BY <1>1, <1>2, SlotFacts
<1>8. TypeOK'
  BY <1>2, <1>3, <1>6, <1>7 DEF IInv, TypeOK
<1>9. /\ Launched' /\ Aged' /\ BackfillKept' /\ ServedIsWritten' /\ PublishedFromCompleteTiles'
      /\ OnlyOldTilesCut' /\ NothingCut'
  BY <1>2 DEF IInv, Launched, Aged, BackfillKept, ServedIsWritten, PublishedFromCompleteTiles,
              OnlyOldTilesCut, NothingCut
<1>10. Grid'
  BY <1>1, <1>2, <1>3, SlotFacts DEF IInv, Grid
<1>11. FirstKnown' /\ NoTileSkipped'
  <2>1. CASE online
    <3>1. metadata'["ONLINE"] = x.end
      BY <1>1, <1>2, <2>1, SlotFacts DEF Types
    <3> QED BY <1>2, <1>4, <2>1, <3>1 DEF FirstKnown, NoTileSkipped, TilesIn
  <2>2. CASE ~online
    <3>1. metadata'["ONLINE"] = metadata["ONLINE"] /\ since' = since
      BY <1>1, <1>2, <2>2, SlotFacts DEF Types
    <3> QED BY <1>2, <3>1 DEF IInv, FirstKnown, NoTileSkipped
  <2> QED BY <2>1, <2>2
<1> QED BY <1>6, <1>8, <1>9, <1>10, <1>11 DEF IInv

LEMMA ReadVersionOK ==
    ASSUME IInv, NEW s \in Slots, ReadVersion(s)
    PROVE  IInv'
<1> DEFINE seen == IF versions = <<>> THEN None ELSE Head(versions)
           e == [exec[s] EXCEPT !.pc = "insert", !.seen = seen]
<1>1. seen \in Versions \cup {None} /\ (seen # None => versions # <<>>)
  BY SlotFacts
<1> HIDE DEF seen
<1>2. /\ e \in Execution /\ e.pc = "insert" /\ e.seen = seen
      /\ e.kind = exec[s].kind /\ e.end = exec[s].end /\ e.job = exec[s].job
  BY <1>1, SlotFacts DEF Execution, PCs, StorePCs
<1>3. exec' = [exec EXCEPT ![s] = e]
  BY SlotFacts DEF ReadVersion, seen
<1> HIDE DEF e
<1>4. OnlineOK(e, now, Computed, since)
  BY <1>2, SlotFacts DEF ReadVersion, At, ExecOK, OnlineOK, WindowPCs, PublishPCs
<1>5. ExecOK(e, now, Computed, since, rows, versions)
  BY <1>1, <1>2, <1>4 DEF ExecOK, WindowOK, KindOK, OfflineOK, VersionOK, WindowPCs, EnablePCs
<1>6. Launched' /\ job' \in [Types -> Nat \cup {None}]
  BY JobsKept DEF ReadVersion
<1>7. raced' \in BOOLEAN
  <2>1. raced' = (raced \/ \E o \in Slots \ {s} : exec[o].pc \in StorePCs)
    BY DEF ReadVersion
  <2> QED BY <2>1
<1>8. /\ UNCHANGED <<now, disabling, metadata, complete, storeVars, since, backfilled, cut>>
      /\ query' \in BOOLEAN /\ faults' \in 0..MaxFaults /\ runs' \in 0..MaxRuns
      /\ torn' \subseteq Versions
  BY DEF IInv, TypeOK, ReadVersion, storeVars
<1> QED BY <1>2, <1>3, <1>5, <1>6, <1>7, <1>8, MoveOK

(* All tiles that an ONLINE run needs for its job time are complete, also  *)
(* those before the first window if the backfill reaches up to it.         *)
LEMMA PromiseKept ==
    ASSUME IInv, NEW end \in Int, since # None, TilesIn(since, end) \subseteq Computed
    PROVE  TilesIn(PromisedFrom, end) \subseteq Computed
<1>1. CASE Settled
  <2>1. since \in Int /\ OnGrid(since) /\ backfilled \in Int /\ since <= backfilled
    BY <1>1, SlotFacts DEF IInv, TypeOK, Grid, Settled
  <2>2. TilesIn(0, backfilled) \subseteq Computed
    BY <1>1 DEF IInv, BackfillKept, Settled
  <2>3. TilesIn(0, since) \subseteq Computed
    BY <2>1, <2>2, TilesShrink
  <2>4. TilesIn(0, end) \subseteq Computed
    BY <2>1, <2>3, TilesJoin
  <2> QED BY <1>1, <2>4 DEF PromisedFrom
<1>2. CASE ~Settled
  BY <1>2 DEF PromisedFrom
<1> QED BY <1>1, <1>2

LEMMA InsertRowsOK ==
    ASSUME IInv, NEW s \in Slots, InsertRows(s)
    PROVE  IInv'
<1> DEFINE x == exec[s]
           next == NextVersion(x.seen)
           full == AllComplete(x.job - BlindSpot)
           e == [x EXCEPT !.pc = "writeVersion"]
<1>1. /\ x \in Execution /\ x.pc = "insert" /\ next \in Versions /\ full \in BOOLEAN
      /\ OnlineOK(x, now, Computed, since) /\ (x.seen # None => versions # <<>>)
      /\ rows \in [Versions -> Nat]
  <2>1. x \in Execution /\ x.pc = "insert" /\ next <= MaxVersion
    BY SlotFacts DEF InsertRows, At
  <2>2. next \in Nat
    BY <2>1 DEF NextVersion, Execution, Versions
  <2>3. full \in BOOLEAN
    BY DEF AllComplete
  <2>4. OnlineOK(x, now, Computed, since) /\ (x.seen # None => versions # <<>>)
    BY <2>1, SlotFacts DEF ExecOK, VersionOK, StorePCs
  <2> QED BY <2>1, <2>2, <2>3, <2>4, Settings, SlotFacts DEF Versions
<1>2. /\ UNCHANGED <<now, job, query, disabling, metadata, complete, versions, runs,
                     faults, since, backfilled, cut, torn, raced>>
      /\ Computed' = Computed
      /\ rows' = [rows EXCEPT ![next] = @ + 1]
      /\ content' = [content EXCEPT ![next] = [job |-> x.job, kind |-> x.kind, full |-> full]]
      /\ exec' = [exec EXCEPT ![s] = e]
  BY SlotFacts DEF InsertRows, RowsWith, Goto, history, Computed
<1>3. /\ e \in Execution /\ e.pc = "writeVersion" /\ e.seen = x.seen /\ e.kind = x.kind
  BY <1>1 DEF Execution, PCs, StorePCs
<1>4. x.kind = "ONLINE" => full
  <2> SUFFICES ASSUME x.kind = "ONLINE" PROVE full
    OBVIOUS
  <2>1. /\ x.end \in Int /\ x.end = x.job - BlindSpot
        /\ since # None /\ TilesIn(since, x.end) \subseteq Computed
    BY <1>1 DEF OnlineOK, PublishPCs, WindowPCs, Execution
  <2>2. TilesIn(PromisedFrom, x.job - BlindSpot) \subseteq Computed
    BY <2>1, PromiseKept
  <2> QED BY <2>2 DEF AllComplete, TilesIn
<1>5. x.job \in Int /\ x.kind \in Kinds
  BY <1>1 DEF Execution
<1> HIDE DEF x, next, full, e
<1>6. /\ rows' \in [Versions -> Nat] /\ rows'[next] > 0
      /\ \A v \in Versions : rows[v] <= rows'[v]
  BY <1>1, <1>2
<1>7. StoreGrows
  BY <1>2, <1>6, SlotFacts DEF StoreGrows
<1>8. ExecOK(e, now, Computed, since, rows', versions)
  <2>1. VersionOK(e, rows', versions)
    BY <1>1, <1>3, <1>6 DEF VersionOK, next
  <2> QED BY <1>3, <2>1 DEF ExecOK, WindowOK, KindOK, OnlineOK, OfflineOK, WindowPCs, PublishPCs, EnablePCs
<1>9. exec' \in [Slots -> Execution] /\ ExecutionsOK'
  BY <1>2, <1>3, <1>7, <1>8, SlotMoves DEF IInv
<1>10. content' \in [Versions -> [job: Int, kind: Kinds, full: BOOLEAN] \cup {None}]
  BY <1>1, <1>2, <1>5 DEF IInv, TypeOK
<1>11. TypeOK'
  BY <1>2, <1>6, <1>9, <1>10 DEF IInv, TypeOK
<1>12. /\ Launched' /\ Grid' /\ Aged' /\ FirstKnown' /\ NoTileSkipped'
      /\ BackfillKept' /\ OnlyOldTilesCut' /\ NothingCut'
  BY <1>2 DEF IInv, Launched, Grid, Aged, FirstKnown, NoTileSkipped, BackfillKept,
              OnlyOldTilesCut, NothingCut
<1>13. ServedIsWritten'
  <2> SUFFICES ASSUME NEW i \in DOMAIN versions PROVE rows'[versions[i]] > 0
    BY <1>2 DEF ServedIsWritten
  <2>1. versions[i] \in Versions /\ rows[versions[i]] > 0
    BY SlotFacts DEF IInv, ServedIsWritten
  <2> QED BY <1>1, <1>6, <2>1
<1>14. PublishedFromCompleteTiles'
  <2> SUFFICES ASSUME NEW v \in Versions, content'[v] # None, content'[v].kind = "ONLINE"
               PROVE  content'[v].full
    BY DEF PublishedFromCompleteTiles
  <2>1. CASE v = next
    <3>1. content'[v] = [job |-> x.job, kind |-> x.kind, full |-> full]
      BY <1>1, <1>2, <2>1 DEF IInv, TypeOK
    <3>2. content'[v].full = full /\ content'[v].kind = x.kind
      BY <3>1
    <3> QED BY <1>4, <3>2
  <2>2. CASE v # next
    <3>1. content'[v] = content[v]
      BY <1>1, <1>2, <2>2 DEF IInv, TypeOK
    <3> QED BY <3>1 DEF IInv, PublishedFromCompleteTiles
  <2> QED BY <2>1, <2>2
<1> QED BY <1>9, <1>11, <1>12, <1>13, <1>14, <1>2 DEF IInv

(* A version is published after its rows have been inserted.               *)
LEMMA WriteVersionOK ==
    ASSUME IInv, NEW s \in Slots, WriteVersion(s)
    PROVE  IInv'
<1> DEFINE next == NextVersion(exec[s].seen)
           flag(o) == exec[o].pc \notin {"idle", "queued"}
<1>1. /\ next \in Versions /\ rows[next] > 0 /\ rows \in [Versions -> Nat]
      /\ versions \in Seq(Versions) /\ (exec[s].seen # None => versions # <<>>)
  BY SlotFacts DEF WriteVersion, At, ExecOK, VersionOK, StorePCs
<1>2. /\ UNCHANGED <<now, job, query, disabling, metadata, complete, rows, content, runs,
                     faults, since, backfilled, cut, torn, raced>>
      /\ Computed' = Computed
      /\ versions' = IF exec[s].seen = None THEN <<next>> \o versions
                     ELSE [versions EXCEPT ![1] = next]
      /\ exec' = [o \in Slots |-> IF o = s THEN Idle
                                   ELSE [exec[o] EXCEPT !.overtaken = flag(o)]]
  BY DEF WriteVersion, history, Computed
<1> HIDE DEF next
<1>3. /\ versions' \in Seq(Versions) /\ versions' # <<>>
      /\ \A i \in DOMAIN versions' : rows[versions'[i]] > 0
  <2>1. CASE exec[s].seen = None
    <3>1. versions' = <<next>> \o versions
      BY <1>2, <2>1
    <3>2. versions' \in Seq(Versions) /\ Len(versions') = Len(versions) + 1 /\ versions' # <<>>
      BY <1>1, <3>1
    <3>3. ASSUME NEW i \in DOMAIN versions' PROVE rows[versions'[i]] > 0
      <4>1. i \in 1..(Len(versions) + 1) /\ Len(versions) \in Nat
        BY <1>1, <3>2
      <4>2. CASE i = 1
        BY <1>1, <3>1, <4>2
      <4>3. CASE i # 1
        <5>1. i - 1 \in DOMAIN versions /\ versions'[i] = versions[i - 1]
          BY <1>1, <3>1, <4>1, <4>3
        <5> QED BY <5>1 DEF IInv, ServedIsWritten
      <4> QED BY <4>2, <4>3
    <3> QED BY <3>2, <3>3
  <2>2. CASE exec[s].seen # None
    <3>1. versions' = [versions EXCEPT ![1] = next]
      BY <1>2, <2>2
    <3>2. versions' \in Seq(Versions) /\ DOMAIN versions' = DOMAIN versions /\ versions' # <<>>
      BY <1>1, <2>2, <3>1
    <3> QED BY <1>1, <3>1, <3>2 DEF IInv, ServedIsWritten
  <2> QED BY <2>1, <2>2
<1>4. StoreGrows
  BY <1>2, <1>3, SlotFacts DEF StoreGrows
<1>5. ASSUME NEW o \in Slots
      PROVE  exec'[o] \in Execution /\ ExecOK(exec'[o], now', Computed', since', rows', versions')
  <2>1. CASE o = s
    BY <1>2, <2>1, IdleOK
  <2>2. CASE o # s
    <3> DEFINE x == exec[o]
               e == [x EXCEPT !.overtaken = flag(o)]
    <3>1. exec'[o] = e /\ x \in Execution /\ flag(o) \in BOOLEAN
      BY <1>2, <2>2, SlotFacts
    <3> HIDE DEF flag
    <3>2. /\ e \in Execution /\ e.pc = x.pc /\ e.kind = x.kind /\ e.job = x.job
          /\ e.start = x.start /\ e.end = x.end /\ e.first = x.first /\ e.seen = x.seen
      BY <3>1 DEF Execution
    <3>3. ExecOK(x, now', Computed', since', rows', versions')
      BY <1>4, OthersStay DEF IInv
    <3> HIDE DEF x, e
    <3>4. ExecOK(e, now', Computed', since', rows', versions')
      BY <3>2, <3>3 DEF ExecOK, WindowOK, KindOK, OnlineOK, OfflineOK, VersionOK
    <3> QED BY <3>1, <3>2, <3>4
  <2> QED BY <2>1, <2>2
<1>6. exec' \in [Slots -> Execution] /\ ExecutionsOK'
  BY <1>2, <1>5 DEF ExecutionsOK
<1>7. TypeOK'
  BY <1>2, <1>3, <1>6 DEF IInv, TypeOK
<1>8. /\ Launched' /\ Grid' /\ Aged' /\ FirstKnown' /\ NoTileSkipped'
      /\ BackfillKept' /\ OnlyOldTilesCut' /\ NothingCut'
  BY <1>2 DEF IInv, Launched, Grid, Aged, FirstKnown, NoTileSkipped, BackfillKept,
              OnlyOldTilesCut, NothingCut
<1>9. ServedIsWritten' /\ PublishedFromCompleteTiles'
  BY <1>2, <1>3 DEF IInv, ServedIsWritten, PublishedFromCompleteTiles
<1> QED BY <1>6, <1>7, <1>8, <1>9 DEF IInv

LEMMA StepOK == IInv /\ [Next]_vars => IInv'
<1> SUFFICES ASSUME IInv, [Next]_vars PROVE IInv'
  OBVIOUS
<1>1. CASE Tick
  BY <1>1, TickOK
<1>2. CASE \/ Disable \/ DisableFails
           \/ StopJob("ONLINE", "stopOnline", "stopOffline")
           \/ StopJob("OFFLINE", "stopOffline", "no")
  BY <1>2, DisableOK
<1>3. ASSUME NEW s \in Slots, NEW type \in Types, Launch(s, type) PROVE IInv'
  BY <1>3, LaunchOK
<1>4. ASSUME NEW s \in Slots, StartRun(s) \/ Generate(s) \/ Record(s) PROVE IInv'
  BY <1>4, StartRunOK, GenerateOK, RecordOK
<1>5. ASSUME NEW s \in Slots,
             NoQuery(s) \/ ReadVersion(s) \/ InsertRows(s) \/ WriteVersion(s)
      PROVE  IInv'
  BY <1>5, NoQueryOK, ReadVersionOK, InsertRowsOK, WriteVersionOK
<1>6. ASSUME NEW s \in Slots,
             \/ ScheduleTiles(s, "ONLINE", "startOnline", "startOffline")
             \/ ScheduleTiles(s, "OFFLINE", "startOffline", "backfill")
      PROVE  IInv'
  BY <1>6, ScheduleTilesOK DEF Types, EnablePCs
<1>7. ASSUME NEW s \in Slots, Enable(s) \/ PlanBackfill(s) \/ Fault(s) PROVE IInv'
  BY <1>7, EnableOK, PlanBackfillOK, FaultOK
<1>8. CASE UNCHANGED vars
  BY <1>8 DEF vars, IInv, TypeOK, Launched, Grid, Aged, FirstKnown, NoTileSkipped, BackfillKept,
              OnlyOldTilesCut, NothingCut, ServedIsWritten, PublishedFromCompleteTiles,
              ExecutionsOK, Computed
<1> QED BY <1>1, <1>2, <1>3, <1>4, <1>5, <1>6, <1>7, <1>8 DEF Next

LEMMA Inductive == Spec => []IInv
<1>1. Init => IInv
  BY InitOK
<1>2. IInv /\ [Next]_vars => IInv'
  BY StepOK
<1> QED BY <1>1, <1>2, PTL DEF Spec

-----------------------------------------------------------------------------
(* The variables keep their types, whatever overlaps and fails.            *)
THEOREM TypeCorrect == Spec => []TypeOK
<1>1. IInv => TypeOK
  BY DEF IInv
<1> QED BY <1>1, Inductive, PTL

(* No tile is skipped up to the recorded end of the ONLINE job, however    *)
(* late, overlapping or unsuccessful its runs are: each of them has been   *)
(* computed from all its data, and lacks data only if an OFFLINE window    *)
(* has cut it since.                                                       *)
THEOREM NoGaps == Spec => []NoTileSkipped
<1>1. IInv => NoTileSkipped
  BY DEF IInv
<1> QED BY <1>1, Inductive, PTL

(* With a backfill from the epoch that reaches up to the first ONLINE      *)
(* window, all tiles since the epoch have been computed from all their     *)
(* data, and lack data only if an OFFLINE window has cut them since.       *)
THEOREM HistoryIsComplete == Spec => []HistoryComplete
<1>1. IInv => HistoryComplete
  <2> SUFFICES ASSUME IInv, Settled, metadata["ONLINE"] # None
               PROVE  TilesIn(0, metadata["ONLINE"]) \subseteq Computed
    BY DEF HistoryComplete, TilesIn
  <2>1. metadata["ONLINE"] \in Int /\ since # None
    BY SlotFacts DEF IInv, TypeOK, Types, Settled
  <2>2. TilesIn(since, metadata["ONLINE"]) \subseteq Computed
    BY DEF IInv, NoTileSkipped, TilesIn
  <2> QED BY <2>1, <2>2, PromiseKept DEF PromisedFrom
<1> QED BY <1>1, Inductive, PTL

(* OFFLINE windows only cut tiles that start more than an OFFLINE period   *)
(* and a blind spot ago.                                                   *)
THEOREM RecentTilesUncut == Spec => []OnlyOldTilesCut
<1>1. IInv => OnlyOldTilesCut
  BY DEF IInv
<1> QED BY <1>1, Inductive, PTL

(* They cut none if the OFFLINE period is a multiple of the frequency, as  *)
(* it is for a frequency of an hour: then "computed" is "complete" in the  *)
(* theorems above and below.                                               *)
THEOREM AlignedTilesUncut ==
    ASSUME OfflinePeriod % Frequency = 0
    PROVE  Spec => [](cut = {} /\ Computed = complete)
<1>1. IInv => cut = {} /\ Computed = complete
  BY DEF IInv, NothingCut, Aligned, Computed
<1> QED BY <1>1, Inductive, PTL

(* Readers are never given a version that has no rows.                     *)
THEOREM ServedVersionsExist == Spec => []ServedIsWritten
<1>1. IInv => ServedIsWritten
  BY DEF IInv
<1> QED BY <1>1, Inductive, PTL

(* When an ONLINE run publishes, every tile that it needs has been         *)
(* computed from all its data, but for what an OFFLINE window has cut.     *)
THEOREM OnlineValuesComplete == Spec => []PublishedFromCompleteTiles
<1>1. IInv => PublishedFromCompleteTiles
  BY DEF IInv
<1> QED BY <1>1, Inductive, PTL

(* Celery beat and the tasks that it launches count the same intervals.    *)
THEOREM BeatAgreesWithTask == Spec => []BeatAndTaskAgree
<1>1. IInv => BeatAndTaskAgree
  <2> SUFFICES ASSUME IInv PROVE BeatAndTaskAgree
    OBVIOUS
  <2>1. now \in Int /\ CorrectJobTime(now) = IntervalStart(now)
    BY JobTimeIsIntervalStart DEF IInv, TypeOK
  <2>2. ASSUME NEW t \in Types, job[t] # None
        PROVE  IsDue(now, job[t], Interval(t)) <=>
                 IntervalOf(job[t], Interval(t)) < IntervalOf(now, Interval(t))
    <3>1. job[t] \in Int /\ job[t] <= now /\ Interval(t) \in Nat \ {0}
      BY <2>2, Settings DEF IInv, TypeOK, Launched, Interval
    <3> QED BY <2>1, <3>1, DueOncePerInterval
  <2> QED BY <2>1, <2>2 DEF BeatAndTaskAgree
<1> QED BY <1>1, Inductive, PTL

(* A job is launched at most once per interval, also across faults and     *)
(* late workers.                                                           *)
THEOREM LaunchedOnce == Spec => OncePerInterval
<1> DEFINE A == \A t \in Types :
                  job[t] # None /\ job'[t] # None /\ job'[t] # job[t] =>
                    IntervalOf(job[t], Interval(t)) < IntervalOf(job'[t], Interval(t))
<1>1. IInv /\ [Next]_vars => [A]_vars
  <2> SUFFICES ASSUME IInv, Next, NEW t \in Types,
                      job[t] # None, job'[t] # None, job'[t] # job[t]
               PROVE  IntervalOf(job[t], Interval(t)) < IntervalOf(job'[t], Interval(t))
    OBVIOUS
  <2>1. job \in [Types -> Nat \cup {None}] /\ now \in Nat
    BY DEF IInv, TypeOK
  <2>2. ASSUME NEW s \in Slots, NEW type \in Types, Launch(s, type)
        PROVE  job'[t] = now /\ IsDue(now, job[t], Interval(t))
    BY <2>1, <2>2 DEF Launch
  <2>3. ASSUME NEW type \in Types, NEW pc, NEW next, StopJob(type, pc, next)
        PROVE  FALSE
    BY <2>1, <2>3, SMTT(30) DEF StopJob
  <2>4. ASSUME NEW s \in Slots, NEW type \in Types, NEW pc, NEW next,
               ScheduleTiles(s, type, pc, next)
        PROVE  FALSE
    BY <2>1, <2>4, SMTT(30) DEF ScheduleTiles
  <2>5. \E s \in Slots, type \in Types : Launch(s, type)
    BY <2>3, <2>4 DEF Next, Tick, Disable, DisableFails, StartRun, Generate, Record, NoQuery,
                      ReadVersion, InsertRows, WriteVersion, Enable, PlanBackfill, Fault, Types
  <2>6. job'[t] = now /\ IsDue(now, job[t], Interval(t))
    BY <2>2, <2>5
  <2>7. job[t] \in Int /\ job[t] <= now /\ Interval(t) \in Nat \ {0}
    BY <2>1, Settings DEF IInv, Launched, Interval
  <2> QED BY <2>1, <2>6, <2>7, DueOncePerInterval
<1> QED BY <1>1, Inductive, PTL DEF Spec, OncePerInterval

-----------------------------------------------------------------------------
(* What readers are served, while no two runs update the version at a time *)

AtWork(e) == e.pc \notin {"idle", "queued"}

(* What an execution e knows of the published version and its content.     *)
SlotServes(e, docs, cont) ==
    /\ e.pc \in StorePCs => e.seen = IF docs = <<>> THEN None ELSE docs[1]
    /\ e.pc = "writeVersion" => cont[NextVersion(e.seen)].job = e.job
    /\ AtWork(e) /\ ~e.overtaken /\ docs # <<>> => cont[docs[1]].job <= e.job

(* Nothing has been inserted beyond the published version, except by the   *)
(* run that is about to publish it, and by runs that have failed.          *)
Unwritten(v) == rows[v] = 0 \/ \E s \in Slots : At(s, "writeVersion") /\ v = NextVersion(exec[s].seen)

OneUpdates ==
    /\ Len(versions) <= 1
    /\ \A s, o \in Slots : exec[s].pc \in StorePCs /\ exec[o].pc \in StorePCs => s = o
    /\ \A v \in Versions \ torn :
          /\ rows[v] <= 1
          /\ versions = <<>> \/ versions[1] < v => Unwritten(v)
    /\ versions # <<>> => /\ content[versions[1]].job \in Int
                          /\ content[versions[1]].job <= CorrectJobTime(now)
    /\ \A s \in Slots : SlotServes(exec[s], versions, content)

JobsPast ==
    \A s \in Slots : /\ AtWork(exec[s]) => exec[s].job <= CorrectJobTime(now)
                     /\ ~AtWork(exec[s]) => ~exec[s].overtaken

ServeOK == JobsPast /\ (~raced => OneUpdates)

(* Documents of versions.                                                  *)
LEMMA FirstDocument ==
    ASSUME NEW docs \in Seq(Versions), docs # <<>>
    PROVE  docs[1] \in Versions /\ (Len(docs) <= 1 => Len(docs) = 1)
OBVIOUS

LEMMA OnlyDocument ==
    ASSUME NEW docs \in Seq(Versions), Len(docs) = 1, NEW v \in Versions
    PROVE  /\ Len([docs EXCEPT ![1] = v]) = 1
           /\ [docs EXCEPT ![1] = v] # <<>>
           /\ [docs EXCEPT ![1] = v][1] = v
OBVIOUS

LEMMA OneServed ==
    ASSUME OneUpdates, versions \in Seq(Versions), versions # <<>>
    PROVE  Len(versions) = 1 /\ versions[1] \in Versions /\ content[versions[1]].job \in Int
<1>1. versions[1] \in Versions /\ (Len(versions) <= 1 => Len(versions) = 1)
  BY FirstDocument
<1>2. Len(versions) <= 1
  BY DEF OneUpdates
<1>3. content[versions[1]].job \in Int
  BY DEF OneUpdates
<1>4. Len(versions) = 1
  BY <1>1, <1>2
<1> QED BY <1>1, <1>3, <1>4

(* The job time never goes back as time passes.                            *)
LEMMA JobTimesGrow ==
    ASSUME NEW t \in Int, NEW u \in Int, t <= u
    PROVE  /\ CorrectJobTime(t) \in Int /\ CorrectJobTime(u) \in Int
           /\ CorrectJobTime(t) <= CorrectJobTime(u)
<1> DEFINE p == IntervalOf(t, Frequency)
           q == IntervalOf(u, Frequency)
<1>1. p \in Int /\ q \in Int /\ Frequency \in Nat \ {0} /\ Modulo \in Int
  BY Settings, DivMod DEF IntervalOf
<1>2. /\ CorrectJobTime(t) \in Int /\ CorrectJobTime(t) = p * Frequency + Modulo
      /\ CorrectJobTime(t) <= t /\ t < CorrectJobTime(t) + Frequency
  BY JobTimeIsIntervalStart DEF IntervalStart
<1>3. /\ CorrectJobTime(u) \in Int /\ CorrectJobTime(u) = q * Frequency + Modulo
      /\ CorrectJobTime(u) <= u /\ u < CorrectJobTime(u) + Frequency
  BY JobTimeIsIntervalStart DEF IntervalStart
<1> HIDE DEF p, q
<1>4. ~(q < p)
  <2> SUFFICES ASSUME q < p PROVE FALSE
    OBVIOUS
  <2>1. Frequency * q + Frequency <= Frequency * p
    BY <1>1, MultiplesApart
  <2>2. Frequency * q = q * Frequency /\ Frequency * p = p * Frequency
    BY <1>1
  <2>3. q * Frequency \in Int /\ p * Frequency \in Int
    BY <1>1
  <2>4. CorrectJobTime(u) + Frequency <= CorrectJobTime(t)
    BY <1>1, <1>2, <1>3, <2>1, <2>2, <2>3
  <2> QED BY <1>1, <1>2, <1>3, <2>4
<1>5. CASE p = q
  BY <1>2, <1>3, <1>5
<1>6. CASE p < q
  <2>1. Frequency * p + Frequency <= Frequency * q
    BY <1>1, <1>6, MultiplesApart
  <2>2. Frequency * q = q * Frequency /\ Frequency * p = p * Frequency
    BY <1>1
  <2>3. q * Frequency \in Int /\ p * Frequency \in Int
    BY <1>1
  <2> QED BY <1>1, <1>2, <1>3, <2>1, <2>2, <2>3
<1> QED BY <1>1, <1>4, <1>5, <1>6

LEMMA TimePasses ==
    ASSUME IInv, ServeOK, now' \in Nat, now <= now', UNCHANGED <<storeVars, exec, torn, raced>>
    PROVE  ServeOK'
<1>1. /\ CorrectJobTime(now) \in Int /\ CorrectJobTime(now') \in Int
      /\ CorrectJobTime(now) <= CorrectJobTime(now') /\ exec \in [Slots -> Execution]
  <2>1. now \in Int /\ now' \in Int /\ exec \in [Slots -> Execution]
    BY DEF IInv, TypeOK
  <2> QED BY <2>1, JobTimesGrow
<1>2. JobsPast'
  BY <1>1 DEF ServeOK, JobsPast, Execution
<1>3. ~raced => OneUpdates'
  BY <1>1 DEF ServeOK, OneUpdates, Unwritten, At, storeVars
<1> QED BY <1>2, <1>3 DEF ServeOK

(* A slot moves on without touching the online store.                      *)
LEMMA QuietMove ==
    ASSUME IInv, ServeOK, NEW s \in Slots, NEW e,
           exec' = [exec EXCEPT ![s] = e], UNCHANGED <<now, storeVars, torn, raced>>,
           exec[s].pc \notin StorePCs, e.pc \notin StorePCs,
           \/ ~AtWork(e) /\ ~e.overtaken
           \/ /\ AtWork(e) /\ AtWork(exec[s])
              /\ e.job = exec[s].job /\ e.overtaken = exec[s].overtaken
           \/ e.job = CorrectJobTime(now) /\ ~e.overtaken
    PROVE  ServeOK'
<1>1. /\ exec \in [Slots -> Execution] /\ exec'[s] = e
      /\ \A o \in Slots : o # s => exec'[o] = exec[o]
  BY SlotFacts
<1>2. CorrectJobTime(now) \in Int
  BY JobTimesGrow DEF IInv, TypeOK
<1>3. JobsPast'
  <2>1. CorrectJobTime(now)' = CorrectJobTime(now)
    OBVIOUS
  <2> QED BY <1>1, <1>2, <2>1 DEF ServeOK, JobsPast, AtWork
<1>4. ASSUME ~raced
      PROVE  OneUpdates'
  <2>1. OneUpdates /\ JobsPast
    BY <1>4 DEF ServeOK
  <2>2. \A v \in Versions : Unwritten(v) => Unwritten(v)'
    BY <1>1 DEF Unwritten, At, StorePCs, storeVars
  <2>3. e.pc # "writeVersion"
    BY DEF StorePCs
  <2>4. SlotServes(e, versions, content)
    BY <1>2, <2>1, <2>3 DEF OneUpdates, SlotServes, AtWork
  <2>5. \A o \in Slots : SlotServes(exec'[o], versions, content)
    BY <1>1, <2>1, <2>4 DEF OneUpdates
  <2>6. \A o, p \in Slots : exec'[o].pc \in StorePCs /\ exec'[p].pc \in StorePCs => o = p
    BY <1>1, <2>1 DEF OneUpdates
  <2> QED BY <2>1, <2>2, <2>5, <2>6 DEF OneUpdates, storeVars
<1> QED BY <1>3, <1>4 DEF ServeOK

LEMMA QuietSteps ==
    ASSUME IInv, ServeOK, NEW s \in Slots,
           \/ \E type \in Types : Launch(s, type)
           \/ StartRun(s) \/ Generate(s) \/ Record(s) \/ NoQuery(s) \/ Enable(s) \/ PlanBackfill(s)
           \/ ScheduleTiles(s, "ONLINE", "startOnline", "startOffline")
           \/ ScheduleTiles(s, "OFFLINE", "startOffline", "backfill")
    PROVE  ServeOK'
<1>1. /\ exec \in [Slots -> Execution] /\ exec[s] \in Execution /\ now \in Nat
      /\ (~AtWork(exec[s]) => ~exec[s].overtaken)
  BY SlotFacts DEF ServeOK, JobsPast
<1>2. Idle.pc = "idle" /\ ~Idle.overtaken
  BY DEF Idle
<1>3. ASSUME NEW type \in Types, Launch(s, type) PROVE ServeOK'
  <2> DEFINE e == [Idle EXCEPT !.pc = "queued", !.kind = type]
  <2>1. e.pc = "queued" /\ ~e.overtaken
    BY DEF Idle
  <2>2. exec' = [exec EXCEPT ![s] = e]
    BY <1>3 DEF Launch
  <2> HIDE DEF e
  <2> QED BY <1>3, <2>1, <2>2, QuietMove DEF Launch, At, AtWork, StorePCs, history
<1>4. CASE StartRun(s)
  <2> DEFINE e == [exec[s] EXCEPT !.pc = "generate", !.job = JobTimeOf(exec[s].kind),
                      !.start = ExtendedStart(exec[s].kind),
                      !.end = WindowEnd(exec[s].kind, CorrectJobTime(now)),
                      !.first = metadata["ONLINE"] = None]
  <2>1. e.pc = "generate" /\ e.job = CorrectJobTime(now) /\ e.overtaken = exec[s].overtaken
    BY <1>1 DEF JobTimeOf, Execution
  <2>2. exec' = [exec EXCEPT ![s] = e]
    BY <1>1, <1>4 DEF StartRun
  <2> HIDE DEF e
  <2>3. exec[s].pc = "queued" /\ UNCHANGED <<now, storeVars, torn, raced>>
    BY <1>4 DEF StartRun, At, history
  <2> QED BY <1>1, <2>1, <2>2, <2>3, QuietMove DEF AtWork, StorePCs
<1>5. CASE Enable(s)
  <2> DEFINE pc == IF job["ONLINE"] = None THEN "startOnline" ELSE "readVersion"
             e == [Idle EXCEPT !.pc = pc, !.kind = "ENABLE",
                               !.job = NextJobTime(now) - Frequency, !.populate = ~query]
  <2>1. e.pc \in {"startOnline", "readVersion"} /\ e.job = NextJobTime(now) - Frequency /\ ~e.overtaken
    BY DEF Idle
  <2>2. exec' = [exec EXCEPT ![s] = e]
    BY <1>5 DEF Enable
  <2> HIDE DEF e
  <2>3. e.job = CorrectJobTime(now)
    BY <1>1, <2>1, NextJobAfter DEF CorrectJobTime
  <2>4. exec[s].pc = "idle" /\ UNCHANGED <<now, storeVars, torn, raced>>
    BY <1>5 DEF Enable, At, history
  <2> QED BY <2>1, <2>2, <2>3, <2>4, QuietMove DEF AtWork, StorePCs
<1>6. CASE \/ Generate(s)
           \/ ScheduleTiles(s, "ONLINE", "startOnline", "startOffline")
           \/ ScheduleTiles(s, "OFFLINE", "startOffline", "backfill")
  <2>1. PICK pc \in {"record", "startOffline", "backfill"} : exec' = [exec EXCEPT ![s].pc = pc]
    BY <1>6 DEF Generate, ScheduleTiles, Goto
  <2> DEFINE e == [exec[s] EXCEPT !.pc = pc]
  <2>2. e.pc = pc /\ e.job = exec[s].job /\ e.overtaken = exec[s].overtaken
    BY <1>1 DEF Execution
  <2>3. exec' = [exec EXCEPT ![s] = e]
    BY <1>1, <2>1
  <2> HIDE DEF e
  <2>4. exec[s].pc \in {"generate", "startOnline", "startOffline"}
        /\ UNCHANGED <<now, storeVars, torn, raced>>
    BY <1>6 DEF Generate, ScheduleTiles, At, history
  <2> QED BY <2>1, <2>2, <2>3, <2>4, QuietMove DEF AtWork, StorePCs
<1>7. CASE PlanBackfill(s)
  <2>1. PICK a, b, c : exec' = [exec EXCEPT ![s].pc = "generate", ![s].start = a, ![s].end = b,
                                            ![s].first = c]
    BY <1>7 DEF PlanBackfill
  <2> DEFINE e == [exec[s] EXCEPT !.pc = "generate", !.start = a, !.end = b, !.first = c]
  <2>2. e.pc = "generate" /\ e.job = exec[s].job /\ e.overtaken = exec[s].overtaken
    BY <1>1 DEF Execution
  <2>3. exec' = [exec EXCEPT ![s] = e]
    BY <1>1, <2>1
  <2> HIDE DEF e
  <2>4. exec[s].pc = "backfill" /\ UNCHANGED <<now, storeVars, torn, raced>>
    BY <1>7 DEF PlanBackfill, At, history
  <2> QED BY <2>2, <2>3, <2>4, QuietMove DEF AtWork, StorePCs
<1>8. CASE Record(s) \/ NoQuery(s)
  <2>1. exec[s].pc \in {"record", "readVersion"} /\ UNCHANGED <<now, storeVars, torn, raced>>
    BY <1>8 DEF Record, NoQuery, At, history
  <2>2. CASE exec' = [exec EXCEPT ![s] = Idle]
    BY <1>2, <2>1, <2>2, QuietMove DEF AtWork, StorePCs
  <2>3. CASE exec' = [exec EXCEPT ![s].pc = "readVersion"]
    <3> DEFINE e == [exec[s] EXCEPT !.pc = "readVersion"]
    <3>1. e.pc = "readVersion" /\ e.job = exec[s].job /\ e.overtaken = exec[s].overtaken
      BY <1>1 DEF Execution
    <3>2. exec' = [exec EXCEPT ![s] = e]
      BY <1>1, <2>3
    <3> HIDE DEF e
    <3> QED BY <2>1, <3>1, <3>2, QuietMove DEF AtWork, StorePCs
  <2> QED BY <1>8, <2>2, <2>3 DEF Record, NoQuery, Ends, Goto
<1> QED BY <1>3, <1>4, <1>5, <1>6, <1>7, <1>8

LEMMA ReadVersionServes ==
    ASSUME IInv, ServeOK, NEW s \in Slots, ReadVersion(s)
    PROVE  ServeOK'
<1> DEFINE newest == IF versions = <<>> THEN None ELSE Head(versions)
           e == [exec[s] EXCEPT !.pc = "insert", !.seen = newest]
<1>1. /\ e.pc = "insert" /\ e.job = exec[s].job /\ e.overtaken = exec[s].overtaken
      /\ e.seen = newest
  BY SlotFacts DEF Execution
<1>2. /\ exec' = [exec EXCEPT ![s] = e] /\ exec[s].pc = "readVersion"
      /\ UNCHANGED <<now, storeVars, torn>>
      /\ raced' = (raced \/ \E o \in Slots \ {s} : exec[o].pc \in StorePCs)
  BY SlotFacts DEF ReadVersion, At
<1>3. newest = IF versions = <<>> THEN None ELSE versions[1]
  BY SlotFacts
<1> HIDE DEF e, newest
<1>4. exec'[s] = e /\ \A o \in Slots : o # s => exec'[o] = exec[o]
  BY <1>2, SlotFacts
<1>5. JobsPast'
  <2>1. CorrectJobTime(now)' = CorrectJobTime(now)
    BY <1>2
  <2> QED BY <1>1, <1>2, <1>4, <2>1 DEF ServeOK, JobsPast, AtWork
<1>6. ASSUME ~raced'
      PROVE  OneUpdates'
  <2>1. OneUpdates /\ \A o \in Slots : o # s => exec'[o].pc \notin StorePCs
    BY <1>2, <1>4, <1>6 DEF ServeOK
  <2>2. \A v \in Versions : Unwritten(v) => Unwritten(v)'
    BY <1>2, <1>4 DEF Unwritten, At, storeVars
  <2>3. SlotServes(exec[s], versions, content)
    BY <2>1 DEF OneUpdates
  <2>4. SlotServes(e, versions, content)
    BY <1>1, <1>2, <1>3, <2>3 DEF SlotServes, AtWork
  <2>5. \A o \in Slots : SlotServes(exec'[o], versions, content)
    BY <1>4, <2>1, <2>4 DEF OneUpdates
  <2> QED BY <1>2, <2>1, <2>2, <2>5 DEF OneUpdates, storeVars
<1> QED BY <1>5, <1>6 DEF ServeOK

LEMMA FaultServes ==
    ASSUME IInv, ServeOK, NEW s \in Slots, Fault(s)
    PROVE  ServeOK'
<1>1. /\ exec' = [exec EXCEPT ![s] = Idle] /\ UNCHANGED <<now, storeVars, raced>>
      /\ torn' = IF At(s, "writeVersion") THEN torn \cup {NextVersion(exec[s].seen)} ELSE torn
  BY DEF Fault, Ends
<1>2. exec'[s] = Idle /\ \A o \in Slots : o # s => exec'[o] = exec[o]
  BY <1>1, SlotFacts
<1>3. Idle.pc = "idle" /\ ~Idle.overtaken
  BY DEF Idle
<1>4. JobsPast'
  <2>1. CorrectJobTime(now)' = CorrectJobTime(now)
    BY <1>1
  <2> QED BY <1>2, <1>3, <2>1 DEF ServeOK, JobsPast, AtWork
<1>5. ASSUME ~raced
      PROVE  OneUpdates'
  <2>1. OneUpdates
    BY <1>5 DEF ServeOK
  <2>2. ASSUME NEW v \in Versions \ torn', Unwritten(v) PROVE Unwritten(v)'
    <3>1. ~(At(s, "writeVersion") /\ v = NextVersion(exec[s].seen))
      BY <1>1, <2>2
    <3>2. rows' = rows
      BY <1>1 DEF storeVars
    <3> QED BY <1>2, <2>2, <3>1, <3>2 DEF Unwritten, At
  <2>3. SlotServes(Idle, versions, content)
    BY <1>3 DEF SlotServes, StorePCs, AtWork
  <2>4. \A o \in Slots : SlotServes(exec'[o], versions, content)
    BY <1>2, <2>1, <2>3 DEF OneUpdates
  <2>5. \A o, p \in Slots : exec'[o].pc \in StorePCs /\ exec'[p].pc \in StorePCs => o = p
    BY <1>2, <1>3, <2>1 DEF OneUpdates, StorePCs
  <2>6. torn \subseteq torn'
    BY <1>1
  <2> QED BY <1>1, <2>1, <2>2, <2>4, <2>5, <2>6 DEF OneUpdates, storeVars
<1> QED BY <1>1, <1>4, <1>5 DEF ServeOK

(* The version that a run inserts is one that nobody else has inserted.    *)
LEMMA InsertRowsServes ==
    ASSUME IInv, ServeOK, NEW s \in Slots, InsertRows(s)
    PROVE  ServeOK'
<1> DEFINE next == NextVersion(exec[s].seen)
           e == [exec[s] EXCEPT !.pc = "writeVersion"]
<1>1. /\ e.pc = "writeVersion" /\ e.job = exec[s].job /\ e.overtaken = exec[s].overtaken
      /\ e.seen = exec[s].seen /\ exec[s] \in Execution
  BY SlotFacts DEF Execution
<1>2. /\ exec' = [exec EXCEPT ![s] = e] /\ exec[s].pc = "insert"
      /\ rows' = [rows EXCEPT ![next] = rows[next] + 1]
      /\ UNCHANGED <<now, versions, torn, raced>>
      /\ rows \in [Versions -> Nat] /\ versions \in Seq(Versions)
  BY SlotFacts DEF InsertRows, At, Goto, RowsWith, history
<1>3. next \in Versions
  <2>1. next \in Nat /\ next <= MaxVersion
    BY <1>1 DEF InsertRows, NextVersion, Execution, Versions
  <2> QED BY <2>1, Settings DEF Versions
<1>4. /\ \A v \in Versions : v # next => content'[v] = content[v]
      /\ content'[next].job = exec[s].job
  <2>1. PICK kind, full :
            content' = [content EXCEPT ![next] = [job |-> exec[s].job, kind |-> kind, full |-> full]]
    BY DEF InsertRows
  <2>2. DOMAIN content = Versions
    BY DEF IInv, TypeOK
  <2>3. content'[next] = [job |-> exec[s].job, kind |-> kind, full |-> full]
    BY <1>3, <2>1, <2>2
  <2>4. content'[next].job = exec[s].job
    BY <2>3
  <2> HIDE DEF next
  <2> QED BY <2>1, <2>2, <2>4
<1>5. exec'[s] = e /\ \A o \in Slots : o # s => exec'[o] = exec[o]
  BY <1>2, SlotFacts
<1> HIDE DEF e
<1>6. JobsPast'
  <2>1. CorrectJobTime(now)' = CorrectJobTime(now)
    BY <1>2
  <2> QED BY <1>1, <1>2, <1>5, <2>1 DEF ServeOK, JobsPast, AtWork
<1>7. ASSUME ~raced
      PROVE  OneUpdates'
  <2>1. OneUpdates /\ exec[s].pc \in StorePCs
    BY <1>2, <1>7 DEF ServeOK, StorePCs
  <2>2. \A o \in Slots : o # s => exec'[o].pc \notin StorePCs
    BY <1>5, <2>1 DEF OneUpdates
  <2>3. exec[s].seen = IF versions = <<>> THEN None ELSE versions[1]
    BY <2>1 DEF OneUpdates, SlotServes
  <2>4. versions # <<>> => versions[1] \in Versions /\ versions[1] \in Nat
    <3>1. \A v \in Versions : v \in Nat /\ v \in Int
      BY Settings DEF Versions
    <3>2. versions # <<>> => versions[1] \in Versions
      BY <1>2, FirstDocument
    <3> QED BY <3>1, <3>2
  <2>5. versions # <<>> => next = versions[1] + 1
    BY <2>3, <2>4, Settings DEF NextVersion
  <2>6. versions # <<>> => content'[versions[1]] = content[versions[1]]
    BY <1>4, <2>4, <2>5
  <2>7. next \notin torn => rows[next] = 0
    <3>1. ~\E o \in Slots : At(o, "writeVersion")
      BY <1>2, <2>1 DEF OneUpdates, At, StorePCs
    <3>2. next \notin torn => Unwritten(next)
      BY <1>3, <2>1, <2>4, <2>5 DEF OneUpdates
    <3> QED BY <3>1, <3>2 DEF Unwritten
  <2>8. ASSUME NEW v \in Versions \ torn
        PROVE  rows'[v] <= 1 /\ (versions = <<>> \/ versions[1] < v => Unwritten(v)')
    <3>1. CASE v = next
      <4>1. rows'[v] = 1
        BY <1>2, <1>3, <2>7, <2>8, <3>1
      <4>2. At(s, "writeVersion")' /\ v = NextVersion(exec'[s].seen)
        BY <1>1, <1>5, <3>1 DEF At
      <4> QED BY <4>1, <4>2 DEF Unwritten
    <3>2. CASE v # next
      <4>1. rows'[v] = rows[v]
        BY <1>2, <1>3, <3>2
      <4>2. \A o \in Slots : ~At(o, "writeVersion")
        BY <1>2, <2>1 DEF OneUpdates, At, StorePCs
      <4> QED BY <2>1, <2>8, <4>1, <4>2 DEF OneUpdates, Unwritten
    <3> QED BY <3>1, <3>2
  <2>9. ASSUME NEW o \in Slots PROVE SlotServes(exec'[o], versions, content')
    <3>1. SlotServes(exec[o], versions, content)
      BY <2>1 DEF OneUpdates
    <3>2. CASE o = s
      BY <1>1, <1>2, <1>4, <1>5, <2>6, <3>1, <3>2 DEF SlotServes, AtWork, StorePCs
    <3>3. CASE o # s
      BY <1>5, <2>2, <2>6, <3>1, <3>3 DEF SlotServes, StorePCs
    <3> QED BY <3>2, <3>3
  <2>10. \A o, p \in Slots : exec'[o].pc \in StorePCs /\ exec'[p].pc \in StorePCs => o = p
    BY <2>2
  <2>11. versions # <<>> => /\ content'[versions[1]].job \in Int
                            /\ content'[versions[1]].job <= CorrectJobTime(now)
    BY <2>1, <2>6 DEF OneUpdates
  <2>12. CorrectJobTime(now)' = CorrectJobTime(now)
    BY <1>2
  <2> QED BY <1>2, <2>1, <2>8, <2>9, <2>10, <2>11, <2>12 DEF OneUpdates
<1> QED BY <1>2, <1>6, <1>7 DEF ServeOK

(* Whoever updates the version document alone leaves one document, and     *)
(* everybody else who is at work has been overtaken.                       *)
LEMMA WriteVersionServes ==
    ASSUME IInv, ServeOK, NEW s \in Slots, WriteVersion(s)
    PROVE  /\ ServeOK'
           /\ ~raced => /\ Len(versions') = 1 /\ content'[versions'[1]].job = exec[s].job
                        /\ exec'[s] = Idle
<1> DEFINE next == NextVersion(exec[s].seen)
           flag(o) == exec[o].pc \notin {"idle", "queued"}
<1>1. /\ next \in Versions /\ versions \in Seq(Versions) /\ exec[s] \in Execution
      /\ exec[s].pc = "writeVersion" /\ exec \in [Slots -> Execution]
  BY SlotFacts DEF WriteVersion, At, ExecOK, VersionOK, StorePCs
<1>2. /\ UNCHANGED <<now, rows, content, torn, raced>>
      /\ versions' = IF exec[s].seen = None THEN <<next>> \o versions
                     ELSE [versions EXCEPT ![1] = next]
      /\ exec' = [o \in Slots |-> IF o = s THEN Idle
                                  ELSE [exec[o] EXCEPT !.overtaken = flag(o)]]
  BY DEF WriteVersion, history
<1>3. exec'[s] = Idle /\ Idle.pc = "idle" /\ ~Idle.overtaken
  BY <1>2 DEF Idle
<1>4. ASSUME NEW o \in Slots, o # s
      PROVE  /\ exec'[o].pc = exec[o].pc /\ exec'[o].job = exec[o].job
             /\ exec'[o].overtaken = AtWork(exec[o])
  <2>1. exec'[o] = [exec[o] EXCEPT !.overtaken = flag(o)] /\ exec[o] \in Execution
    BY <1>1, <1>2, <1>4
  <2>2. flag(o) = AtWork(exec[o])
    BY DEF AtWork
  <2> HIDE DEF flag
  <2> QED BY <2>1, <2>2 DEF Execution
<1> HIDE DEF flag
<1>5. JobsPast'
  <2>1. CorrectJobTime(now)' = CorrectJobTime(now)
    BY <1>2
  <2> QED BY <1>3, <1>4, <2>1 DEF ServeOK, JobsPast, AtWork
<1>6. ASSUME ~raced
      PROVE  /\ Len(versions') = 1 /\ versions' # <<>> /\ versions'[1] = next
             /\ content[next].job = exec[s].job
             /\ OneUpdates'
  <2>1. /\ OneUpdates /\ JobsPast /\ exec[s].pc \in StorePCs
        /\ SlotServes(exec[s], versions, content)
    BY <1>1, <1>6 DEF ServeOK, StorePCs, OneUpdates
  <2>2. exec[s].seen = IF versions = <<>> THEN None ELSE versions[1]
    BY <2>1 DEF SlotServes
  <2>3. content[next].job = exec[s].job
    BY <1>1, <2>1 DEF SlotServes
  <2>4. versions # <<>> => versions[1] \in Versions /\ versions[1] \in Nat /\ versions[1] \in Int
    <3>1. \A v \in Versions : v \in Nat /\ v \in Int
      BY Settings DEF Versions
    <3>2. versions # <<>> => versions[1] \in Versions
      BY <1>1, FirstDocument
    <3> QED BY <3>1, <3>2
  <2>5. versions # <<>> => exec[s].seen # None /\ next = versions[1] + 1
    BY <2>2, <2>4, Settings DEF NextVersion
  <2> HIDE DEF next
  <2>6. Len(versions') = 1 /\ versions' # <<>> /\ versions'[1] = next
    <3>1. CASE versions = <<>>
      <4>1. versions' = <<next>> \o <<>>
        BY <1>2, <2>2, <3>1
      <4>2. <<next>> \o <<>> = <<next>>
        OBVIOUS
      <4>3. versions' = <<next>>
        BY <4>1, <4>2
      <4> QED BY <4>3
    <3>2. CASE versions # <<>>
      <4>1. versions' = [versions EXCEPT ![1] = next] /\ Len(versions) = 1
        BY <1>1, <1>2, <2>1, <2>5, <3>2, FirstDocument DEF OneUpdates
      <4> QED BY <1>1, <4>1, OnlyDocument
    <3> QED BY <3>1, <3>2
  <2>7. \A o \in Slots : exec'[o].pc \notin StorePCs
    BY <1>1, <1>3, <1>4, <2>1 DEF OneUpdates, StorePCs
  <2>8. \A o \in Slots : SlotServes(exec'[o], versions', content)
    BY <1>3, <1>4, <2>7 DEF SlotServes, AtWork, StorePCs
  <2>9. ASSUME NEW v \in Versions \ torn, next < v PROVE rows[v] = 0
    <3>1. versions = <<>> \/ versions[1] < v
      BY <2>4, <2>5, <2>9 DEF Versions
    <3>2. Unwritten(v)
      BY <2>1, <2>9, <3>1 DEF OneUpdates
    <3>3. \A o \in Slots : At(o, "writeVersion") => o = s
      BY <2>1 DEF OneUpdates, At, StorePCs
    <3>4. v # next
      BY <1>1, <2>9 DEF Versions
    <3> QED BY <3>2, <3>3, <3>4 DEF Unwritten, next
  <2>10. exec[s].job \in Int /\ exec[s].job <= CorrectJobTime(now)
    BY <1>1, <2>1 DEF JobsPast, AtWork, Execution
  <2>11. CorrectJobTime(now)' = CorrectJobTime(now)
    BY <1>2
  <2>12. \A v \in Versions \ torn : rows[v] <= 1 /\ (versions'[1] < v => Unwritten(v)')
    BY <1>2, <2>1, <2>6, <2>9 DEF OneUpdates, Unwritten
  <2>13. OneUpdates'
    <3>1. Len(versions') <= 1
      BY <2>6
    <3>4. content' = content /\ versions'[1] = next
      BY <1>2, <2>6
    <3>5. content'[versions'[1]].job = exec[s].job
      BY <2>3, <3>4
    <3>2. \A v \in Versions \ torn' :
             rows'[v] <= 1 /\ (versions' = <<>> \/ versions'[1] < v => Unwritten(v)')
      BY <1>2, <2>6, <2>12
    <3>3. \A o \in Slots : SlotServes(exec'[o], versions', content')
      BY <1>2, <2>8
    <3> QED BY <2>7, <2>10, <2>11, <3>1, <3>2, <3>3, <3>5 DEF OneUpdates
  <2> QED BY <2>3, <2>6, <2>13
<1> QED BY <1>2, <1>3, <1>5, <1>6 DEF ServeOK

LEMMA ServeStep == IInv /\ IInv' /\ ServeOK /\ [Next]_vars => ServeOK'
<1> SUFFICES ASSUME IInv, IInv', ServeOK, [Next]_vars PROVE ServeOK'
  OBVIOUS
<1>1. now \in Nat /\ now' \in Nat
  BY DEF IInv, TypeOK
<1>2. CASE Tick
  BY <1>1, <1>2, TimePasses DEF Tick, history
<1>3. CASE \/ Disable \/ DisableFails
           \/ StopJob("ONLINE", "stopOnline", "stopOffline")
           \/ StopJob("OFFLINE", "stopOffline", "no")
  BY <1>1, <1>3, TimePasses DEF Disable, DisableFails, StopJob, history
<1>4. CASE UNCHANGED vars
  BY <1>1, <1>4, TimePasses DEF vars, storeVars
<1>5. CASE /\ Next /\ ~Tick /\ ~Disable /\ ~DisableFails
           /\ ~StopJob("ONLINE", "stopOnline", "stopOffline")
           /\ ~StopJob("OFFLINE", "stopOffline", "no")
  <2>1. PICK s \in Slots :
            \/ \E type \in Types : Launch(s, type)
            \/ StartRun(s) \/ Generate(s) \/ Record(s) \/ NoQuery(s) \/ Enable(s) \/ PlanBackfill(s)
            \/ ScheduleTiles(s, "ONLINE", "startOnline", "startOffline")
            \/ ScheduleTiles(s, "OFFLINE", "startOffline", "backfill")
            \/ ReadVersion(s) \/ InsertRows(s) \/ WriteVersion(s) \/ Fault(s)
    BY <1>5 DEF Next
  <2>2. CASE ReadVersion(s) \/ InsertRows(s) \/ WriteVersion(s) \/ Fault(s)
    BY <2>2, ReadVersionServes, InsertRowsServes, WriteVersionServes, FaultServes
  <2>3. CASE ~(ReadVersion(s) \/ InsertRows(s) \/ WriteVersion(s) \/ Fault(s))
    BY <2>1, <2>3, QuietSteps
  <2> QED BY <2>2, <2>3
<1> QED BY <1>2, <1>3, <1>4, <1>5

LEMMA Serving == Spec => []ServeOK
<1>1. Init => ServeOK
  <2> SUFFICES ASSUME Init PROVE ServeOK
    OBVIOUS
  <2>1. /\ versions = <<>> /\ Len(versions) = 0
        /\ \A v \in Versions : rows[v] = 0
        /\ \A s \in Slots : exec[s].pc = "idle" /\ ~exec[s].overtaken
    BY DEF Init, Idle
  <2>2. JobsPast
    BY <2>1 DEF JobsPast, AtWork
  <2>3. OneUpdates
    BY <2>1 DEF OneUpdates, SlotServes, Unwritten, StorePCs, AtWork
  <2> QED BY <2>2, <2>3 DEF ServeOK
<1>2. IInv /\ IInv' /\ ServeOK /\ [Next]_vars => ServeOK'
  BY ServeStep
<1> QED BY <1>1, <1>2, Inductive, PTL DEF Spec

(* Without a race on the version there is one version document, and no     *)
(* version but those of failed runs is inserted twice.                     *)
THEOREM ServedRowsOnce == Spec => []ServedOnce
<1>1. ServeOK => ServedOnce
  BY DEF ServeOK, OneUpdates, ServedOnce
<1> QED BY <1>1, Serving, PTL

(* Without a race, only an execution that was overtaken makes readers see  *)
(* values of an earlier job time than before.                              *)
THEOREM TimeServedAdvances == Spec => ServedTimeAdvances
<1> DEFINE A == ~raced /\ versions # <<>> /\ ServedTime' < ServedTime =>
                  \E s \in Slots : exec[s].overtaken /\ exec'[s] # exec[s]
<1>1. IInv /\ ServeOK /\ [Next]_vars => [A]_vars
  <2> SUFFICES ASSUME IInv, ServeOK, Next, ~raced, versions # <<>>, ServedTime' < ServedTime
               PROVE  \E s \in Slots : exec[s].overtaken /\ exec'[s] # exec[s]
    OBVIOUS
  <2>1. OneUpdates /\ versions \in Seq(Versions)
    BY DEF ServeOK, IInv, TypeOK
  <2>2. /\ Len(versions) = 1 /\ versions[1] \in Versions
        /\ content[versions[1]].job \in Int /\ ServedTime = content[versions[1]].job
    BY <2>1, OneServed DEF ServedTime, Served
  <2>3. ~(content' = content /\ versions' = versions)
    <3> SUFFICES ASSUME content' = content, versions' = versions PROVE FALSE
      OBVIOUS
    <3>1. ServedTime' = ServedTime
      BY DEF ServedTime, Served
    <3> QED BY <2>2, <3>1
  <2>4. \A s \in Slots : ~InsertRows(s)
    <3> SUFFICES ASSUME NEW s \in Slots, InsertRows(s) PROVE FALSE
      OBVIOUS
    <3>1. exec[s].pc \in StorePCs /\ SlotServes(exec[s], versions, content)
      BY <2>1 DEF InsertRows, At, StorePCs, OneUpdates
    <3>2. NextVersion(exec[s].seen) # versions[1]
      BY <2>2, <3>1, Settings DEF SlotServes, NextVersion, Versions
    <3>3. DOMAIN content = Versions /\ versions' = versions
      BY DEF IInv, TypeOK, InsertRows
    <3>4. content'[versions[1]] = content[versions[1]]
      BY <2>2, <3>2, <3>3, SMTT(30) DEF InsertRows
    <3>5. ServedTime' = ServedTime
      BY <2>2, <3>3, <3>4 DEF ServedTime, Served
    <3> QED BY <2>2, <3>5
  <2>5. PICK s \in Slots : WriteVersion(s)
    BY <2>3, <2>4 DEF Next, Tick, Disable, DisableFails, StopJob, Launch, StartRun, Generate,
                      Record, NoQuery, ReadVersion, Enable, ScheduleTiles, PlanBackfill, Fault, storeVars
  <2>6. /\ Len(versions') = 1 /\ content'[versions'[1]].job = exec[s].job /\ exec'[s] = Idle
    BY <2>5, WriteVersionServes
  <2>7. ServedTime' = exec[s].job
    BY <2>6 DEF ServedTime, Served
  <2>8. SlotServes(exec[s], versions, content) /\ exec[s].pc = "writeVersion" /\ exec[s].job \in Int
    BY <2>1, <2>5, SlotFacts DEF OneUpdates, WriteVersion, At, Execution
  <2>9. exec[s].overtaken
    BY <2>2, <2>7, <2>8 DEF SlotServes, AtWork
  <2>10. exec'[s] # exec[s]
    BY <2>6, <2>8 DEF Idle
  <2> QED BY <2>9, <2>10
<1> QED BY <1>1, Inductive, Serving, PTL DEF Spec, ServedTimeAdvances
=============================================================================
