---------------------------- MODULE JobSchedule ----------------------------
(***************************************************************************)
(* The time arithmetic of scheduled tile jobs: common/date_util.py, the    *)
(* customized celery beat of worker/schedulers.py, and the windows that    *)
(* tile_task_executor.py and feature_manager.py derive from it.            *)
(*                                                                         *)
(* Times are integers since the epoch (0).  The job of a tile is due once  *)
(* per interval [i*Frequency + Modulo, (i+1)*Frequency + Modulo).  Tile k  *)
(* covers [IndexToTime(k), IndexToTime(k+1)): the grid of the jobs moved   *)
(* back by the blind spot, the time that late rows may take to arrive.     *)
(***************************************************************************)
EXTENDS Integers

CONSTANTS Frequency,      \* frequency_minute, as a time
          Modulo,         \* time_modulo_frequency_second
          BlindSpot,      \* blind_spot_second
          MonitorPeriods, \* monitor_periods: periods an ONLINE job goes back
          OfflinePeriod   \* offline_period_minute: what an OFFLINE job recomputes

(* validate_job_setting_parameters requires Modulo < Frequency.            *)
ASSUME JobScheduleAssumption ==
    /\ Frequency \in Nat \ {0}
    /\ Modulo \in 0..(Frequency - 1)
    /\ BlindSpot \in Nat
    /\ MonitorPeriods \in Nat
    /\ OfflinePeriod \in Nat \ {0}

(* get_next_job_datetime: the expected job of the frequency slot that t    *)
(* is in, or the next one; a job time itself counts as gone by.            *)
ExpectedJobTime(t) ==
    (t \div Frequency) * Frequency + Modulo
        + (IF t % Frequency > Modulo THEN Frequency ELSE 0)

NextJobTime(t) ==
    IF t = ExpectedJobTime(t) THEN ExpectedJobTime(t) + Frequency ELSE ExpectedJobTime(t)

(* Faulty variant: the job time of a slot is taken as gone by from the     *)
(* start of the slot on.                                                   *)
SlotJobTime(t) == (t \div Frequency) * Frequency + Modulo

(* _derive_correct_job_ts; its first case never applies (NextJobAfter).    *)
CorrectJobTime(t) ==
    IF NextJobTime(t) = t THEN t ELSE NextJobTime(t) - Frequency

(* Faulty variant: a launch at the very start of an interval is forgotten. *)
IsDueAgain(now, last, interval) == now - last >= (now - Modulo) % interval

(* MongoScheduleEntry.is_due for a task that is launched every "interval"  *)
(* and was launched last at "last".                                        *)
IsDue(now, last, interval) == now - last > (now - Modulo) % interval

(* timestamp_utc_to_tile_index: int() truncates toward zero.               *)
TileIndex(t) ==
    LET shifted == t - (Modulo - BlindSpot) IN
    IF shifted >= 0 THEN shifted \div Frequency ELSE -((-shifted) \div Frequency)

(* tile_index_to_timestamp_utc.                                            *)
IndexToTime(k) == k * Frequency + (Modulo - BlindSpot)

-----------------------------------------------------------------------------
(* The window [start, end) of a job of a type that runs for job time j,    *)
(* before tile_task_executor compares it with the metadata of the tile.    *)
Interval(type) == IF type = "ONLINE" THEN Frequency ELSE OfflinePeriod

Lookback(type) ==
    IF type = "ONLINE" THEN Frequency * (MonitorPeriods + 1) ELSE OfflinePeriod

(* Faulty variant: rows that may still arrive are not waited for.          *)
WindowEndAtJob(type, j) == j - (IF type = "ONLINE" THEN 0 ELSE OfflinePeriod)

WindowEnd(type, j) == j - BlindSpot - (IF type = "ONLINE" THEN 0 ELSE OfflinePeriod)

WindowStart(type, j) == WindowEnd(type, j) - Lookback(type)

(* Faulty variant: the tile of the start itself is left out.               *)
BackfillAfter(from) == IndexToTime(TileIndex(from) + 1)

(* The window of _generate_historical_tiles that is computed at time t and *)
(* starts with the tile of time "from".                                    *)
BackfillStart(from) == IndexToTime(TileIndex(from))
BackfillEnd(t) == IndexToTime(TileIndex(t))

-----------------------------------------------------------------------------
(* References: the number of the interval a time is in, and its start.     *)
IntervalOf(t, interval) == (t - Modulo) \div interval
IntervalStart(t) == IntervalOf(t, Frequency) * Frequency + Modulo
=============================================================================
