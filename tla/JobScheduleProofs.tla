------------------------- MODULE JobScheduleProofs -------------------------
(***************************************************************************)
(* Facts about the time arithmetic of JobSchedule, for all times and all   *)
(* settings that pass its validation.                                      *)
(***************************************************************************)
EXTENDS JobSchedule, TLAPS

(* Quotient and remainder of an integer.                                   *)
LEMMA DivMod ==
    ASSUME NEW a \in Int, NEW n \in Nat \ {0}
    PROVE  /\ a \div n \in Int
           /\ a % n \in 0..(n - 1)
           /\ a = (n * (a \div n)) + (a % n)
BY SMT

(* Multiples of n are at least n apart.                                    *)
LEMMA MultiplesApart ==
    ASSUME NEW p \in Int, NEW q \in Int, NEW n \in Nat \ {0}, p < q
    PROVE  /\ n * p \in Int /\ n * q \in Int
           /\ n * p + n <= n * q
BY SMT

(* The quotient is the only multiple of n within n below a.                *)
LEMMA QuotientUnique ==
    ASSUME NEW a \in Int, NEW q \in Int, NEW n \in Nat \ {0},
           n * q <= a, a < n * q + n
    PROVE  a \div n = q
<1> DEFINE d == a \div n
<1>1. d \in Int /\ n * d \in Int /\ n * q \in Int /\ n * d <= a /\ a < n * d + n
  BY DivMod
<1>2. ~(d < q)
  BY <1>1, MultiplesApart
<1>3. ~(q < d)
  BY <1>1, MultiplesApart
<1> QED BY <1>1, <1>2, <1>3

-----------------------------------------------------------------------------
(* get_next_job_datetime returns the first job time after t: a later time  *)
(* of the job grid, at most a period away, never t itself.  So the first   *)
(* case of _derive_correct_job_ts is never taken.                          *)
THEOREM NextJobAfter ==
    ASSUME NEW t \in Int
    PROVE  /\ NextJobTime(t) \in Int
           /\ t < NextJobTime(t) /\ NextJobTime(t) <= t + Frequency
           /\ NextJobTime(t) = IntervalStart(t) + Frequency
<1> DEFINE q == t \div Frequency
           r == t % Frequency
<1>1. /\ q \in Int /\ r \in 0..(Frequency - 1) /\ t = (Frequency * q) + r
      /\ Frequency * q \in Int /\ q * Frequency = Frequency * q
  BY DivMod, JobScheduleAssumption
<1>2. /\ Frequency \in Nat \ {0} /\ Modulo \in 0..(Frequency - 1)
  BY JobScheduleAssumption
<1>3. CASE r >= Modulo
  <2>1. Frequency * q <= t - Modulo /\ t - Modulo < Frequency * q + Frequency
    BY <1>1, <1>2, <1>3
  <2>2. (t - Modulo) \div Frequency = q
    BY <1>1, <1>2, <2>1, QuotientUnique
  <2>3. IntervalStart(t) = Frequency * q + Modulo
    BY <1>1, <2>2 DEF IntervalStart, IntervalOf
  <2>4. NextJobTime(t) = Frequency * q + Modulo + Frequency
    <3>1. CASE r > Modulo
      <4>1. ExpectedJobTime(t) = Frequency * q + Modulo + Frequency
        BY <1>1, <3>1 DEF ExpectedJobTime
      <4> QED BY <1>1, <1>2, <4>1 DEF NextJobTime
    <3>2. CASE r = Modulo
      <4>1. ExpectedJobTime(t) = Frequency * q + Modulo /\ t = Frequency * q + Modulo
        BY <1>1, <1>2, <3>2 DEF ExpectedJobTime
      <4> QED BY <4>1 DEF NextJobTime
    <3> QED BY <1>1, <1>2, <1>3, <3>1, <3>2
  <2> QED BY <1>1, <1>2, <1>3, <2>3, <2>4
<1>4. CASE r < Modulo
  <2>1. /\ Frequency * (q - 1) \in Int /\ Frequency * (q - 1) = Frequency * q - Frequency
        /\ (q - 1) * Frequency = Frequency * q - Frequency
    BY <1>1, <1>2
  <2>2. (t - Modulo) \div Frequency = q - 1
    <3>1. /\ Frequency * (q - 1) <= t - Modulo
          /\ t - Modulo < Frequency * (q - 1) + Frequency
      BY <1>1, <1>2, <1>4, <2>1
    <3> QED BY <1>1, <1>2, <3>1, QuotientUnique
  <2>3. IntervalStart(t) = Frequency * q - Frequency + Modulo
    BY <2>1, <2>2 DEF IntervalStart, IntervalOf
  <2>4. NextJobTime(t) = Frequency * q + Modulo
    <3>1. ExpectedJobTime(t) = Frequency * q + Modulo /\ t # Frequency * q + Modulo
      BY <1>1, <1>2, <1>4 DEF ExpectedJobTime
    <3> QED BY <3>1 DEF NextJobTime
  <2> QED BY <1>1, <1>2, <1>4, <2>3, <2>4
<1> QED BY <1>1, <1>2, <1>3, <1>4

(* The job time of a task that starts at t is the start of the interval    *)
(* that t is in, wherever in this interval the worker became free.         *)
THEOREM JobTimeIsIntervalStart ==
    ASSUME NEW t \in Int
    PROVE  /\ CorrectJobTime(t) \in Int
           /\ CorrectJobTime(t) = IntervalStart(t)
           /\ CorrectJobTime(t) <= t /\ t < CorrectJobTime(t) + Frequency
<1>1. Frequency \in Nat \ {0} /\ IntervalStart(t) \in Int
  BY JobScheduleAssumption, DivMod DEF IntervalStart, IntervalOf
<1> QED BY <1>1, NextJobAfter DEF CorrectJobTime

(* The due check of celery beat: a job is due iff it has not been launched *)
(* in the current interval, whatever the interval.                         *)
THEOREM DueOncePerInterval ==
    ASSUME NEW now \in Int, NEW last \in Int, last <= now,
           NEW interval \in Nat \ {0}
    PROVE  IsDue(now, last, interval) <=> IntervalOf(last, interval) < IntervalOf(now, interval)
<1> DEFINE a == now - Modulo
           b == last - Modulo
           p == a \div interval
           q == b \div interval
           r == a % interval
<1>1. Modulo \in Int /\ a \in Int /\ b \in Int /\ b <= a /\ a - b = now - last
  BY JobScheduleAssumption
<1>2. /\ p \in Int /\ interval * p \in Int /\ r \in 0..(interval - 1)
      /\ a = (interval * p) + r
  BY <1>1, DivMod
<1>3. /\ q \in Int /\ interval * q \in Int
      /\ interval * q <= b /\ b < interval * q + interval
  <2>1. /\ b % interval \in 0..(interval - 1) /\ b = (interval * q) + (b % interval)
        /\ q \in Int
    BY <1>1, DivMod
  <2> QED BY <2>1
<1> HIDE DEF a, b, p, q, r
<1>4. ASSUME q < p PROVE now - last > r
  <2>1. interval * q + interval <= interval * p
    BY <1>2, <1>3, <1>4, MultiplesApart
  <2> QED BY <1>1, <1>2, <1>3, <2>1
<1>5. ASSUME now - last > r PROVE q < p
  <2>1. b < interval * p
    BY <1>1, <1>2, <1>5
  <2>2. ~(p < q)
    <3>1. SUFFICES ASSUME p < q PROVE FALSE
      OBVIOUS
    <3>2. interval * p + interval <= interval * q
      BY <1>2, <1>3, <3>1, MultiplesApart
    <3> QED BY <1>1, <1>2, <1>3, <2>1, <3>2
  <2>3. p # q
    BY <1>1, <1>2, <1>3, <2>1
  <2> QED BY <1>2, <1>3, <2>2, <2>3
<1> QED BY <1>4, <1>5 DEF IsDue, IntervalOf, a, b, p, q, r

-----------------------------------------------------------------------------
(* Tile boundaries.                                                        *)
OnGrid(x) == \E i \in Int : x = IndexToTime(i)

LEMMA IndexToTimeInt ==
    ASSUME NEW k \in Int
    PROVE  IndexToTime(k) \in Int
BY JobScheduleAssumption DEF IndexToTime

LEMMA NextTile ==
    ASSUME NEW k \in Int
    PROVE  IndexToTime(k + 1) = IndexToTime(k) + Frequency
BY JobScheduleAssumption DEF IndexToTime

(* A boundary does not cut a tile.                                         *)
LEMMA GridSplit ==
    ASSUME NEW x, OnGrid(x), NEW k \in Int
    PROVE  x \in Int /\ (IndexToTime(k + 1) <= x \/ x <= IndexToTime(k))
<1>1. PICK i \in Int : x = IndexToTime(i)
  BY DEF OnGrid
<1>2. Frequency \in Nat \ {0} /\ Modulo \in Int /\ BlindSpot \in Int
  BY JobScheduleAssumption
<1>3. x = (Frequency * i) + (Modulo - BlindSpot) /\ Frequency * i \in Int
  BY <1>1, <1>2 DEF IndexToTime
<1>4. /\ IndexToTime(k) = (Frequency * k) + (Modulo - BlindSpot) /\ Frequency * k \in Int
  BY <1>2 DEF IndexToTime
<1>5. CASE k < i
  <2>1. Frequency * k + Frequency <= Frequency * i
    BY <1>2, <1>5, MultiplesApart
  <2> QED BY <1>2, <1>3, <1>4, <2>1, NextTile
<1>6. CASE i < k
  <2>1. Frequency * i + Frequency <= Frequency * k
    BY <1>2, <1>6, MultiplesApart
  <2> QED BY <1>2, <1>3, <1>4, <2>1
<1>7. CASE i = k
  BY <1>3, <1>4, <1>7
<1> QED BY <1>5, <1>6, <1>7

(* The tile of a time, except for the times before the first tile, where   *)
(* the truncation toward zero takes the next tile.                         *)
THEOREM TileOfTime ==
    ASSUME NEW t \in Int
    PROVE  /\ TileIndex(t) \in Int
           /\ t >= Modulo - BlindSpot =>
                IndexToTime(TileIndex(t)) <= t /\ t < IndexToTime(TileIndex(t) + 1)
<1> DEFINE shifted == t - (Modulo - BlindSpot)
<1>1. /\ Frequency \in Nat \ {0} /\ Modulo \in Int /\ BlindSpot \in Int
      /\ shifted \in Int /\ -shifted \in Int
  BY JobScheduleAssumption
<1>2. TileIndex(t) \in Int
  BY <1>1, DivMod DEF TileIndex
<1>3. ASSUME t >= Modulo - BlindSpot
      PROVE  IndexToTime(TileIndex(t)) <= t /\ t < IndexToTime(TileIndex(t) + 1)
  <2>1. TileIndex(t) = shifted \div Frequency
    BY <1>1, <1>3 DEF TileIndex
  <2>2. /\ shifted % Frequency \in 0..(Frequency - 1)
        /\ shifted = (Frequency * TileIndex(t)) + (shifted % Frequency)
    BY <1>1, <2>1, DivMod
  <2>3. IndexToTime(TileIndex(t)) = (Frequency * TileIndex(t)) + (Modulo - BlindSpot)
    BY <1>1, <1>2 DEF IndexToTime
  <2>4. Frequency * TileIndex(t) \in Int
    BY <1>1, <1>2
  <2> QED BY <1>1, <1>2, <2>2, <2>3, <2>4, NextTile
<1> QED BY <1>2, <1>3

(* A backfill from the epoch leaves out no tile that starts after it.      *)
LEMMA BackfillFromEpoch ==
    ASSUME NEW k \in Nat, IndexToTime(k) >= 0
    PROVE  BackfillStart(0) <= IndexToTime(k)
<1>1. Modulo \in Int /\ BlindSpot \in Int /\ Frequency \in Nat \ {0}
  BY JobScheduleAssumption
<1>2. CASE 0 >= Modulo - BlindSpot
  BY <1>1, <1>2, TileOfTime, IndexToTimeInt DEF BackfillStart
<1>3. CASE 0 < Modulo - BlindSpot
  <2> DEFINE d == Modulo - BlindSpot
  <2>1. d \in 0..(Frequency - 1)
    BY <1>1, <1>3, JobScheduleAssumption
  <2>2. d \div Frequency = 0
    BY <1>1, <2>1, QuotientUnique
  <2>3. TileIndex(0) = 0
    BY <1>1, <1>3, <2>1, <2>2 DEF TileIndex
  <2>4. IndexToTime(0) = d /\ IndexToTime(k) = (Frequency * k) + d /\ Frequency * k \in Nat
    BY <1>1 DEF IndexToTime
  <2> QED BY <2>1, <2>3, <2>4 DEF BackfillStart
<1> QED BY <1>1, <1>2, <1>3

(* The windows of ONLINE jobs start and end at tile boundaries, those of   *)
(* OFFLINE jobs if their period is a multiple of the frequency.            *)
LEMMA WindowsOnGrid ==
    ASSUME NEW t \in Int, NEW type \in {"ONLINE", "OFFLINE"},
           type = "OFFLINE" => OfflinePeriod % Frequency = 0
    PROVE  /\ OnGrid(WindowStart(type, CorrectJobTime(t)))
           /\ OnGrid(WindowEnd(type, CorrectJobTime(t)))
<1> DEFINE i == IntervalOf(t, Frequency)
           n == OfflinePeriod \div Frequency
           m == MonitorPeriods + 1
<1>1. /\ Frequency \in Nat \ {0} /\ Modulo \in Int /\ BlindSpot \in Int
      /\ MonitorPeriods \in Nat /\ OfflinePeriod \in Nat
  BY JobScheduleAssumption
<1>2. /\ i \in Int /\ n \in Int /\ m \in Int
      /\ type = "OFFLINE" => OfflinePeriod = Frequency * n
  BY <1>1, DivMod DEF IntervalOf
<1>3. CorrectJobTime(t) - BlindSpot = IndexToTime(i)
  BY <1>1, <1>2, JobTimeIsIntervalStart DEF IntervalStart, IndexToTime
<1>4. \A a, b \in Int : IndexToTime(a) - Frequency * b = IndexToTime(a - b)
  BY <1>1 DEF IndexToTime
<1>5. CASE type = "ONLINE"
  <2>1. CorrectJobTime(t) \in Int /\ IndexToTime(i) \in Int
    BY <1>2, JobTimeIsIntervalStart, IndexToTimeInt
  <2>2. WindowEnd(type, CorrectJobTime(t)) = IndexToTime(i)
    BY <1>1, <1>3, <1>5, <2>1 DEF WindowEnd
  <2>3. WindowStart(type, CorrectJobTime(t)) = IndexToTime(i - m)
    BY <1>2, <1>4, <1>5, <2>2 DEF WindowStart, Lookback
  <2> QED BY <1>2, <2>2, <2>3 DEF OnGrid
<1>6. CASE type = "OFFLINE"
  <2>1. WindowEnd(type, CorrectJobTime(t)) = IndexToTime(i - n)
    BY <1>2, <1>3, <1>4, <1>6 DEF WindowEnd
  <2>2. WindowStart(type, CorrectJobTime(t)) = IndexToTime(i - n - n)
    BY <1>2, <1>4, <1>6, <2>1 DEF WindowStart, Lookback
  <2> QED BY <1>2, <2>1, <2>2 DEF OnGrid
<1> QED BY <1>5, <1>6
=============================================================================
