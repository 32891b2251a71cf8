------------------------- MODULE SyncPipelineProofs -------------------------
(***************************************************************************)
(* Proofs about SyncPipeline, for every set of tickers and callers and     *)
(* every value of the day constants: the types, the inductive invariant    *)
(* and what follows from it, and the windows that leave no holes.          *)
(***************************************************************************)
EXTENDS SyncPipeline, WellFoundedInduction, FiniteSetTheorems, TLAPS

-----------------------------------------------------------------------------
(* Days and rows                                                           *)

\* Every non-empty set of naturals has a least element.
LEMMA NaturalsHaveLeast ==
  ASSUME NEW S \in SUBSET Nat, S # {}
  PROVE  \E d \in S : \A e \in S : d <= e
<1> DEFINE less == OpToRel(<, Nat)
<1>1. IsWellFoundedOn(less, Nat)
  BY NatLessThanWellFounded
<1>2. less = {p \in Nat \X Nat : p[1] < p[2]}
  BY DEF OpToRel
<1> HIDE DEF less
<1>3. PICK d \in S : \A e \in S : ~ (<<e, d>> \in less)
  BY <1>1, WFMin
<1>4. ASSUME NEW e \in S, e < d
      PROVE  <<e, d>> \in less
  BY <1>2, <1>4
<1>5. \A e \in S : ~ (e < d)
  BY <1>3, <1>4
<1> QED
  BY <1>5

\* Earliest picks the least element of a non-empty set of naturals.
LEMMA EarliestIsLeast ==
  ASSUME NEW S \in SUBSET Nat, S # {}
  PROVE  /\ Earliest(S) \in S
         /\ \A e \in S : Earliest(S) <= e
<1>1. \E d \in S : \A e \in S : d <= e
  BY NaturalsHaveLeast
<1> QED
  BY <1>1 DEF Earliest

\* A ticker with rows has a last stored day.
LEMMA LastDayIsLast ==
  ASSUME NEW h \in History, Stored(h) # {}
  PROVE  /\ LastDay(h) \in Stored(h)
         /\ \A e \in Stored(h) : e <= LastDay(h)
<1> DEFINE R == {MaxDay - d : d \in Stored(h)}
<1>1. R \in SUBSET Nat /\ R # {}
  BY DaysAssumption DEF Stored, Day
<1>2. PICK r \in R : \A q \in R : r <= q
  BY <1>1, NaturalsHaveLeast
<1>3. PICK d \in Stored(h) : r = MaxDay - d
  OBVIOUS
<1>4. \A e \in Stored(h) : e <= d
  BY <1>2, <1>3, DaysAssumption DEF Stored, Day
<1> QED
  BY <1>4 DEF LastDay

(* What the operations on a ticker's rows return. *)
LEMMA RowTypes ==
  ASSUME NEW h \in History, NEW rows \in History, NEW cutoff \in Int
  PROVE  /\ NoRows \in History
         /\ DeleteFrom(h, cutoff) \in History
         /\ From(h, cutoff) \in History
         /\ Insert(h, rows) \in History
  BY DEF History, NoRows, DeleteFrom, From, Insert, Mark

(* The row the serving table is given. *)
LEMMA LatestRowType ==
  ASSUME NEW h \in History
  PROVE  LatestRow(h) \in ServedRow
<1>1. CASE Stored(h) = {}
  BY <1>1 DEF LatestRow, ServedRow
<1>2. CASE Stored(h) # {}
  <2>1. LastDay(h) \in Day
    BY <1>2, LastDayIsLast DEF Stored
  <2> QED
    BY <1>2, <2>1 DEF LatestRow, ServedRow, History
<1> QED
  BY <1>1, <1>2

-----------------------------------------------------------------------------
(* The local variables of a sync and the tracker's snapshots have their    *)
(* types                                                                   *)

(* The record of no job is one of a job. *)
LEMMA NoJobType == NoJob \in JobType
  BY DEF NoJob, JobType, NoRows, History, Mark

(* The rows of a downloaded frame. *)
LEMMA RawType ==
  ASSUME NEW j \in JobType, NEW t \in Tickers
  PROVE  Raw(j, t) \in History
<1>1. j.frame[t] \in {"bar", "pad", "absent"}
  BY OutcomesAssumption DEF JobType
<1> QED
  BY <1>1 DEF Raw, History, Mark

(* The rows read from the table to warm the indicators up. *)
LEMMA WarmupType ==
  ASSUME TypeOK, NEW j \in JobType, NEW t \in Tickers
  PROVE  Warmup(j, t) \in History
  BY DEF TypeOK, Warmup, History, Mark

(* The rows a calculation returns. *)
LEMMA IndicatorsType ==
  ASSUME TypeOK, NEW j \in JobType, NEW t \in Tickers
  PROVE  Indicators(j, t) \in History
<1>1. Raw(j, t) \in History /\ Warmup(j, t) \in History
  BY RawType, WarmupType
<1>2. j.start \in Int
  BY DEF JobType
<1>3. Insert(Warmup(j, t), Raw(j, t)) \in History
  BY <1>1, <1>2, RowTypes
<1>4. From(Insert(Warmup(j, t), Raw(j, t)), j.start) \in History
  BY <1>2, <1>3, RowTypes
<1> QED
  BY <1>1, <1>4 DEF Indicators

(* The job a caller plans. *)
LEMMA PlanType ==
  ASSUME TypeOK, NEW c \in Callers, NEW universe \in SUBSET Tickers
  PROVE  Plan(c, universe) \in JobType
<1> DEFINE known == {t \in universe : Stored(data[t]) # {}}
           days == {LastDay(data[t]) : t \in known}
           spliced == IsIncremental(c) /\ known # {}
           start == IF spliced THEN Earliest(days) - BufferDays
                    ELSE today - FullDays
<1>1. \A t \in known : LastDay(data[t]) \in Day
  BY LastDayIsLast DEF TypeOK, Stored
<1>2. days \in SUBSET Nat
  BY <1>1, DaysAssumption DEF Day
<1>3. spliced => days # {}
  OBVIOUS
<1>4. spliced \in BOOLEAN
  BY DEF IsIncremental
<1>5. Plan(c, universe) =
        [NoJob EXCEPT !.universe = universe, !.spliced = spliced, !.start = start]
  BY DEF Plan
<1>6. today \in Nat
  BY DaysAssumption DEF TypeOK, Day
<1> HIDE DEF days, spliced
<1>7. spliced => Earliest(days) \in Nat
  BY <1>2, <1>3, EarliestIsLeast
<1>8. start \in Int
  BY <1>6, <1>7, DaysAssumption
<1> HIDE DEF start
<1> QED
  BY <1>4, <1>5, <1>8, NoJobType DEF NoJob, JobType

(* The first day of a slice is a day, and none of its dates is before it. *)
LEMMA CutoffType ==
  ASSUME NEW j \in JobType, j.dates # {}
  PROVE  /\ Cutoff(j) \in Day
         /\ \A d \in j.dates : Cutoff(j) <= d
<1>1. j.dates \in SUBSET Nat
  BY DaysAssumption DEF JobType, Day
<1>2. Earliest(j.dates) \in j.dates /\ \A d \in j.dates : Earliest(j.dates) <= d
  BY <1>1, EarliestIsLeast
<1> QED
  BY <1>2 DEF Cutoff, JobType

(* A set of tickers is finite. *)
LEMMA CardinalityTypes ==
  ASSUME NEW S \in SUBSET Tickers
  PROVE  Cardinality(S) \in Nat
  BY TickersAssumption, FS_Subset, FS_CardinalityType

(* What the status tracker says at the start of a sync. *)
LEMMA BeginType ==
  ASSUME NEW sources, NEW src \in sources, NEW s, NEW n \in Nat
  PROVE  Begin(s, src, n) \in StatusType(sources)
  BY DEF StatusType, Begin, InitialStatus, States, Phases

-----------------------------------------------------------------------------
(* Type correctness                                                        *)

(* Said once for the leaves without arithmetic. *)
LEMMA BooleanValues == TRUE \in BOOLEAN /\ FALSE \in BOOLEAN
  OBVIOUS

(* What it says after a success. *)
LEMMA SucceedType ==
  ASSUME TypeOK
  PROVE  Succeed(status) \in StatusType(Callers \cup {"system"})
  BY DEF TypeOK, Succeed, StatusType, States, Phases

(* What it says in between. *)
LEMMA UpdateTypes ==
  ASSUME TypeOK, NEW phase \in Phases, NEW n \in Nat
  PROVE  /\ Update(status, phase) \in StatusType(Callers \cup {"system"})
         /\ UpdateProgress(status, phase, n) \in StatusType(Callers \cup {"system"})
  BY DEF TypeOK, Update, UpdateProgress, StatusType

(* A slice's transaction as it is opened. *)
LEMMA OpenSliceType ==
  ASSUME TypeOK, NEW j \in JobType, NEW t \in Tickers, NEW r \in BOOLEAN
  PROVE  OpenSlice(j, t, r) \in TxType
<1>1. DeleteFrom(ohlcv[t], Cutoff(j)) \in History
  BY DEF TypeOK, DeleteFrom, History, Mark
<1>2. Insert(DeleteFrom(ohlcv[t], Cutoff(j)), Raw(j, t)) \in History
  BY <1>1, RawType DEF Insert, History, Mark
<1> QED
  BY <1>2 DEF TypeOK, OpenSlice, TxType

(* A job after its download. *)
LEMMA DownloadedType ==
  ASSUME NEW j \in JobType, NEW dates \in SUBSET Day,
         NEW frame \in [Tickers -> Outcomes \cup {"absent"}]
  PROVE  [j EXCEPT !.dates = dates, !.frame = frame] \in JobType
  BY DEF JobType

(* A job while it is calculated and written. *)
LEMMA JobUpdateTypes ==
  ASSUME job \in [Callers -> JobType], NEW c \in Callers
  PROVE  /\ \A rows \in [Tickers -> History] :
              [job EXCEPT ![c].indicators = rows] \in [Callers -> JobType]
         /\ \A t : [job EXCEPT ![c].todo = @ \ {t}] \in [Callers -> JobType]
<1>1. ASSUME NEW rows \in [Tickers -> History]
      PROVE  [job EXCEPT ![c].indicators = rows] \in [Callers -> JobType]
  BY DEF JobType
<1>2. ASSUME NEW t
      PROVE  [job EXCEPT ![c].todo = @ \ {t}] \in [Callers -> JobType]
  <2>1. job[c].todo \ {t} \in SUBSET Tickers
    BY DEF JobType
  <2>2. [job[c] EXCEPT !.todo = job[c].todo \ {t}] \in JobType
    BY <2>1 DEF JobType
  <2>3. [job EXCEPT ![c].todo = @ \ {t}] =
          [job EXCEPT ![c] = [job[c] EXCEPT !.todo = job[c].todo \ {t}]]
    OBVIOUS
  <2> QED
    BY <2>2, <2>3
<1> QED
  BY <1>1, <1>2

(* What leaving the lock does to the types. *)
LEMMA ReleaseType ==
  ASSUME TypeOK, NEW c \in Callers, Release(c)
  PROVE  /\ pc' \in [Callers -> Labels]
         /\ job' \in [Callers -> JobType]
         /\ syncLock' \in Callers \cup {NoOne}
         /\ up' \in BOOLEAN
  BY NoJobType DEF TypeOK, Release, Goto, Labels

(* What an exception does to the types. *)
LEMMA GiveUpType ==
  ASSUME TypeOK, NEW c \in Callers, GiveUp(c)
  PROVE  /\ pc' \in [Callers -> Labels]
         /\ job' \in [Callers -> JobType]
         /\ syncLock' \in Callers \cup {NoOne}
         /\ up' \in BOOLEAN
         /\ faulted' \in BOOLEAN
         /\ status' \in StatusType(Callers \cup {"system"})
<1>1. Fail(status) \in StatusType(Callers \cup {"system"})
  BY DEF TypeOK, Fail, StatusType, States, Phases
<1> QED
  BY <1>1, ReleaseType DEF GiveUp

(* The types at the start. *)
LEMMA InitTypeOK == Init => TypeOK
<1> SUFFICES ASSUME Init PROVE TypeOK
  OBVIOUS
<1>1. NoRows \in History /\ NoRow \in ServedRow
  BY DEF NoRows, NoRow, History, Mark, ServedRow
<1>2. InitialStatus \in StatusType(Callers \cup {"system"})
  BY DEF InitialStatus, StatusType, States, Phases
<1>3. today \in Day /\ published \in Day \cup {-1}
  BY DaysAssumption DEF Init, Day
<1>4. /\ ohlcv \in [Tickers -> History] /\ data \in [Tickers -> History]
      /\ cache \in [Tickers -> ServedRow]
  BY <1>1 DEF Init
<1>5. /\ pc \in [Callers -> Labels] /\ job \in [Callers -> JobType]
      /\ tx \in TxType
  BY NoJobType DEF Init, Labels, TxType
<1> QED
  BY <1>2, <1>3, <1>4, <1>5 DEF Init, TypeOK

(* The types after every step. *)
LEMMA StepTypeOK == TypeOK /\ [Next]_vars => TypeOK'
<1> SUFFICES ASSUME TypeOK, [Next]_vars PROVE TypeOK'
  OBVIOUS
<1> USE DEF TypeOK
<1>2. ASSUME NEW c \in Callers, SkipFresh(c) PROVE TypeOK'
  <2>1. Begin(status, c, 0) \in StatusType(Callers \cup {"system"})
    BY BeginType
  <2>2. status' \in StatusType(Callers \cup {"system"})
    BY <1>2, <2>1 DEF SkipFresh, Succeed, StatusType, States, Phases
  <2> QED
    BY <1>2, <2>2 DEF SkipFresh, clock, tables, serving, control
<1>3. ASSUME NEW c \in Callers, Start(c) PROVE TypeOK'
  <2>1. PICK universe \in SUBSET Tickers :
             /\ job' = [job EXCEPT ![c] = Plan(c, universe)]
             /\ status' = Begin(status, c, Cardinality(universe))
    BY <1>3 DEF Start, Requests, Stale
  <2>2. status' \in StatusType(Callers \cup {"system"})
    BY <2>1, BeginType, CardinalityTypes
  <2>3. job' \in [Callers -> JobType]
    BY <2>1, PlanType
  <2>4. pc' \in [Callers -> Labels]
    BY <1>3 DEF Start, Goto, Labels
  <2> QED
    BY <1>3, <2>2, <2>3, <2>4 DEF Start, clock, tables, serving
<1>4. ASSUME NEW c \in Callers, Download(c) PROVE TypeOK'
  <2> DEFINE dates == {d \in TradingDays : job[c].start <= d /\ d <= published}
             frame(out) == [t \in Tickers |->
                              IF t \in job[c].universe THEN out[t] ELSE "absent"]
  <2>1. PICK out \in [job[c].universe -> Outcomes] :
             job' = [job EXCEPT ![c] =
                       [job[c] EXCEPT !.dates = dates, !.frame = frame(out)]]
    BY <1>4 DEF Download
  <2>2. dates \in SUBSET Day
    BY DaysAssumption
  <2>3. frame(out) \in [Tickers -> Outcomes \cup {"absent"}]
    OBVIOUS
  <2>4. [job[c] EXCEPT !.dates = dates, !.frame = frame(out)] \in JobType
    BY ONLY <2>2, <2>3, job[c] \in JobType, DownloadedType
  <2>5. job' \in [Callers -> JobType]
    BY <2>1, <2>4
  <2>6. status' \in StatusType(Callers \cup {"system"})
    BY <1>4, UpdateTypes DEF Download, Phases
  <2> QED
    BY <1>4, <2>5, <2>6 DEF Download, Goto, Labels, clock, tables, serving
<1>5. ASSUME NEW c \in Callers, DownloadEmpty(c) PROVE TypeOK'
  <2>1. status' \in StatusType(Callers \cup {"system"})
    BY <1>5, SucceedType DEF DownloadEmpty
  <2> QED
    BY <1>5, <2>1, ReleaseType DEF DownloadEmpty, clock, tables, serving
<1>6. ASSUME NEW c \in Callers, DownloadFails(c) PROVE TypeOK'
  BY <1>6, GiveUpType DEF DownloadFails, clock, tables, serving
<1>7. ASSUME NEW c \in Callers, Calculate(c) PROVE TypeOK'
  <2>1. [t \in Tickers |-> Indicators(job[c], t)] \in [Tickers -> History]
    BY IndicatorsType
  <2>2. job' \in [Callers -> JobType]
    BY <1>7, <2>1, JobUpdateTypes DEF Calculate
  <2>3. status' \in StatusType(Callers \cup {"system"})
    BY <1>7, UpdateTypes DEF Calculate, Phases
  <2> QED
    BY <1>7, <2>2, <2>3 DEF Calculate, Goto, Labels, clock, tables, serving
<1>8. ASSUME NEW c \in Callers, CalculateFails(c) PROVE TypeOK'
  BY <1>8, GiveUpType DEF CalculateFails, clock, tables, serving
<1>9. ASSUME NEW c \in Callers, FetchMetadata(c) PROVE TypeOK'
  <2>1. PICK info \in SUBSET Tickers :
             job' = [job EXCEPT ![c] =
                       [job[c] EXCEPT !.info = info, !.todo = job[c].universe]]
    BY <1>9 DEF FetchMetadata, JobType
  <2>2. [job[c] EXCEPT !.info = info, !.todo = job[c].universe] \in JobType
    BY DEF JobType
  <2>3. job' \in [Callers -> JobType]
    BY <2>1, <2>2
  <2> QED
    BY <1>9, <2>3 DEF FetchMetadata, Goto, Labels, clock, tables, serving
<1>10. ASSUME NEW c \in Callers, MetadataRaises(c) PROVE TypeOK'
  BY <1>10, ReleaseType DEF MetadataRaises, clock, tables, serving
<1>11. ASSUME NEW c \in Callers, WriteOhlcv(c) PROVE TypeOK'
  <2>1. PICK t \in job[c].todo :
             job[c].frame[t] # "absent" /\ tx' = OpenSlice(job[c], t, FALSE)
    BY <1>11 DEF WriteOhlcv
  <2>2. tx' \in TxType
    BY <2>1, OpenSliceType, BooleanValues DEF JobType
  <2>3. Done(job[c]) \in Nat
    BY CardinalityTypes DEF Done, JobType
  <2>4. status' \in StatusType(Callers \cup {"system"})
    BY <1>11, <2>3, UpdateTypes DEF WriteOhlcv, Phases
  <2> QED
    BY <1>11, <2>2, <2>4 DEF WriteOhlcv, clock, tables, serving, control
<1>12. ASSUME NEW c \in Callers, SkipAbsent(c) PROVE TypeOK'
  <2>1. PICK t \in job[c].todo : job' = [job EXCEPT ![c].todo = @ \ {t}]
    BY <1>12 DEF SkipAbsent
  <2>2. job' \in [Callers -> JobType]
    BY <2>1, JobUpdateTypes
  <2> QED
    BY <1>12, <2>2 DEF SkipAbsent, clock, tables, serving
<1>13. ASSUME NEW c \in Callers, WriteData(c) PROVE TypeOK'
  <2>1. tx \in [stage : {"ohlcv", "data"}, ticker : Tickers, retried : BOOLEAN,
                ohlcv : History, data : History]
    BY <1>13 DEF WriteData, TxType, NoTx
  <2>2. Cutoff(job[c]) \in Int => DeleteFrom(data[tx.ticker], Cutoff(job[c])) \in History
    BY <2>1, RowTypes
  <2>3. DeleteFrom(data[tx.ticker], Cutoff(job[c])) \in History
    BY <2>1 DEF DeleteFrom, History, Mark
  <2>4. Insert(DeleteFrom(data[tx.ticker], Cutoff(job[c])),
               job[c].indicators[tx.ticker]) \in History
    BY <2>1, <2>3 DEF Insert, History, Mark, JobType
  <2>5. tx' \in TxType
    BY <1>13, <2>1, <2>4 DEF WriteData, TxType
  <2> QED
    BY <1>13, <2>5 DEF WriteData, clock, tables, serving, control
<1>14. ASSUME NEW c \in Callers, CommitSlice(c) PROVE TypeOK'
  <2>1. tx \in [stage : {"ohlcv", "data"}, ticker : Tickers, retried : BOOLEAN,
                ohlcv : History, data : History]
    BY <1>14 DEF CommitSlice, TxType, NoTx
  <2>2. /\ ohlcv' \in [Tickers -> History]
        /\ data' \in [Tickers -> History]
    BY <1>14, <2>1 DEF CommitSlice
  <2>3. job' \in [Callers -> JobType]
    BY <1>14, JobUpdateTypes DEF CommitSlice
  <2>4. tx' \in TxType
    BY <1>14 DEF CommitSlice, TxType
  <2> QED
    BY <1>14, <2>2, <2>3, <2>4 DEF CommitSlice, clock, serving
<1>15. ASSUME NEW c \in Callers, RetryWithoutIndexes(c) PROVE TypeOK'
  <2>1. tx.ticker \in Tickers
    BY <1>15 DEF RetryWithoutIndexes, TxType
  <2>2. tx' \in TxType
    BY <1>15, <2>1, OpenSliceType, BooleanValues DEF RetryWithoutIndexes
  <2> QED
    BY <1>15, <2>2 DEF RetryWithoutIndexes, clock, tables, control
<1>16. ASSUME NEW c \in Callers, SliceFails(c) PROVE TypeOK'
  <2>1. tx' \in TxType
    BY <1>16 DEF SliceFails, TxType
  <2> QED
    BY <1>16, <2>1, GiveUpType DEF SliceFails, clock, tables, serving
<1>17. ASSUME NEW c \in Callers, WriteMetadata(c) PROVE TypeOK'
  <2>1. described' \subseteq Tickers
    BY <1>17 DEF WriteMetadata, JobType
  <2>2. Cardinality(job[c].universe) \in Nat
    BY CardinalityTypes DEF JobType
  <2>3. status' \in StatusType(Callers \cup {"system"})
    BY <1>17, <2>2, UpdateTypes DEF WriteMetadata, Phases
  <2> QED
    BY <1>17, <2>1, <2>3 DEF WriteMetadata, Goto, Labels, clock, tables
<1>18. ASSUME NEW c \in Callers, CreateIndexes(c) PROVE TypeOK'
  <2>1. Cardinality(job[c].universe) \in Nat
    BY CardinalityTypes DEF JobType
  <2>2. status' \in StatusType(Callers \cup {"system"})
    BY <1>18, <2>1, UpdateTypes DEF CreateIndexes, Phases
  <2> QED
    BY <1>18, <2>2 DEF CreateIndexes, Goto, Labels, clock, tables
<1>19. ASSUME NEW c \in Callers, RefreshDelete(c) PROVE TypeOK'
  <2>1. cache' \in [Tickers -> ServedRow]
    BY <1>19 DEF RefreshDelete, ServedRow
  <2> QED
    BY <1>19, <2>1 DEF RefreshDelete, Goto, Labels, clock, tables
<1>20. ASSUME NEW c \in Callers, RefreshInsert(c) PROVE TypeOK'
  <2>1. \A t \in Tickers : LatestRow(data[t]) \in ServedRow
    BY LatestRowType
  <2>2. cache' \in [Tickers -> ServedRow]
    BY <1>20, <2>1 DEF RefreshInsert
  <2> QED
    BY <1>20, <2>2 DEF RefreshInsert, Goto, Labels, clock, tables
<1>21. ASSUME NEW c \in Callers, WriteFails(c) PROVE TypeOK'
  BY <1>21, GiveUpType DEF WriteFails, clock, tables, serving
<1>22. ASSUME NEW c \in Callers, Finish(c) PROVE TypeOK'
  <2>1. status' \in StatusType(Callers \cup {"system"})
    BY <1>22, SucceedType DEF Finish
  <2> QED
    BY <1>22, <2>1, ReleaseType DEF Finish, clock, tables, serving
<1>23. ASSUME Crash PROVE TypeOK'
  <2>1. InitialStatus \in StatusType(Callers \cup {"system"})
    BY DEF InitialStatus, StatusType, States, Phases
  <2> QED
    BY <1>23, <2>1, NoJobType DEF Crash, Labels, TxType, clock, tables, serving
<1>24. ASSUME Boot PROVE TypeOK'
  <2>1. \A t \in Tickers : LatestRow(data[t]) \in ServedRow
    BY LatestRowType
  <2> QED
    BY <1>24, <2>1 DEF Boot, clock, tables
<1>25. ASSUME DayPasses PROVE TypeOK'
  BY <1>25, DaysAssumption DEF DayPasses, Day, tables, serving, control
<1>26. ASSUME Publish PROVE TypeOK'
  BY <1>26 DEF Publish, tables, serving, control
<1>27. CASE UNCHANGED vars
  BY <1>27 DEF vars, clock, tables, serving, control
<1>28. ASSUME NEW c \in Callers, Sync(c) PROVE TypeOK'
  BY <1>28, <1>4, <1>5, <1>6, <1>7, <1>8, <1>9, <1>10, <1>11, <1>12, <1>13,
     <1>14, <1>15, <1>16, <1>17, <1>18, <1>19, <1>20, <1>21, <1>22 DEF Sync
<1> QED
  BY <1>2, <1>3, <1>23, <1>24, <1>25, <1>26, <1>27, <1>28 DEF Next

\* The values every variable ranges over, whatever the sizes of the instance.
THEOREM TypeCorrect == Spec => []TypeOK
<1> QED
  BY InitTypeOK, StepTypeOK, PTL DEF Spec

(***************************************************************************)
(* The inductive invariant SyncInv, proved conjunct by conjunct, and the   *)
(* safety and action properties that follow from it.                       *)
(***************************************************************************)

-----------------------------------------------------------------------------
(* What a slice does to the rows of a ticker                               *)

\* The rows a slice leaves behind.
Replaced(h, j, t) == Insert(DeleteFrom(h, Cutoff(j)), Raw(j, t))

(* A downloaded row is a bar or a pad, and there is one exactly on the     *)
(* dates that were asked for of a ticker in the frame.                     *)
LEMMA RawMarks ==
  ASSUME NEW j \in JobType, NEW t \in Tickers, NEW d \in Day
  PROVE  /\ Raw(j, t)[d] \in {"none", "pad", "bar"}
         /\ Raw(j, t)[d] # "none" <=> j.frame[t] # "absent" /\ d \in j.dates
<1>1. j.frame[t] \in {"bar", "pad", "absent"}
  BY OutcomesAssumption DEF JobType
<1> QED
  BY <1>1 DEF Raw

\* The range deleted holds the range inserted, so no day gets two rows.
LEMMA ReplacedHasNoDuplicates ==
  ASSUME NEW h \in History, \A d \in Day : h[d] # "dup",
         NEW j \in JobType, NEW t \in Tickers, j.dates # {}
  PROVE  \A d \in Day : Replaced(h, j, t)[d] # "dup"
<1> SUFFICES ASSUME NEW d \in Day PROVE Replaced(h, j, t)[d] # "dup"
  OBVIOUS
<1>1. d < Cutoff(j) => Raw(j, t)[d] = "none"
  <2>1. Cutoff(j) \in Int /\ d \in Int
    BY CutoffType, DaysAssumption DEF Day
  <2>2. d < Cutoff(j) => d \notin j.dates
    BY <2>1, CutoffType
  <2> QED
    BY <2>2, RawMarks
<1>2. Raw(j, t)[d] \in {"none", "pad", "bar"}
  BY RawMarks
<1> DEFINE rows == Raw(j, t)
<1> HIDE DEF rows
<1> QED
  BY <1>1, <1>2 DEF Replaced, Insert, DeleteFrom, rows

\* If the frame covers the stored days of its window, none is lost.
LEMMA ReplacedCovers ==
  ASSUME NEW h \in History, NEW j \in JobType, NEW t \in Tickers,
         j.dates # {}, j.frame[t] # "absent",
         \A d \in j.dates : j.start <= d,
         \A d \in Stored(h) : j.start <= d => d \in j.dates
  PROVE  Stored(Replaced(h, j, t)) = Stored(h) \cup j.dates
<1>1. Cutoff(j) \in Int /\ j.start \in Int /\ j.start <= Cutoff(j)
  BY CutoffType, EarliestIsLeast, DaysAssumption DEF Day, JobType, Cutoff
<1>2. ASSUME NEW d \in Day
      PROVE  Replaced(h, j, t)[d] # "none" <=> h[d] # "none" \/ d \in j.dates
  <2>1. d \in Int
    BY DaysAssumption DEF Day
  <2>2. d \in j.dates => Cutoff(j) <= d
    BY CutoffType
  <2>3. h[d] # "none" /\ Cutoff(j) <= d => d \in j.dates
    BY <1>1, <2>1 DEF Stored
  <2>4. Raw(j, t)[d] # "none" <=> d \in j.dates
    BY RawMarks
  <2> DEFINE rows == Raw(j, t)
  <2> HIDE DEF rows
  <2> QED
    BY <1>1, <2>1, <2>2, <2>3, <2>4 DEF Replaced, Insert, DeleteFrom, rows
<1> QED
  BY <1>2 DEF Stored, JobType

\* Filtering from the window's start undoes the splicing of warmup rows.
LEMMA IndicatorsAreRaw ==
  ASSUME TypeOK, NEW j \in JobType, NEW t \in Tickers,
         \A d \in j.dates : j.start <= d
  PROVE  Indicators(j, t) = Raw(j, t)
<1>1. ASSUME NEW d \in Day
      PROVE  From(Insert(Warmup(j, t), Raw(j, t)), j.start)[d] = Raw(j, t)[d]
  <2>1. d \in Int /\ j.start \in Int
    BY DaysAssumption DEF Day, JobType
  <2>2. j.start <= d => Warmup(j, t)[d] = "none"
    BY <2>1 DEF Warmup
  <2>3. ~ (j.start <= d) => Raw(j, t)[d] = "none"
    BY RawMarks
  <2> DEFINE rows == Raw(j, t)
             before == Warmup(j, t)
  <2> HIDE DEF rows, before
  <2> QED
    BY <2>1, <2>2, <2>3 DEF From, Insert, rows, before
<1>2. /\ From(Insert(Warmup(j, t), Raw(j, t)), j.start) =
           [d \in Day |-> From(Insert(Warmup(j, t), Raw(j, t)), j.start)[d]]
      /\ Raw(j, t) = [d \in Day |-> Raw(j, t)[d]]
  BY DEF From, Raw
<1>3. From(Insert(Warmup(j, t), Raw(j, t)), j.start) = Raw(j, t)
  BY <1>1, <1>2
<1> QED
  BY <1>3 DEF Indicators

-----------------------------------------------------------------------------
(* Who moves: a step of a sync is a step of the lock's holder              *)

(* The free lock is told from every caller. *)
LEMMA NoOneIsNoCaller == NoOne \notin Callers
  BY CallersAssumption DEF NoOne, IncrementalSources

\* What a step of one sync leaves alone.
LEMMA SyncFrame ==
  ASSUME TypeOK, NEW c \in Callers, Sync(c)
  PROVE  /\ pc[c] # "idle"
         /\ UNCHANGED <<today, published, up>>
         /\ CommitSlice(c) \/ UNCHANGED <<ohlcv, data>>
         /\ \A d \in Callers \ {c} : pc'[d] = pc[d] /\ job'[d] = job[d]
         /\ syncLock' = IF pc'[c] = "idle" THEN NoOne ELSE syncLock
<1> USE DEF At, Goto, Release, GiveUp, clock, tables, serving, control, TypeOK
<1>1. CASE Download(c) BY <1>1 DEF Download
<1>2. CASE DownloadEmpty(c) BY <1>2 DEF DownloadEmpty
<1>3. CASE DownloadFails(c) BY <1>3 DEF DownloadFails
<1>4. CASE Calculate(c) BY <1>4 DEF Calculate
<1>5. CASE CalculateFails(c) BY <1>5 DEF CalculateFails
<1>6. CASE FetchMetadata(c) BY <1>6 DEF FetchMetadata
<1>7. CASE MetadataRaises(c) BY <1>7 DEF MetadataRaises
<1>8. CASE WriteOhlcv(c) BY <1>8 DEF WriteOhlcv
<1>9. CASE SkipAbsent(c) BY <1>9 DEF SkipAbsent
<1>10. CASE WriteData(c) BY <1>10 DEF WriteData
<1>11. CASE CommitSlice(c) BY <1>11 DEF CommitSlice
<1>12. CASE RetryWithoutIndexes(c) BY <1>12 DEF RetryWithoutIndexes
<1>13. CASE SliceFails(c) BY <1>13 DEF SliceFails
<1>14. CASE WriteMetadata(c) BY <1>14 DEF WriteMetadata
<1>15. CASE CreateIndexes(c) BY <1>15 DEF CreateIndexes
<1>16. CASE RefreshDelete(c) BY <1>16 DEF RefreshDelete
<1>17. CASE RefreshInsert(c) BY <1>17 DEF RefreshInsert
<1>18. CASE WriteFails(c) BY <1>18 DEF WriteFails
<1>19. CASE Finish(c) BY <1>19 DEF Finish
<1> QED
  BY <1>1, <1>2, <1>3, <1>4, <1>5, <1>6, <1>7, <1>8, <1>9, <1>10, <1>11, <1>12,
     <1>13, <1>14, <1>15, <1>16, <1>17, <1>18, <1>19 DEF Sync

\* Only the holder is inside; the others are idle before and after its step.
LEMMA OthersIdle ==
  ASSUME TypeOK, LockInv, NEW c \in Callers, Sync(c)
  PROVE  \A d \in Callers \ {c} : pc[d] = "idle" /\ pc'[d] = "idle"
  BY SyncFrame DEF LockInv

(* Nobody runs while the lock is free. *)
LEMMA NobodyInside ==
  ASSUME LockInv, syncLock = NoOne
  PROVE  \A c \in Callers : pc[c] = "idle"
  BY NoOneIsNoCaller DEF LockInv

(* Every step keeps the callers to the lock: only its holder is inside. *)
LEMMA StepLockInv ==
  ASSUME TypeOK, LockInv, [Next]_vars
  PROVE  LockInv'
<1>1. ASSUME NEW c \in Callers, SkipFresh(c) PROVE LockInv'
  BY <1>1 DEF SkipFresh, LockInv, control
<1>2. ASSUME NEW c \in Callers, Start(c) PROVE LockInv'
  <2>1. /\ pc' = [pc EXCEPT ![c] = "downloading"] /\ syncLock' = c
        /\ \A d \in Callers : pc[d] = "idle"
    BY <1>2, NobodyInside DEF Start, Goto
  <2> QED
    BY <2>1 DEF LockInv, TypeOK
<1>3. ASSUME NEW c \in Callers, Sync(c) PROVE LockInv'
  BY <1>3, SyncFrame, OthersIdle, NoOneIsNoCaller DEF LockInv
<1>4. ASSUME Crash PROVE LockInv'
  BY <1>4, NoOneIsNoCaller DEF Crash, LockInv
<1>5. ASSUME Boot \/ DayPasses \/ Publish \/ UNCHANGED vars PROVE LockInv'
  BY <1>5 DEF Boot, DayPasses, Publish, vars, control, LockInv
<1> QED
  BY <1>1, <1>2, <1>3, <1>4, <1>5 DEF Next

-----------------------------------------------------------------------------
(* The frame of the holder                                                 *)

\* A step of the holder past its download leaves its frame alone.
LEMMA FrameKept ==
  ASSUME TypeOK, NEW c \in Callers, Sync(c),
         pc[c] # "downloading", pc'[c] # "idle"
  PROVE  /\ job'[c].dates = job[c].dates /\ job'[c].start = job[c].start
         /\ job'[c].frame = job[c].frame
         /\ job'[c].universe = job[c].universe
         /\ Calculate(c) \/ job'[c].indicators = job[c].indicators
         /\ Calculate(c) \/ pc[c] # "calculating"
         /\ pc'[c] \notin {"downloading", "calculating"}
<1> USE DEF At, Goto, Release, GiveUp, control, TypeOK
<1>1. CASE Calculate(c)
  <2>1. job[c] \in JobType
    OBVIOUS
  <2>2. job'[c] = [job[c] EXCEPT !.indicators = [t \in Tickers |-> Indicators(job[c], t)]]
    BY <1>1 DEF Calculate
  <2> QED
    BY <1>1, <2>1, <2>2 DEF Calculate, JobType
<1>2. CASE FetchMetadata(c)
  <2>1. job[c] \in JobType
    OBVIOUS
  <2>2. PICK info, todo : job'[c] = [job[c] EXCEPT !.info = info, !.todo = todo]
    BY <1>2 DEF FetchMetadata
  <2> QED
    BY <1>2, <2>1, <2>2 DEF FetchMetadata, JobType
<1>3. CASE SkipAbsent(c) \/ CommitSlice(c)
  <2>1. job[c] \in JobType
    OBVIOUS
  <2>2. PICK todo : job'[c] = [job[c] EXCEPT !.todo = todo]
    BY <1>3 DEF SkipAbsent, CommitSlice
  <2> QED
    BY <1>3, <2>1, <2>2 DEF SkipAbsent, CommitSlice, JobType
<1>4. CASE WriteOhlcv(c) \/ WriteData(c) \/ RetryWithoutIndexes(c)
  BY <1>4 DEF WriteOhlcv, WriteData, RetryWithoutIndexes
<1>5. CASE WriteMetadata(c) \/ CreateIndexes(c) \/ RefreshDelete(c) \/ RefreshInsert(c)
  BY <1>5 DEF WriteMetadata, CreateIndexes, RefreshDelete, RefreshInsert
<1>6. CASE DownloadEmpty(c) \/ DownloadFails(c) \/ CalculateFails(c)
             \/ MetadataRaises(c) \/ SliceFails(c) \/ WriteFails(c) \/ Finish(c)
  BY <1>6 DEF DownloadEmpty, DownloadFails, CalculateFails, MetadataRaises,
              SliceFails, WriteFails, Finish
<1>7. CASE Download(c)
  BY <1>7 DEF Download
<1> QED
  BY <1>1, <1>2, <1>3, <1>4, <1>5, <1>6, <1>7 DEF Sync

\* A committed slice of the holder.
LEMMA CommittedSlice ==
  ASSUME TypeOK, LockInv, FrameInv, SliceInv, TablesAgree,
         NEW c \in Callers, CommitSlice(c)
  PROVE  /\ tx.ticker \in Tickers /\ job[c] \in JobType
         /\ job[c].dates # {} /\ job[c].frame[tx.ticker] # "absent"
         /\ tx.data = tx.ohlcv
         /\ tx.data = Replaced(data[tx.ticker], job[c], tx.ticker)
         /\ data' = [data EXCEPT ![tx.ticker] = tx.data]
         /\ ohlcv' = [ohlcv EXCEPT ![tx.ticker] = tx.data]
         /\ tx.ticker \in job[c].todo
<1>1. tx.stage = "data" /\ pc[c] = "writing"
  BY DEF CommitSlice, At
<1>2. PICK b \in Callers :
        /\ pc[b] = "writing" /\ tx.ticker \in job[b].todo
        /\ job[b].frame[tx.ticker] # "absent"
        /\ tx.ohlcv = Insert(DeleteFrom(ohlcv[tx.ticker], Cutoff(job[b])),
                             Raw(job[b], tx.ticker))
        /\ tx.stage = "data" => tx.data = tx.ohlcv
  BY <1>1 DEF SliceInv, NoTx
<1>3. b = c
  BY <1>1, <1>2 DEF LockInv
<1>4. job[c] \in JobType /\ tx.ticker \in Tickers
  BY <1>2, <1>3 DEF TypeOK, JobType
<1>5. job[c].dates # {}
  BY <1>1 DEF FrameInv
<1> QED
  BY <1>1, <1>2, <1>3, <1>4, <1>5 DEF CommitSlice, TablesAgree, Replaced

\* The stored days after a commit: the old ones and the frame's.
LEMMA CommittedDays ==
  ASSUME TypeOK, LockInv, FrameInv, SliceInv, TablesAgree,
         NEW c \in Callers, CommitSlice(c), NEW t \in Tickers
  PROVE  Stored(data'[t]) = IF t = tx.ticker THEN Stored(data[t]) \cup job[c].dates
                            ELSE Stored(data[t])
<1>1. pc[c] = "writing"
  BY DEF CommitSlice, At
<1>2. /\ data[tx.ticker] \in History /\ job[c].dates # {}
      /\ \A d \in job[c].dates : job[c].start <= d
      /\ \A d \in Stored(data[tx.ticker]) : job[c].start <= d => d \in job[c].dates
  BY <1>1, CommittedSlice DEF FrameInv, TypeOK
<1>3. Stored(Replaced(data[tx.ticker], job[c], tx.ticker)) =
        Stored(data[tx.ticker]) \cup job[c].dates
  BY <1>2, CommittedSlice, ReplacedCovers
<1> QED
  BY <1>3, CommittedSlice DEF TypeOK

(* Every step keeps what the tables show to what a sync has written. *)
LEMMA StepPublishedInv ==
  ASSUME SyncInv, [Next]_vars
  PROVE  PublishedInv'
<1> USE DEF SyncInv
<1>1. ASSUME NEW c \in Callers, CommitSlice(c) PROVE PublishedInv'
  <2>1. pc[c] = "writing" /\ published' = published
    BY <1>1 DEF CommitSlice, At, clock
  <2>2. \A d \in job[c].dates : d \in TradingDays /\ d <= published
    BY <2>1 DEF FrameInv
  <2> QED
    BY <1>1, <2>1, <2>2, CommittedDays DEF PublishedInv
<1>2. ASSUME NEW c \in Callers, Sync(c), ~CommitSlice(c) PROVE PublishedInv'
  BY <1>2, SyncFrame DEF PublishedInv
<1>3. ASSUME Publish PROVE PublishedInv'
  <2>1. /\ data' = data /\ published \in Int /\ published' \in Int
        /\ published <= published'
    BY <1>3, DaysAssumption DEF Publish, tables, TypeOK, Day
  <2>2. \A t \in Tickers : \A d \in Stored(data[t]) : d \in Int
    BY DaysAssumption DEF Stored, Day
  <2> QED
    BY <2>1, <2>2 DEF PublishedInv
<1>4. ASSUME UNCHANGED <<data, published>> PROVE PublishedInv'
  BY <1>4 DEF PublishedInv
<1>5. ASSUME NEW c \in Callers, SkipFresh(c) \/ Start(c)
      PROVE  UNCHANGED <<data, published>>
  BY <1>5 DEF SkipFresh, Start, clock, tables
<1>6. ASSUME Crash \/ Boot \/ DayPasses \/ UNCHANGED vars
      PROVE  UNCHANGED <<data, published>>
  BY <1>6 DEF Crash, Boot, DayPasses, vars, clock, tables
<1> QED
  BY <1>1, <1>2, <1>3, <1>4, <1>5, <1>6 DEF Next

\* What FrameInv says of one caller.
Framed(c) ==
  /\ job[c].dates # {} /\ job[c].dates \subseteq TradingDays
  /\ \A d \in job[c].dates : job[c].start <= d /\ d <= published
  /\ \A t \in Tickers : \A d \in Stored(data[t]) :
       job[c].start <= d => d \in job[c].dates
  /\ pc[c] # "calculating" =>
       \A t \in Tickers : job[c].indicators[t] = Raw(job[c], t)

(* A download fits its job's frame. *)
LEMMA FramedByDownload ==
  ASSUME SyncInv, NEW c \in Callers, Download(c)
  PROVE  Framed(c)'
<1> USE DEF SyncInv
<1> DEFINE dates == {d \in TradingDays : job[c].start <= d /\ d <= published}
<1>1. job[c] \in JobType
  BY DEF TypeOK
<1>2. PICK frame : job'[c] = [job[c] EXCEPT !.dates = dates, !.frame = frame]
  BY DEF Download, TypeOK
<1>3. job'[c].dates = dates /\ job'[c].start = job[c].start /\ dates # {}
  BY <1>1, <1>2 DEF Download, JobType
<1>4. data' = data /\ published' = published /\ pc'[c] = "calculating"
  BY DEF Download, Goto, TypeOK, tables, clock
<1>5. \A t \in Tickers : \A d \in Stored(data[t]) :
         job[c].start <= d => d \in dates
  BY DEF PublishedInv
<1> QED
  BY <1>3, <1>4, <1>5 DEF Framed

(* A calculation fits its job's frame. *)
LEMMA FramedByCalculate ==
  ASSUME SyncInv, NEW c \in Callers, Calculate(c)
  PROVE  Framed(c)'
<1> USE DEF SyncInv
<1> DEFINE ind == [t \in Tickers |-> Indicators(job[c], t)]
<1>1. job[c] \in JobType /\ pc[c] = "calculating"
  BY DEF TypeOK, Calculate, At
<1>2. job'[c] = [job[c] EXCEPT !.indicators = ind]
  BY DEF Calculate, TypeOK
<1>3. /\ job'[c].dates = job[c].dates /\ job'[c].start = job[c].start
      /\ job'[c].frame = job[c].frame /\ job'[c].indicators = ind
  BY <1>1, <1>2 DEF JobType
<1>4. data' = data /\ published' = published
  BY DEF Calculate, tables, clock
<1>5. \A t \in Tickers : ind[t] = Raw(job[c], t)
  BY <1>1, IndicatorsAreRaw DEF FrameInv
<1>6. \A t \in Tickers : Raw(job'[c], t) = Raw(job[c], t)
  BY <1>3 DEF Raw
<1> HIDE DEF ind
<1> QED
  BY <1>1, <1>3, <1>4, <1>5, <1>6 DEF Framed, FrameInv

(* A committed slice leaves the frame of the rest as it was. *)
LEMMA FramedByCommit ==
  ASSUME SyncInv, NEW c \in Callers, CommitSlice(c)
  PROVE  Framed(c)'
<1> USE DEF SyncInv
<1>1. pc[c] = "writing" /\ pc'[c] = "writing" /\ published' = published /\ Sync(c)
  BY DEF CommitSlice, At, clock, Sync
<1>2. /\ job'[c].dates = job[c].dates /\ job'[c].start = job[c].start
      /\ job'[c].frame = job[c].frame /\ job'[c].indicators = job[c].indicators
  BY <1>1, FrameKept DEF Calculate, At
<1>3. \A t \in Tickers : Raw(job'[c], t) = Raw(job[c], t)
  BY <1>2 DEF Raw
<1>4. \A t \in Tickers : \A d \in Stored(data'[t]) :
         job[c].start <= d => d \in job[c].dates
  BY <1>1, CommittedDays DEF FrameInv
<1> QED
  BY <1>1, <1>2, <1>3, <1>4 DEF Framed, FrameInv

(* Every step keeps each job's rows within what it downloaded. *)
LEMMA StepFrameInv ==
  ASSUME SyncInv, [Next]_vars
  PROVE  FrameInv'
<1> USE DEF SyncInv
<1>1. ASSUME NEW c \in Callers, SkipFresh(c) PROVE FrameInv'
  BY <1>1 DEF SkipFresh, FrameInv, Raw, clock, tables, control
<1>2. ASSUME NEW c \in Callers, Start(c) PROVE FrameInv'
  <2>1. \A d \in Callers : pc'[d] \in {"idle", "downloading"}
    BY <1>2, NobodyInside DEF Start, Goto, TypeOK
  <2> QED
    BY <2>1 DEF FrameInv
<1>3. ASSUME NEW c \in Callers, Sync(c) PROVE FrameInv'
  <2>1. SUFFICES ASSUME pc'[c] \notin {"idle", "downloading"} PROVE Framed(c)'
    BY <1>3, OthersIdle DEF FrameInv, Framed
  <2>2. CASE Download(c)
    BY <2>2, FramedByDownload
  <2>3. CASE Calculate(c)
    BY <2>3, FramedByCalculate
  <2>4. CASE CommitSlice(c)
    BY <2>4, FramedByCommit
  <2>5. CASE ~Download(c) /\ ~Calculate(c) /\ ~CommitSlice(c)
    <3>1. pc[c] # "downloading"
      BY <1>3, <2>1, <2>5 DEF Sync, DownloadEmpty, DownloadFails, GiveUp, Release,
         Goto, TypeOK, At, CalculateFails, FetchMetadata, MetadataRaises,
         WriteOhlcv, SkipAbsent, WriteData, RetryWithoutIndexes, SliceFails,
         WriteMetadata, CreateIndexes, RefreshDelete, RefreshInsert, WriteFails,
         Finish
    <3>2. /\ job'[c].dates = job[c].dates /\ job'[c].start = job[c].start
          /\ job'[c].frame = job[c].frame
          /\ job'[c].indicators = job[c].indicators
          /\ pc[c] # "calculating"
      BY <1>3, <2>1, <2>5, <3>1, FrameKept
    <3>3. data' = data /\ published' = published /\ pc[c] # "idle"
      BY <1>3, <2>5, SyncFrame
    <3>4. \A t \in Tickers : Raw(job'[c], t) = Raw(job[c], t)
      BY <3>2 DEF Raw
    <3> QED
      BY <3>1, <3>2, <3>3, <3>4 DEF Framed, FrameInv
  <2> QED
    BY <2>2, <2>3, <2>4, <2>5
<1>4. ASSUME Crash PROVE FrameInv'
  BY <1>4 DEF Crash, FrameInv
<1>5. ASSUME Boot \/ DayPasses \/ UNCHANGED vars PROVE FrameInv'
  BY <1>5 DEF Boot, DayPasses, FrameInv, Raw, vars, clock, tables, control
<1>6. ASSUME Publish PROVE FrameInv'
  <2>1. /\ UNCHANGED <<pc, job, data>> /\ published \in Int /\ published' \in Int
        /\ published <= published'
    BY <1>6, DaysAssumption DEF Publish, tables, control, TypeOK, Day
  <2>2. \A c \in Callers : \A d \in job[c].dates : d \in Int
    BY DaysAssumption DEF TypeOK, JobType, Day
  <2> QED
    BY <2>1, <2>2 DEF FrameInv, Raw
<1> QED
  BY <1>1, <1>2, <1>3, <1>4, <1>5, <1>6 DEF Next

-----------------------------------------------------------------------------
(* The open transaction                                                    *)

\* Outside a write loop no transaction is open.
LEMMA NoOpenSlice ==
  ASSUME LockInv, SliceInv
  PROVE  /\ syncLock = NoOne => tx = NoTx
         /\ \A c \in Callers : pc[c] \notin {"idle", "writing"} => tx = NoTx
<1>1. syncLock = NoOne => tx = NoTx
  BY NobodyInside DEF SliceInv
<1>2. ASSUME NEW c \in Callers, pc[c] \notin {"idle", "writing"} PROVE tx = NoTx
  BY <1>2 DEF LockInv, SliceInv
<1> QED
  BY <1>1, <1>2

\* What SliceInv says of the writing caller.
Slicing(c) ==
  /\ pc[c] = "writing" /\ tx.ticker \in job[c].todo
  /\ job[c].frame[tx.ticker] # "absent"
  /\ tx.ohlcv = Replaced(ohlcv[tx.ticker], job[c], tx.ticker)
  /\ tx.stage = "data" => tx.data = tx.ohlcv

(* An open transaction belongs to the caller who is writing. *)
LEMMA SliceOfHolder ==
  ASSUME LockInv, SliceInv, tx # NoTx, NEW c \in Callers, pc[c] = "writing"
  PROVE  Slicing(c)
<1>1. PICK b \in Callers : Slicing(b)
  BY DEF SliceInv, Slicing, Replaced
<1>2. b = c
  BY <1>1 DEF Slicing, LockInv
<1> QED
  BY <1>1, <1>2

(* A slice that is opened is the slice of its job. *)
LEMMA OpenedSlice ==
  ASSUME NEW c \in Callers, NEW t \in Tickers, NEW retried,
         pc[c] = "writing", t \in job[c].todo, job[c].frame[t] # "absent",
         UNCHANGED <<pc, job, ohlcv>>, tx' = OpenSlice(job[c], t, retried)
  PROVE  Slicing(c)'
<1>1. /\ tx'.stage = "ohlcv" /\ tx'.ticker = t
      /\ tx'.ohlcv = Replaced(ohlcv[t], job[c], t)
  BY DEF OpenSlice, Replaced
<1> QED
  BY <1>1 DEF Slicing, Replaced, Cutoff, Raw

(* Every step keeps an open transaction to the slice of its job. *)
LEMMA StepSliceInv ==
  ASSUME SyncInv, [Next]_vars
  PROVE  SliceInv'
<1> USE DEF SyncInv
<1>1. ASSUME tx' = NoTx PROVE SliceInv'
  BY <1>1 DEF SliceInv
<1>2. ASSUME NEW c \in Callers, SkipFresh(c) PROVE SliceInv'
  BY <1>1, <1>2, NoOpenSlice DEF SkipFresh
<1>3. ASSUME NEW c \in Callers, Start(c) PROVE SliceInv'
  BY <1>1, <1>3, NoOpenSlice DEF Start
<1>4. ASSUME NEW c \in Callers, Slicing(c)' PROVE SliceInv'
  BY <1>4 DEF SliceInv, Slicing, Replaced
<1>5. ASSUME NEW c \in Callers, WriteOhlcv(c) PROVE SliceInv'
  <2>1. PICK t \in job[c].todo :
          job[c].frame[t] # "absent" /\ tx' = OpenSlice(job[c], t, FALSE)
    BY <1>5 DEF WriteOhlcv
  <2>2. t \in Tickers /\ pc[c] = "writing" /\ UNCHANGED <<pc, job, ohlcv>>
    BY <1>5 DEF WriteOhlcv, At, tables, control, TypeOK, JobType
  <2> QED
    BY <2>1, <2>2, <1>4, OpenedSlice
<1>6. ASSUME NEW c \in Callers, RetryWithoutIndexes(c) PROVE SliceInv'
  <2>1. /\ pc[c] = "writing" /\ UNCHANGED <<pc, job, ohlcv>> /\ tx # NoTx
        /\ tx' = OpenSlice(job[c], tx.ticker, TRUE)
    BY <1>6 DEF RetryWithoutIndexes, At, tables, control
  <2>2. Slicing(c)
    BY <2>1, SliceOfHolder
  <2>3. tx.ticker \in Tickers
    BY <2>2 DEF Slicing, TypeOK, JobType
  <2> QED
    BY <2>1, <2>2, <2>3, <1>4, OpenedSlice DEF Slicing
<1>7. ASSUME NEW c \in Callers, WriteData(c) PROVE SliceInv'
  <2>1. pc[c] = "writing" /\ UNCHANGED <<pc, job, ohlcv>> /\ tx # NoTx
    BY <1>7 DEF WriteData, At, tables, control, NoTx
  <2>2. Slicing(c)
    BY <2>1, SliceOfHolder
  <2>3. tx.ticker \in Tickers
    BY <2>2 DEF Slicing, TypeOK, JobType
  <2>4. tx \in [stage : {"ohlcv", "data"}, ticker : Tickers, retried : BOOLEAN,
                ohlcv : History, data : History]
    BY <2>1 DEF TypeOK, TxType
  <2>5. Insert(DeleteFrom(data[tx.ticker], Cutoff(job[c])),
               job[c].indicators[tx.ticker]) = Replaced(ohlcv[tx.ticker], job[c], tx.ticker)
    BY <2>1, <2>3 DEF FrameInv, TablesAgree, Replaced
  <2>6. /\ tx'.ticker = tx.ticker /\ tx'.ohlcv = tx.ohlcv
        /\ tx'.data = tx.ohlcv
    BY <1>7, <2>2, <2>4, <2>5 DEF WriteData, Slicing
  <2>7. Slicing(c)'
    BY <2>1, <2>2, <2>6 DEF Slicing, Replaced, Cutoff, Raw
  <2> QED
    BY <1>4, <2>7
<1>8. ASSUME NEW c \in Callers, CommitSlice(c) \/ SliceFails(c) PROVE SliceInv'
  BY <1>1, <1>8 DEF CommitSlice, SliceFails
<1>9. ASSUME NEW c \in Callers, SkipAbsent(c) \/ WriteMetadata(c) PROVE SliceInv'
  BY <1>1, <1>9 DEF SkipAbsent, WriteMetadata
<1>10. ASSUME NEW c \in Callers, WriteFails(c) PROVE SliceInv'
  BY <1>1, <1>10, NoOpenSlice DEF WriteFails, At
<1>11. ASSUME NEW c \in Callers, pc[c] \notin {"idle", "writing"}, tx' = tx
       PROVE  SliceInv'
  BY <1>1, <1>11, NoOpenSlice
<1>12. ASSUME NEW c \in Callers,
              \/ Download(c) \/ DownloadEmpty(c) \/ DownloadFails(c)
              \/ Calculate(c) \/ CalculateFails(c)
              \/ FetchMetadata(c) \/ MetadataRaises(c)
       PROVE  SliceInv'
  BY <1>11, <1>12 DEF Download, DownloadEmpty, DownloadFails, Calculate,
     CalculateFails, FetchMetadata, MetadataRaises, At
<1>13. ASSUME NEW c \in Callers,
              CreateIndexes(c) \/ RefreshDelete(c) \/ RefreshInsert(c) \/ Finish(c)
       PROVE  SliceInv'
  BY <1>11, <1>13 DEF CreateIndexes, RefreshDelete, RefreshInsert, Finish, At
<1>14. ASSUME NEW c \in Callers, Sync(c) PROVE SliceInv'
  BY <1>14, <1>5, <1>6, <1>7, <1>8, <1>9, <1>10, <1>12, <1>13 DEF Sync
<1>15. ASSUME Crash PROVE SliceInv'
  BY <1>1, <1>15 DEF Crash
<1>16. ASSUME UNCHANGED <<pc, job, tx, ohlcv>> PROVE SliceInv'
  BY <1>16 DEF SliceInv, Cutoff, Raw
<1>17. ASSUME Boot \/ DayPasses \/ Publish \/ UNCHANGED vars PROVE SliceInv'
  BY <1>16, <1>17 DEF Boot, DayPasses, Publish, vars, tables, control
<1> QED
  BY <1>2, <1>3, <1>14, <1>15, <1>17 DEF Next

-----------------------------------------------------------------------------
(* The two tables                                                          *)

(* Only a commit changes the two tables. *)
LEMMA TablesKept ==
  ASSUME TypeOK, [Next]_vars, \A c \in Callers : ~CommitSlice(c)
  PROVE  UNCHANGED <<ohlcv, data>>
<1>1. ASSUME NEW c \in Callers, Sync(c) PROVE UNCHANGED <<ohlcv, data>>
  BY <1>1, SyncFrame
<1>2. ASSUME NEW c \in Callers, SkipFresh(c) \/ Start(c)
      PROVE  UNCHANGED <<ohlcv, data>>
  BY <1>2 DEF SkipFresh, Start, tables
<1>3. ASSUME Crash \/ Boot \/ DayPasses \/ Publish \/ UNCHANGED vars
      PROVE  UNCHANGED <<ohlcv, data>>
  BY <1>3 DEF Crash, Boot, DayPasses, Publish, vars, tables
<1> QED
  BY <1>1, <1>2, <1>3 DEF Next

(* Every step keeps the serving table to the latest rows of the history. *)
LEMMA StepTablesAgree ==
  ASSUME SyncInv, [Next]_vars
  PROVE  TablesAgree'
<1> USE DEF SyncInv
<1>1. ASSUME NEW c \in Callers, CommitSlice(c) PROVE TablesAgree'
  BY <1>1, CommittedSlice DEF TablesAgree, TypeOK
<1>2. ASSUME UNCHANGED <<ohlcv, data>> PROVE TablesAgree'
  BY <1>2 DEF TablesAgree
<1> QED
  BY <1>1, <1>2, TablesKept

(* Every step keeps one row per ticker and day. *)
LEMMA StepNoDuplicateRows ==
  ASSUME SyncInv, [Next]_vars
  PROVE  NoDuplicateRows'
<1> USE DEF SyncInv
<1>1. ASSUME NEW c \in Callers, CommitSlice(c) PROVE NoDuplicateRows'
  <2>1. /\ data[tx.ticker] \in History
        /\ \A d \in Day : data[tx.ticker][d] # "dup"
    BY <1>1, CommittedSlice DEF TypeOK, NoDuplicateRows
  <2>2. \A d \in Day : tx.data[d] # "dup"
    BY <1>1, <2>1, CommittedSlice, ReplacedHasNoDuplicates
  <2> QED
    BY <1>1, <2>2, CommittedSlice DEF NoDuplicateRows, TypeOK
<1>2. ASSUME UNCHANGED <<ohlcv, data>> PROVE NoDuplicateRows'
  BY <1>2 DEF NoDuplicateRows
<1> QED
  BY <1>1, <1>2, TablesKept

-----------------------------------------------------------------------------
(* How far the holder has come                                             *)

\* What ProgressInv says of one caller.
Progress(c) ==
  /\ job[c].todo \subseteq job[c].universe
  /\ pc[c] = "writing" => job[c].universe \subseteq described \cup job[c].info
  /\ pc[c] \in {"indexing", "refreshing", "inserting", "finishing"} =>
       job[c].todo = {} /\ job[c].universe \subseteq described
  /\ pc[c] \in {"refreshing", "inserting", "finishing"} => indexed
  /\ pc[c] = "finishing" =>
       \A t \in job[c].universe : cache[t] = LatestRow(data[t])

(* A caller outside claims no progress. *)
LEMMA ReleasedProgress ==
  ASSUME TypeOK, NEW c \in Callers, Release(c)
  PROVE  Progress(c)'
<1>1. pc'[c] = "idle" /\ job'[c] = NoJob
  BY DEF Release, Goto, TypeOK
<1> QED
  BY <1>1 DEF Progress, NoJob

\* An idle caller has nothing to account for but its empty job.
LEMMA IdleProgress ==
  ASSUME ProgressInv, NEW c \in Callers, pc'[c] = "idle", job'[c] = job[c]
  PROVE  Progress(c)'
  BY DEF Progress, ProgressInv

(* Every step keeps a job's progress to what it has committed. *)
LEMMA StepProgressInv ==
  ASSUME SyncInv, [Next]_vars
  PROVE  ProgressInv'
<1> USE DEF SyncInv
<1>1. ASSUME NEW c \in Callers, Start(c) PROVE ProgressInv'
  <2>1. PICK universe \in SUBSET Tickers : job' = [job EXCEPT ![c] = Plan(c, universe)]
    BY <1>1 DEF Start, Requests, Stale
  <2>2. Plan(c, universe).todo = {}
    BY DEF Plan, NoJob
  <2>3. /\ pc'[c] = "downloading" /\ job'[c] = Plan(c, universe)
        /\ \A d \in Callers \ {c} : pc'[d] = "idle" /\ job'[d] = job[d]
    BY <1>1, <2>1, NobodyInside DEF Start, Goto, TypeOK
  <2>4. Progress(c)'
    BY <2>2, <2>3 DEF Progress
  <2>5. \A d \in Callers \ {c} : Progress(d)'
    BY <2>3, IdleProgress
  <2> QED
    BY <2>4, <2>5 DEF ProgressInv, Progress
<1>2. ASSUME NEW c \in Callers, Sync(c) PROVE ProgressInv'
  <2> USE DEF At, Goto
  <2>1. SUFFICES Progress(c)'
    BY <1>2, SyncFrame, OthersIdle, IdleProgress DEF ProgressInv, Progress
  <2>2. Progress(c)
    BY DEF ProgressInv, Progress
  <2>3. job[c] \in JobType /\ pc \in [Callers -> Labels] /\ job \in [Callers -> JobType]
    BY DEF TypeOK
  <2>4. CASE Download(c)
    <3> DEFINE dates == {d \in TradingDays : job[c].start <= d /\ d <= published}
    <3>1. PICK frame : job'[c] = [job[c] EXCEPT !.dates = dates, !.frame = frame]
      BY <2>3, <2>4 DEF Download
    <3>2. job'[c].todo = job[c].todo /\ job'[c].universe = job[c].universe
      BY <2>3, <3>1 DEF JobType
    <3> QED
      BY <2>2, <2>3, <2>4, <3>2 DEF Download, Progress
  <2>5. CASE Calculate(c)
    <3>1. PICK rows : job'[c] = [job[c] EXCEPT !.indicators = rows]
      BY <2>3, <2>5 DEF Calculate
    <3>2. job'[c].todo = job[c].todo /\ job'[c].universe = job[c].universe
      BY <2>3, <3>1 DEF JobType
    <3> QED
      BY <2>2, <2>3, <2>5, <3>2 DEF Calculate, Progress
  <2>6. CASE FetchMetadata(c)
    <3>1. job'[c] = [job[c] EXCEPT
             !.info = IF IsIncremental(c) THEN job[c].universe \ described
                                          ELSE job[c].universe,
             !.todo = job[c].universe]
      BY <2>3, <2>6 DEF FetchMetadata
    <3>2. /\ job'[c].todo = job[c].universe /\ job'[c].universe = job[c].universe
          /\ job[c].universe \subseteq described \cup job'[c].info
      BY <2>3, <3>1 DEF JobType
    <3> QED
      BY <2>3, <2>6, <3>2 DEF FetchMetadata, Progress, serving
  <2>7. CASE SkipAbsent(c) \/ CommitSlice(c)
    <3>1. PICK t : job'[c] = [job[c] EXCEPT !.todo = job[c].todo \ {t}]
      BY <2>3, <2>7 DEF SkipAbsent, CommitSlice
    <3>2. /\ job'[c].todo \subseteq job[c].todo /\ job'[c].info = job[c].info
          /\ job'[c].universe = job[c].universe
      BY <2>3, <3>1 DEF JobType
    <3> QED
      BY <2>2, <2>3, <2>7, <3>2 DEF SkipAbsent, CommitSlice, Progress, serving
  <2>8. CASE WriteOhlcv(c)
    BY <2>2, <2>8 DEF WriteOhlcv, Progress, serving, control
  <2>9. CASE WriteData(c)
    BY <2>2, <2>9 DEF WriteData, Progress, serving, control
  <2>10. CASE RetryWithoutIndexes(c)
    BY <2>2, <2>10 DEF RetryWithoutIndexes, Progress, control
  <2>11. CASE WriteMetadata(c)
    BY <2>2, <2>3, <2>11 DEF WriteMetadata, Progress
  <2>12. CASE CreateIndexes(c)
    BY <2>2, <2>3, <2>12 DEF CreateIndexes, Progress
  <2>13. CASE RefreshDelete(c)
    BY <2>2, <2>3, <2>13 DEF RefreshDelete, Progress
  <2>14. CASE RefreshInsert(c)
    <3>1. \A t \in job[c].universe : cache'[t] = LatestRow(data[t])
      BY <2>3, <2>14 DEF RefreshInsert, JobType
    <3>2. UNCHANGED <<described, indexed, job, data>> /\ pc'[c] = "finishing"
      BY <2>3, <2>14 DEF RefreshInsert, tables
    <3> QED
      BY <2>2, <2>14, <3>1, <3>2 DEF RefreshInsert, Progress
  <2>15. CASE DownloadEmpty(c) \/ DownloadFails(c) \/ CalculateFails(c)
                \/ MetadataRaises(c) \/ SliceFails(c) \/ WriteFails(c) \/ Finish(c)
    BY <2>15, ReleasedProgress DEF DownloadEmpty, DownloadFails, CalculateFails,
       MetadataRaises, SliceFails, WriteFails, Finish, GiveUp
  <2> QED
    BY <1>2, <2>4, <2>5, <2>6, <2>7, <2>8, <2>9, <2>10, <2>11, <2>12, <2>13,
       <2>14, <2>15 DEF Sync
<1>3. ASSUME Crash PROVE ProgressInv'
  BY <1>3 DEF Crash, ProgressInv, NoJob
<1>4. ASSUME Boot PROVE ProgressInv'
  <2>1. /\ UNCHANGED <<described, pc, job, data>> /\ indexed' = TRUE
        /\ \A t \in Tickers : cache'[t] = LatestRow(data[t])
    BY <1>4 DEF Boot, tables
  <2>2. \A c \in Callers : job[c].universe \subseteq Tickers
    BY DEF TypeOK, JobType
  <2> QED
    BY <2>1, <2>2 DEF ProgressInv
<1>5. ASSUME UNCHANGED <<described, indexed, cache, pc, job, data>> PROVE ProgressInv'
  BY <1>5 DEF ProgressInv
<1>6. ASSUME NEW c \in Callers, SkipFresh(c) PROVE ProgressInv'
  BY <1>5, <1>6 DEF SkipFresh, tables, serving, control
<1>7. ASSUME DayPasses \/ Publish \/ UNCHANGED vars PROVE ProgressInv'
  BY <1>5, <1>7 DEF DayPasses, Publish, vars, tables, serving, control
<1> QED
  BY <1>1, <1>2, <1>3, <1>4, <1>6, <1>7 DEF Next

-----------------------------------------------------------------------------
(* The status                                                              *)

\* What StatusDescribesHolder says of the caller that holds the lock.
Reported(c) ==
  /\ status.state = "running" /\ status.source = c
  /\ status.target = Cardinality(job[c].universe)
  /\ status.completed <=
       IF pc[c] \in {"downloading", "calculating", "metadata"} THEN 0
       ELSE Done(job[c])

(* The number of tickers done is one, and all of them when nothing is left *)
(* to do.                                                                  *)
LEMMA DoneTypes ==
  ASSUME NEW j \in JobType
  PROVE  /\ Done(j) \in Nat /\ Cardinality(j.universe) \in Nat
         /\ j.todo = {} => Done(j) = Cardinality(j.universe)
<1>1. j.universe \in SUBSET Tickers
  BY DEF JobType
<1>2. j.universe \ {} = j.universe
  OBVIOUS
<1> QED
  BY <1>1, <1>2, CardinalityTypes DEF Done

\* A ticker less to do is never a ticker less done.
LEMMA DoneGrows ==
  ASSUME TypeOK, NEW c \in Callers,
         job'[c].universe = job[c].universe, job'[c].todo \subseteq job[c].todo
  PROVE  Done(job[c]) <= Done(job'[c])
<1> DEFINE before == job[c].universe \ job[c].todo
           after == job'[c].universe \ job'[c].todo
<1>1. before \subseteq after /\ after \in SUBSET Tickers
  BY DEF TypeOK, JobType
<1>2. IsFiniteSet(after)
  BY <1>1, TickersAssumption, FS_Subset
<1>3. Cardinality(before) <= Cardinality(after)
  BY <1>1, <1>2, FS_Subset
<1> QED
  BY <1>3 DEF Done

(* Every step keeps the status to the caller inside. *)
LEMMA StepStatusDescribesHolder ==
  ASSUME SyncInv, [Next]_vars
  PROVE  StatusDescribesHolder'
<1> USE DEF SyncInv
<1>1. ASSUME NEW c \in Callers, SkipFresh(c) PROVE StatusDescribesHolder'
  BY <1>1, NoOneIsNoCaller DEF SkipFresh, control, StatusDescribesHolder
<1>2. ASSUME NEW c \in Callers, Start(c) PROVE StatusDescribesHolder'
  <2>1. PICK universe \in SUBSET Tickers :
          /\ job' = [job EXCEPT ![c] = Plan(c, universe)]
          /\ status' = Begin(status, c, Cardinality(universe))
    BY <1>2 DEF Start, Requests, Stale
  <2>2. /\ status'.state = "running" /\ status'.source = c
        /\ status'.target = Cardinality(universe) /\ status'.completed = 0
    BY <2>1 DEF Begin, InitialStatus
  <2>3. job'[c].universe = universe /\ pc'[c] = "downloading" /\ syncLock' = c
    BY <1>2, <2>1 DEF Start, Goto, TypeOK, Plan, NoJob
  <2> QED
    BY <2>2, <2>3 DEF StatusDescribesHolder
<1>3. ASSUME NEW c \in Callers, Sync(c) PROVE StatusDescribesHolder'
  <2> USE DEF At, Goto
  <2>1. SUFFICES ASSUME pc'[c] # "idle" PROVE Reported(c)'
    BY <1>3, SyncFrame, NoOneIsNoCaller DEF LockInv, StatusDescribesHolder, Reported
  <2>2. /\ Reported(c) /\ status.completed \in Nat
        /\ job[c] \in JobType /\ pc \in [Callers -> Labels]
        /\ status \in StatusType(Callers \cup {"system"})
        /\ job'[c] \in JobType
    BY <1>3, SyncFrame, StepTypeOK DEF StatusDescribesHolder, Reported, TypeOK, StatusType, LockInv
  <2>3. Done(job[c]) \in Nat /\ Cardinality(job[c].universe) \in Nat
    BY <2>2, DoneTypes
  <2>4. CASE Download(c)
    <3> DEFINE dates == {d \in TradingDays : job[c].start <= d /\ d <= published}
    <3>1. PICK frame : job'[c] = [job[c] EXCEPT !.dates = dates, !.frame = frame]
      BY <2>4 DEF Download, TypeOK
    <3>2. job'[c].universe = job[c].universe
      BY <2>2, <3>1 DEF JobType
    <3> QED
      BY <2>2, <2>4, <3>2 DEF Download, Reported, Update, StatusType
  <2>5. CASE Calculate(c)
    <3>1. job'[c].universe = job[c].universe
      BY <1>3, <2>1, <2>5, FrameKept DEF Calculate
    <3> QED
      BY <2>2, <2>5, <3>1 DEF Calculate, Reported, Update, StatusType
  <2>6. CASE FetchMetadata(c)
    <3>1. job'[c].universe = job[c].universe
      BY <1>3, <2>1, <2>6, FrameKept DEF FetchMetadata
    <3>2. Done(job'[c]) \in Nat
      BY <2>2, DoneTypes
    <3> QED
      BY <2>2, <2>6, <3>1, <3>2 DEF FetchMetadata, Reported
  <2>7. CASE SkipAbsent(c) \/ CommitSlice(c)
    <3>1. PICK t : job'[c] = [job[c] EXCEPT !.todo = job[c].todo \ {t}]
      BY <2>7 DEF SkipAbsent, CommitSlice, TypeOK
    <3>2. job'[c].universe = job[c].universe /\ job'[c].todo \subseteq job[c].todo
      BY <2>2, <3>1 DEF JobType
    <3>3. Done(job[c]) <= Done(job'[c]) /\ Done(job'[c]) \in Nat
      BY <2>2, <3>2, DoneGrows, DoneTypes
    <3>4. status' = status /\ pc'[c] = "writing" /\ pc[c] = "writing"
      BY <2>7 DEF SkipAbsent, CommitSlice
    <3> QED
      BY <2>2, <2>3, <3>2, <3>3, <3>4 DEF Reported
  <2>8. CASE WriteOhlcv(c)
    BY <2>2, <2>3, <2>8 DEF WriteOhlcv, Reported, UpdateProgress, StatusType, control, Done
  <2>9. CASE WriteData(c) \/ RetryWithoutIndexes(c)
    BY <2>2, <2>3, <2>9 DEF WriteData, RetryWithoutIndexes, Reported, control, Done
  <2>10. CASE WriteMetadata(c)
    <3>1. Done(job[c]) = Cardinality(job[c].universe)
      BY <2>2, <2>10, DoneTypes DEF WriteMetadata
    <3>2. UNCHANGED job /\ pc'[c] = "indexing" /\ pc[c] = "writing"
      BY <2>2, <2>10 DEF WriteMetadata
    <3>3. /\ status'.state = status.state /\ status'.source = status.source
          /\ status'.target = status.target
          /\ status'.completed \in {status.completed, Cardinality(job[c].universe)}
      BY <2>2, <2>10 DEF WriteMetadata, UpdateProgress, StatusType
    <3> QED
      BY <2>2, <2>3, <3>1, <3>2, <3>3 DEF Reported, Done
  <2>11. CASE CreateIndexes(c)
    <3>1. Done(job[c]) = Cardinality(job[c].universe)
      BY <2>2, <2>11, DoneTypes DEF CreateIndexes, ProgressInv
    <3>2. UNCHANGED job /\ pc'[c] = "refreshing"
      BY <2>2, <2>11 DEF CreateIndexes
    <3>3. /\ status'.state = status.state /\ status'.source = status.source
          /\ status'.target = status.target
          /\ status'.completed = Cardinality(job[c].universe)
      BY <2>2, <2>11 DEF CreateIndexes, UpdateProgress, StatusType
    <3> QED
      BY <2>2, <2>3, <3>1, <3>2, <3>3 DEF Reported, Done
  <2>12. CASE RefreshDelete(c) \/ RefreshInsert(c)
    <3>1. /\ UNCHANGED <<job, status>>
          /\ pc[c] \in {"refreshing", "inserting"} /\ pc'[c] \in {"inserting", "finishing"}
      BY <2>2, <2>12 DEF RefreshDelete, RefreshInsert
    <3> QED
      BY <2>2, <3>1 DEF Reported, Done
  <2>13. CASE DownloadEmpty(c) \/ DownloadFails(c) \/ CalculateFails(c)
                \/ MetadataRaises(c) \/ SliceFails(c) \/ WriteFails(c) \/ Finish(c)
    BY <2>1, <2>2, <2>13 DEF DownloadEmpty, DownloadFails, CalculateFails,
       MetadataRaises, SliceFails, WriteFails, Finish, GiveUp, Release
  <2> QED
    BY <1>3, <2>4, <2>5, <2>6, <2>7, <2>8, <2>9, <2>10, <2>11, <2>12, <2>13 DEF Sync
<1>4. ASSUME Crash PROVE StatusDescribesHolder'
  BY <1>4, NoOneIsNoCaller DEF Crash, StatusDescribesHolder
<1>5. ASSUME Boot \/ DayPasses \/ Publish \/ UNCHANGED vars PROVE StatusDescribesHolder'
  BY <1>5 DEF Boot, DayPasses, Publish, vars, control, StatusDescribesHolder, Done
<1> QED
  BY <1>1, <1>2, <1>3, <1>4, <1>5 DEF Next

-----------------------------------------------------------------------------
(* The serving table                                                       *)

\* The callers whose sync accounts for a served row that is not the latest.
AccountsFor(c, t) ==
  /\ t \in job[c].universe
  /\ pc[c] \in {"writing", "indexing", "refreshing", "inserting"}

(* Every step keeps a clean success to tickers that are served. *)
LEMMA StepCleanMeansServed ==
  ASSUME SyncInv, [Next]_vars
  PROVE  CleanMeansServed'
<1> USE DEF SyncInv
<1>1. ASSUME UNCHANGED <<up, faulted, cache, data>>,
             \A c \in Callers : \A t \in Tickers : AccountsFor(c, t) => AccountsFor(c, t)'
      PROVE  CleanMeansServed'
  BY <1>1 DEF CleanMeansServed, AccountsFor
<1>2. ASSUME faulted' = TRUE PROVE CleanMeansServed'
  BY <1>2 DEF CleanMeansServed
<1>3. ASSUME NEW c \in Callers, Start(c) PROVE CleanMeansServed'
  <2>1. UNCHANGED <<up, faulted, cache, data>>
    BY <1>3 DEF Start, tables, serving
  <2>2. \A d \in Callers : pc[d] = "idle"
    BY <1>3, NobodyInside DEF Start
  <2> QED
    BY <1>1, <2>1, <2>2 DEF AccountsFor
<1>4. ASSUME NEW c \in Callers, Sync(c) PROVE CleanMeansServed'
  <2> USE DEF At, Goto
  <2>1. /\ \A d \in Callers \ {c} : \A t \in Tickers : ~AccountsFor(d, t)
        /\ up' = up
    BY <1>4, OthersIdle, SyncFrame DEF AccountsFor
  <2>2. job[c] \in JobType /\ pc \in [Callers -> Labels]
    BY DEF TypeOK
  <2>3. CASE DownloadFails(c) \/ CalculateFails(c) \/ MetadataRaises(c)
               \/ SliceFails(c) \/ WriteFails(c)
    BY <1>2, <2>3 DEF DownloadFails, CalculateFails, MetadataRaises, SliceFails,
       WriteFails, GiveUp
  <2>4. CASE Download(c) \/ DownloadEmpty(c) \/ Calculate(c) \/ Finish(c)
    <3>1. UNCHANGED <<faulted, cache, data>>
      BY <2>4 DEF Download, DownloadEmpty, Calculate, Finish, tables, serving
    <3>2. \A t \in Tickers : ~AccountsFor(c, t)
      BY <2>4 DEF Download, DownloadEmpty, Calculate, Finish, AccountsFor
    <3> QED
      BY <1>1, <2>1, <3>1, <3>2
  <2>5. CASE FetchMetadata(c)
    <3>1. UNCHANGED <<faulted, cache, data>>
      BY <2>5 DEF FetchMetadata, tables, serving
    <3>2. \A t \in Tickers : ~AccountsFor(c, t)
      BY <2>5 DEF FetchMetadata, AccountsFor
    <3> QED
      BY <1>1, <2>1, <3>1, <3>2
  <2>6. CASE WriteOhlcv(c) \/ SkipAbsent(c) \/ WriteData(c) \/ RetryWithoutIndexes(c)
               \/ WriteMetadata(c) \/ CreateIndexes(c)
    <3>1. UNCHANGED <<faulted, cache, data>>
      BY <2>6 DEF WriteOhlcv, SkipAbsent, WriteData, RetryWithoutIndexes,
         WriteMetadata, CreateIndexes, tables, serving
    <3>2. pc[c] \in {"writing", "indexing"} /\ pc'[c] \in {"writing", "indexing", "refreshing"}
      BY <2>2, <2>6 DEF WriteOhlcv, SkipAbsent, WriteData, RetryWithoutIndexes,
         WriteMetadata, CreateIndexes, control
    <3>3. job'[c].universe = job[c].universe
      BY <1>4, <3>2, FrameKept
    <3>4. \A t \in Tickers : AccountsFor(c, t) => AccountsFor(c, t)'
      BY <3>2, <3>3 DEF AccountsFor
    <3> QED
      BY <1>1, <2>1, <3>1, <3>4
  <2>7. CASE CommitSlice(c)
    <3>1. /\ UNCHANGED <<faulted, cache>> /\ pc[c] = "writing" /\ pc'[c] = "writing"
          /\ \A t \in Tickers \ {tx.ticker} : data'[t] = data[t]
          /\ tx.ticker \in job[c].universe
      BY <2>7, CommittedSlice DEF CommitSlice, serving, TypeOK, ProgressInv
    <3>2. job'[c].universe = job[c].universe
      BY <1>4, <3>1, FrameKept
    <3> QED
      BY <2>1, <3>1, <3>2 DEF CleanMeansServed, AccountsFor, LatestRow, LastDay
  <2>8. CASE RefreshDelete(c)
    <3>1. /\ UNCHANGED <<faulted, data, job>> /\ pc'[c] = "inserting"
          /\ \A t \in Tickers \ job[c].universe : cache'[t] = cache[t]
      BY <2>2, <2>8 DEF RefreshDelete, tables
    <3> QED
      BY <2>1, <3>1 DEF CleanMeansServed, AccountsFor
  <2>9. CASE RefreshInsert(c)
    <3>1. /\ UNCHANGED <<faulted, data>>
          /\ \A t \in Tickers \ job[c].universe : cache'[t] = cache[t]
          /\ \A t \in Tickers : t \in job[c].universe => cache'[t] = LatestRow(data[t])
      BY <2>9 DEF RefreshInsert, tables
    <3> QED
      BY <2>1, <3>1 DEF CleanMeansServed, AccountsFor
  <2> QED
    BY <1>4, <2>3, <2>4, <2>5, <2>6, <2>7, <2>8, <2>9 DEF Sync
<1>5. ASSUME Crash PROVE CleanMeansServed'
  BY <1>5 DEF Crash, CleanMeansServed
<1>6. ASSUME Boot PROVE CleanMeansServed'
  BY <1>6 DEF Boot, CleanMeansServed, tables
<1>7. ASSUME UNCHANGED <<up, faulted, cache, data, job, pc>> PROVE CleanMeansServed'
  BY <1>7 DEF CleanMeansServed
<1>8. ASSUME NEW c \in Callers, SkipFresh(c) PROVE CleanMeansServed'
  BY <1>7, <1>8 DEF SkipFresh, tables, serving, control
<1>9. ASSUME DayPasses \/ Publish \/ UNCHANGED vars PROVE CleanMeansServed'
  BY <1>7, <1>9 DEF DayPasses, Publish, vars, tables, serving, control
<1> QED
  BY <1>3, <1>4, <1>5, <1>6, <1>8, <1>9 DEF Next

-----------------------------------------------------------------------------
(* The invariant and what follows from it                                  *)

(* The inductive invariant at the start. *)
LEMMA InitSyncInv == Init => SyncInv
<1> SUFFICES ASSUME Init PROVE SyncInv
  OBVIOUS
<1>1. TypeOK
  BY InitTypeOK
<1>2. LockInv
  BY NoOneIsNoCaller DEF Init, LockInv
<1>3. \A t \in Tickers : Stored(data[t]) = {}
  BY DEF Init, Stored, NoRows
<1>4. PublishedInv
  BY <1>3 DEF PublishedInv
<1>5. FrameInv /\ SliceInv
  BY DEF Init, FrameInv, SliceInv
<1>6. ProgressInv
  BY DEF Init, ProgressInv, NoJob
<1>7. TablesAgree /\ NoDuplicateRows
  BY DEF Init, TablesAgree, NoDuplicateRows, NoRows
<1>8. StatusDescribesHolder
  BY NoOneIsNoCaller DEF Init, StatusDescribesHolder
<1>9. CleanMeansServed
  BY <1>3 DEF Init, CleanMeansServed, LatestRow
<1> QED
  BY <1>1, <1>2, <1>4, <1>5, <1>6, <1>7, <1>8, <1>9 DEF SyncInv

(* The inductive invariant after every step. *)
LEMMA StepSyncInv == SyncInv /\ [Next]_vars => SyncInv'
<1> SUFFICES ASSUME SyncInv, [Next]_vars PROVE SyncInv'
  OBVIOUS
<1>1. TypeOK' /\ LockInv'
  BY StepTypeOK, StepLockInv DEF SyncInv
<1>2. PublishedInv' /\ FrameInv' /\ SliceInv' /\ ProgressInv'
  BY StepPublishedInv, StepFrameInv, StepSliceInv, StepProgressInv
<1>3. TablesAgree' /\ NoDuplicateRows'
  BY StepTablesAgree, StepNoDuplicateRows
<1>4. StatusDescribesHolder' /\ CleanMeansServed'
  BY StepStatusDescribesHolder, StepCleanMeansServed
<1> QED
  BY <1>1, <1>2, <1>3, <1>4 DEF SyncInv

\* The inductive invariant: the lock, the frame, the open transaction, the
\* progress of the holder, the tables, the status and the serving table are
\* in step in every reachable state.
THEOREM SyncInvariant == Spec => []SyncInv
<1> QED
  BY InitSyncInv, StepSyncInv, PTL DEF Spec

\* Whatever fails and whenever the process dies, ohlcv_daily and ticker_data
\* hold the same rows: _write_ticker_slice replaces both or neither.
THEOREM TablesAlwaysAgree == Spec => []TablesAgree
<1>1. SyncInv => TablesAgree
  BY DEF SyncInv
<1> QED
  BY <1>1, SyncInvariant, PTL

\* No ticker ever has two rows for one day, whatever the buffer, the warmup
\* window and the outcomes of the downloads.
THEOREM NeverDuplicateRows == Spec => []NoDuplicateRows
<1>1. SyncInv => NoDuplicateRows
  BY DEF SyncInv
<1> QED
  BY <1>1, SyncInvariant, PTL

\* The tracker names the holder of the lock and never reports more tickers
\* done than it has committed or skipped.
THEOREM StatusAlwaysDescribesHolder == Spec => []StatusDescribesHolder
<1>1. SyncInv => StatusDescribesHolder
  BY DEF SyncInv
<1> QED
  BY <1>1, SyncInvariant, PTL

\* As long as no sync has raised, latest_ticker_cache serves the latest row
\* of every ticker that no sync is working on.
THEOREM CleanAlwaysServed == Spec => []CleanMeansServed
<1>1. SyncInv => CleanMeansServed
  BY DEF SyncInv
<1> QED
  BY <1>1, SyncInvariant, PTL

-----------------------------------------------------------------------------
(* What a step may never do                                                *)

\* No step loses a stored day: history outside the download window is kept
\* and history inside it is downloaded again.
THEOREM CoverageNeverShrinks == Spec => CoverageOnlyGrows
<1>1. SyncInv /\ [Next]_vars =>
        \A t \in Tickers : Stored(data[t]) \subseteq Stored(data'[t])
  <2> SUFFICES ASSUME SyncInv, [Next]_vars, NEW t \in Tickers
               PROVE  Stored(data[t]) \subseteq Stored(data'[t])
    OBVIOUS
  <2>1. CASE \E c \in Callers : CommitSlice(c)
    BY <2>1, CommittedDays DEF SyncInv
  <2>2. CASE \A c \in Callers : ~CommitSlice(c)
    BY <2>2, TablesKept DEF SyncInv
  <2> QED
    BY <2>1, <2>2
<1> QED
  BY <1>1, SyncInvariant, PTL DEF Spec, CoverageOnlyGrows

\* A sync that reports success after writing leaves its whole universe
\* described, indexed and served from the latest rows.
THEOREM SuccessAlwaysServed == Spec => SuccessMeansServed
<1> DEFINE Served ==
      \A c \in Callers :
        pc[c] = "finishing" /\ status'.phase = "complete" /\ pc'[c] = "idle" =>
          /\ indexed'
          /\ job[c].universe \subseteq described'
          /\ \A t \in job[c].universe : cache'[t] = LatestRow(data'[t])
<1>1. SyncInv /\ [Next]_vars => Served
  <2> SUFFICES ASSUME SyncInv, [Next]_vars, NEW c \in Callers, pc[c] = "finishing",
                      status'.phase = "complete", pc'[c] = "idle"
               PROVE  /\ indexed'
                      /\ job[c].universe \subseteq described'
                      /\ \A t \in job[c].universe : cache'[t] = LatestRow(data'[t])
    OBVIOUS
  <2>1. /\ indexed /\ job[c].universe \subseteq described
        /\ \A t \in job[c].universe : cache[t] = LatestRow(data[t])
    BY DEF SyncInv, ProgressInv
  <2>2. CASE UNCHANGED <<cache, described, indexed, data>>
    BY <2>1, <2>2
  <2>3. ASSUME Crash PROVE UNCHANGED <<cache, described, indexed, data>>
    BY <2>3 DEF Crash, serving, tables
  <2>4. ASSUME NEW b \in Callers, Sync(b)
        PROVE  UNCHANGED <<cache, described, indexed, data>>
    <3>1. b = c
      BY <2>4, SyncFrame DEF SyncInv
    <3>2. Finish(c)
      BY <2>4, <3>1 DEF Sync, At, Download, DownloadEmpty, DownloadFails, Calculate,
         CalculateFails, FetchMetadata, MetadataRaises, WriteOhlcv, SkipAbsent,
         WriteData, CommitSlice, RetryWithoutIndexes, SliceFails, WriteMetadata,
         CreateIndexes, RefreshDelete, RefreshInsert, WriteFails
    <3> QED
      BY <3>2 DEF Finish, serving, tables
  <2>5. ASSUME NEW b \in Callers, SkipFresh(b) \/ Start(b) PROVE FALSE
    BY <2>5, NobodyInside DEF SkipFresh, Start, SyncInv
  <2>6. ASSUME Boot \/ DayPasses \/ Publish \/ UNCHANGED vars PROVE FALSE
    BY <2>6 DEF Boot, DayPasses, Publish, vars, control
  <2> QED
    BY <2>2, <2>3, <2>4, <2>5, <2>6 DEF Next
<1> QED
  BY <1>1, SyncInvariant, PTL DEF Spec, SuccessMeansServed

(***************************************************************************)
(* No sync leaves a hole in the history of a ticker, when a full download  *)
(* reaches back to the first day: WindowInv is inductive beside SyncInv,   *)
(* and what it says of the window at a commit keeps NoHoles.               *)
(***************************************************************************)

-----------------------------------------------------------------------------
(* The window of one caller                                                *)

\* The conjunct of WindowInv about what caller c has downloaded.
Gapless(c) ==
  pc[c] \notin {"idle", "downloading"} =>
    \A b \in job[c].dates, d \in TradingDays :
      job[c].start <= d /\ d <= b => d \in job[c].dates

\* The conjunct of WindowInv about where the window of caller c starts.
Reaching(c) ==
  pc[c] # "idle" =>
    \A t \in job[c].universe :
      Stored(data[t]) # {} => \E b \in Stored(data[t]) : job[c].start <= b

(* The window's invariant, one caller at a time. *)
LEMMA WindowOfCallers ==
  WindowInv <=> \A c \in Callers : Gapless(c) /\ Reaching(c)
  BY DEF WindowInv, Gapless, Reaching

\* The planned window reaches the last stored day of every ticker it is for:
\* it starts no later than the earliest of them, or, in a full download,
\* before every day of the calendar.
LEMMA PlanReaches ==
  ASSUME FullDays >= MaxDay, TypeOK, NEW c \in Callers,
         NEW universe \in SUBSET Tickers,
         NEW t \in universe, Stored(data[t]) # {}
  PROVE  \E b \in Stored(data[t]) : Plan(c, universe).start <= b
<1> DEFINE known == {u \in universe : Stored(data[u]) # {}}
           days == {LastDay(data[u]) : u \in known}
           spliced == IsIncremental(c) /\ known # {}
           start == IF spliced THEN Earliest(days) - BufferDays
                    ELSE today - FullDays
<1>1. \A u \in known : LastDay(data[u]) \in Day
  BY LastDayIsLast DEF TypeOK, Stored
<1>2. days \in SUBSET Nat
  BY <1>1, DaysAssumption DEF Day
<1>3. LastDay(data[t]) \in Stored(data[t]) /\ LastDay(data[t]) \in days
  BY LastDayIsLast DEF TypeOK
<1>4. Plan(c, universe) =
        [NoJob EXCEPT !.universe = universe, !.spliced = spliced, !.start = start]
  BY DEF Plan
<1> HIDE DEF days, spliced
<1>5. Plan(c, universe).start = start
  BY <1>4 DEF NoJob
<1>6. Earliest(days) \in Nat /\ Earliest(days) <= LastDay(data[t])
  BY <1>2, <1>3, EarliestIsLeast
<1>7. today \in Nat /\ today <= MaxDay /\ LastDay(data[t]) \in Nat
  <2>1. today \in Day
    BY DEF TypeOK
  <2>2. LastDay(data[t]) \in Nat
    BY <1>2, <1>3
  <2> QED
    BY <2>1, <2>2, DaysAssumption DEF Day
<1>8. start <= LastDay(data[t])
  BY <1>6, <1>7, DaysAssumption
<1> QED
  BY <1>3, <1>5, <1>8

-----------------------------------------------------------------------------
(* WindowInv is inductive                                                  *)

\* Only a download leads from downloading to anywhere but out.
LEMMA OnlyDownload ==
  ASSUME TypeOK, NEW c \in Callers, Sync(c), pc[c] = "downloading",
         pc'[c] # "idle"
  PROVE  Download(c)
<1> USE DEF At, Goto, Release, GiveUp, TypeOK, Sync
<1>1. ~DownloadEmpty(c) /\ ~DownloadFails(c)
  BY DEF DownloadEmpty, DownloadFails
<1>2. ~Calculate(c) /\ ~CalculateFails(c) /\ ~FetchMetadata(c) /\ ~MetadataRaises(c)
  BY DEF Calculate, CalculateFails, FetchMetadata, MetadataRaises
<1>3. /\ ~WriteOhlcv(c) /\ ~SkipAbsent(c) /\ ~WriteData(c) /\ ~CommitSlice(c)
      /\ ~RetryWithoutIndexes(c) /\ ~SliceFails(c)
  BY DEF WriteOhlcv, SkipAbsent, WriteData, CommitSlice, RetryWithoutIndexes,
         SliceFails
<1>4. /\ ~WriteMetadata(c) /\ ~CreateIndexes(c) /\ ~RefreshDelete(c)
      /\ ~RefreshInsert(c) /\ ~WriteFails(c) /\ ~Finish(c)
  BY DEF WriteMetadata, CreateIndexes, RefreshDelete, RefreshInsert, WriteFails,
         Finish
<1> QED
  BY <1>1, <1>2, <1>3, <1>4

\* The download takes every published trading day from the window's start on.
LEMMA DownloadWindow ==
  ASSUME SyncInv, WindowInv, NEW c \in Callers, Download(c)
  PROVE  (Gapless(c) /\ Reaching(c))'
<1> USE DEF SyncInv
<1> DEFINE dates == {d \in TradingDays : job[c].start <= d /\ d <= published}
<1>1. job[c] \in JobType /\ pc[c] = "downloading"
  BY DEF TypeOK, Download, At
<1>2. PICK frame : job'[c] = [job[c] EXCEPT !.dates = dates, !.frame = frame]
  BY DEF Download, TypeOK
<1>3. /\ job'[c].dates = dates /\ job'[c].start = job[c].start
      /\ job'[c].universe = job[c].universe /\ data' = data
  BY <1>1, <1>2 DEF Download, JobType, tables
<1>4. published \in Int /\ TradingDays \subseteq Int
  BY DaysAssumption DEF TypeOK, Day
<1>5. \A b \in dates, d \in TradingDays : job[c].start <= d /\ d <= b => d \in dates
  BY <1>4
<1>6. Reaching(c)'
  BY <1>1, <1>3, WindowOfCallers DEF Reaching
<1> QED
  BY <1>3, <1>5, <1>6 DEF Gapless

\* A commit only adds days, none of them before the window's start.
LEMMA CommitWindow ==
  ASSUME SyncInv, WindowInv, NEW c \in Callers, CommitSlice(c)
  PROVE  \A t \in job[c].universe :
           Stored(data'[t]) # {} => \E b \in Stored(data'[t]) : job[c].start <= b
<1> SUFFICES ASSUME NEW t \in job[c].universe, Stored(data'[t]) # {}
             PROVE  \E b \in Stored(data'[t]) : job[c].start <= b
  OBVIOUS
<1> USE DEF SyncInv
<1>1. pc[c] = "writing" /\ t \in Tickers
  BY DEF CommitSlice, At, TypeOK, JobType
<1>2. job[c].dates # {} /\ \A d \in job[c].dates : job[c].start <= d
  BY <1>1 DEF FrameInv
<1>3. Stored(data'[t]) = IF t = tx.ticker THEN Stored(data[t]) \cup job[c].dates
                         ELSE Stored(data[t])
  BY <1>1, CommittedDays
<1>4. Stored(data[t]) # {} => \E b \in Stored(data[t]) : job[c].start <= b
  BY <1>1, WindowOfCallers DEF Reaching
<1> QED
  BY <1>2, <1>3, <1>4

(* Every step keeps the rows a job will write without gaps and reaching    *)
(* back to what is stored.                                                 *)
LEMMA StepWindowInv ==
  ASSUME FullDays >= MaxDay, SyncInv, WindowInv, [Next]_vars
  PROVE  WindowInv'
<1> USE DEF SyncInv
<1>0. ASSUME \A c \in Callers : pc'[c] = "idle" PROVE WindowInv'
  BY <1>0 DEF WindowInv
<1>1. ASSUME NEW c \in Callers, Start(c) PROVE WindowInv'
  <2>1. PICK universe \in SUBSET Tickers :
             job' = [job EXCEPT ![c] = Plan(c, universe)]
    BY <1>1 DEF Start, Requests, Stale
  <2>2. /\ pc'[c] = "downloading" /\ data' = data
        /\ \A b \in Callers \ {c} : pc'[b] = "idle"
    BY <1>1, NobodyInside DEF Start, Goto, TypeOK, tables
  <2>3. job'[c] = Plan(c, universe) /\ job'[c].universe = universe
    BY <2>1 DEF TypeOK, Plan, NoJob
  <2>4. Gapless(c)' /\ Reaching(c)'
    BY <2>2, <2>3, PlanReaches DEF Gapless, Reaching
  <2> QED
    BY <2>2, <2>4 DEF WindowInv, Gapless, Reaching
<1>2. ASSUME NEW c \in Callers, Sync(c) PROVE WindowInv'
  <2>1. \A b \in Callers \ {c} : pc'[b] = "idle"
    BY <1>2, OthersIdle
  <2>2. CASE pc'[c] = "idle"
    BY <1>0, <2>1, <2>2
  <2>3. CASE pc'[c] # "idle" /\ pc[c] = "downloading"
    <3>1. (Gapless(c) /\ Reaching(c))'
      BY <1>2, <2>3, OnlyDownload, DownloadWindow
    <3> QED
      BY <2>1, <3>1 DEF WindowInv, Gapless, Reaching
  <2>4. CASE pc'[c] # "idle" /\ pc[c] # "downloading"
    <3>1. /\ job'[c].dates = job[c].dates /\ job'[c].start = job[c].start
          /\ job'[c].universe = job[c].universe /\ pc[c] # "idle"
      BY <1>2, <2>4, FrameKept, SyncFrame
    <3>2. Gapless(c)'
      BY <2>4, <3>1, WindowOfCallers DEF Gapless
    <3>3. ASSUME data' = data PROVE Reaching(c)'
      BY <3>1, <3>3, WindowOfCallers DEF Reaching
    <3>4. ASSUME CommitSlice(c) PROVE Reaching(c)'
      BY <3>1, <3>4, CommitWindow DEF Reaching
    <3>5. Reaching(c)'
      BY <1>2, <3>3, <3>4, SyncFrame
    <3> QED
      BY <2>1, <3>2, <3>5 DEF WindowInv, Gapless, Reaching
  <2> QED
    BY <2>2, <2>3, <2>4
<1>3. ASSUME Crash PROVE WindowInv'
  BY <1>0, <1>3 DEF Crash
<1>4. ASSUME UNCHANGED <<pc, job, data>> PROVE WindowInv'
  BY <1>4 DEF WindowInv
<1>5. ASSUME NEW c \in Callers, SkipFresh(c) PROVE WindowInv'
  BY <1>4, <1>5 DEF SkipFresh, control, tables
<1>6. ASSUME Boot \/ DayPasses \/ Publish \/ UNCHANGED vars PROVE WindowInv'
  BY <1>4, <1>6 DEF Boot, DayPasses, Publish, vars, control, tables
<1> QED
  BY <1>1, <1>2, <1>3, <1>5, <1>6 DEF Next

-----------------------------------------------------------------------------
(* NoHoles                                                                 *)

\* Between two days of a slice's ticker, old or new, no trading day is left
\* out: the window is gapless, it covers the stored days it overlaps, and it
\* reaches back into the stored days.
LEMMA CommitLeavesNoHoles ==
  ASSUME SyncInv, WindowInv, NoHoles, NEW c \in Callers, CommitSlice(c)
  PROVE  NoHoles'
<1> USE DEF SyncInv
<1> SUFFICES ASSUME NEW t \in Tickers,
                    NEW a \in Stored(data'[t]), NEW b \in Stored(data'[t]),
                    NEW d \in TradingDays, a <= d, d <= b
             PROVE  d \in Stored(data'[t])
  BY DEF NoHoles
<1>1. Stored(data'[t]) = IF t = tx.ticker THEN Stored(data[t]) \cup job[c].dates
                         ELSE Stored(data[t])
  BY CommittedDays
<1>2. a \in Int /\ b \in Int /\ d \in Int
  BY DaysAssumption DEF Stored, Day
<1>3. a \in Stored(data[t]) /\ b \in Stored(data[t]) => d \in Stored(data[t])
  BY DEF NoHoles
<1>4. CASE t # tx.ticker
  BY <1>1, <1>3, <1>4
<1>5. CASE t = tx.ticker
  <2> DEFINE start == job[c].start
             dates == job[c].dates
             old == Stored(data[t])
  <2>1. pc[c] = "writing" /\ start \in Int
    BY DEF CommitSlice, At, TypeOK, JobType
  <2>2. t \in job[c].universe
    BY <1>5, CommittedSlice DEF ProgressInv
  <2>3. /\ \A e \in dates : start <= e
        /\ \A e \in old : start <= e => e \in dates
    BY <2>1 DEF FrameInv
  <2>4. \A e \in dates : start <= d /\ d <= e => d \in dates
    BY <2>1, WindowOfCallers DEF Gapless
  <2>5. old # {} => \E e \in old : start <= e
    BY <2>1, <2>2, WindowOfCallers DEF Reaching
  <2>6. CASE b \in dates /\ start <= d
    BY <1>1, <1>5, <2>4, <2>6
  <2>7. CASE d < start
    <3>1. a \notin dates
      BY <1>2, <2>1, <2>3, <2>7
    <3>2. a \in old
      BY <1>1, <1>5, <3>1
    <3>3. PICK e \in old : start <= e
      BY <2>5, <3>2
    <3>4. e \in Int
      BY DaysAssumption DEF Stored, Day
    <3>5. d \in old
      BY <1>2, <2>1, <2>7, <3>2, <3>3, <3>4 DEF NoHoles
    <3> QED
      BY <1>1, <1>5, <3>5
  <2>8. CASE b \in old /\ start <= d
    <3>1. b \in dates
      BY <1>2, <2>1, <2>3, <2>8
    <3> QED
      BY <1>1, <1>5, <2>4, <2>8, <3>1
  <2> QED
    BY <1>1, <1>2, <1>5, <2>1, <2>6, <2>7, <2>8
<1> QED
  BY <1>4, <1>5

(* Every step keeps the history without holes. *)
LEMMA StepNoHoles ==
  ASSUME SyncInv, WindowInv, NoHoles, [Next]_vars
  PROVE  NoHoles'
<1>1. ASSUME NEW c \in Callers, CommitSlice(c) PROVE NoHoles'
  BY <1>1, CommitLeavesNoHoles
<1>2. ASSUME UNCHANGED <<ohlcv, data>> PROVE NoHoles'
  BY <1>2 DEF NoHoles
<1> QED
  BY <1>1, <1>2, TablesKept DEF SyncInv

\* Whatever buffer and threshold are configured, whichever tickers a sync is
\* asked for and wherever syncs fail, the history of a ticker has no trading
\* day missing between two stored ones, if full downloads reach back to the
\* first day of the calendar.
THEOREM NeverHoles ==
  ASSUME FullDays >= MaxDay
  PROVE  Spec => []NoHoles
<1>1. Init => SyncInv /\ WindowInv /\ NoHoles
  <2> SUFFICES ASSUME Init PROVE SyncInv /\ WindowInv /\ NoHoles
    OBVIOUS
  <2>1. \A c \in Callers : pc[c] = "idle"
    BY DEF Init
  <2>2. \A t \in Tickers : Stored(data[t]) = {}
    BY DEF Init, Stored, NoRows
  <2> QED
    BY <2>1, <2>2, InitSyncInv DEF WindowInv, NoHoles
<1>2. (SyncInv /\ WindowInv /\ NoHoles) /\ [Next]_vars
        => (SyncInv /\ WindowInv /\ NoHoles)'
  BY StepSyncInv, StepWindowInv, StepNoHoles
<1> QED
  BY <1>1, <1>2, PTL DEF Spec

(***************************************************************************)
(* The three tables implement PriceStore: a commit extends one history,    *)
(* the refresh hides and serves, a start serves, and all else, a crash     *)
(* included, changes nothing that is seen from outside a transaction.      *)
(***************************************************************************)

-----------------------------------------------------------------------------
(* The mapping                                                             *)

(* What is seen of a table without duplicates is a history of the store. *)
LEMMA VisibleHistory ==
  SyncInv => \A t \in Tickers : /\ Visible(ohlcv[t]) \in Store!Histories
                              /\ DOMAIN visible[t] = Stored(ohlcv[t])
<1> USE DEF SyncInv
<1> SUFFICES ASSUME SyncInv, NEW t \in Tickers
             PROVE  /\ Visible(ohlcv[t]) \in Store!Histories
                    /\ DOMAIN visible[t] = Stored(ohlcv[t])
  OBVIOUS
<1>1. ohlcv[t] = data[t] /\ ohlcv[t] \in History
  BY DEF TablesAgree, TypeOK
<1>2. Stored(ohlcv[t]) \in SUBSET {d \in TradingDays : d <= published}
  BY <1>1 DEF PublishedInv
<1>3. \A d \in Stored(ohlcv[t]) : ohlcv[t][d] \in {"pad", "bar"}
  BY <1>1 DEF NoDuplicateRows, Stored, History, Mark
<1>4. Visible(ohlcv[t]) \in [Stored(ohlcv[t]) -> {"pad", "bar"}]
  BY <1>3 DEF Visible
<1> QED
  BY <1>2, <1>4 DEF Store!Histories, visible

(* The newest row of the store is the one the serving query picks. *)
LEMMA NewestVisible ==
  ASSUME NEW h \in History
  PROVE  Store!Newest(Visible(h)) = LatestRow(h)
<1> DEFINE newest == CHOOSE d \in DOMAIN Visible(h) : \A e \in DOMAIN Visible(h) : e <= d
<1>1. DOMAIN Visible(h) = Stored(h) /\ \A d \in Stored(h) : Visible(h)[d] = h[d]
  BY DEF Visible
<1>2. CASE Stored(h) = {}
  BY <1>1, <1>2 DEF LatestRow, Store!Newest
<1>3. CASE Stored(h) # {}
  <2>1. LastDay(h) \in Stored(h) /\ \A e \in Stored(h) : e <= LastDay(h)
    BY <1>3, LastDayIsLast
  <2>2. \E d \in DOMAIN Visible(h) : \A e \in DOMAIN Visible(h) : e <= d
    BY <1>1, <2>1
  <2>3. newest \in DOMAIN Visible(h) /\ \A e \in DOMAIN Visible(h) : e <= newest
    BY <2>2
  <2>4. Stored(h) \subseteq Int
    BY DaysAssumption DEF Stored, Day
  <2> HIDE DEF newest
  <2>5. newest = LastDay(h)
    BY <1>1, <2>1, <2>3, <2>4
  <2>6. Store!Newest(Visible(h)) = <<newest, Visible(h)[newest]>>
    BY <1>1, <1>3 DEF newest, Store!Newest
  <2> QED
    BY <1>1, <1>3, <2>1, <2>5, <2>6 DEF LatestRow
<1> QED
  BY <1>2, <1>3

-----------------------------------------------------------------------------
(* The steps                                                               *)

(* What the steps that touch none of the three tables leave alone. *)
LEMMA StoreKept ==
  ASSUME UNCHANGED <<published, ohlcv, cache>>
  PROVE  UNCHANGED Store!storeVars
BY DEF Store!storeVars, visible

(* The same of the state a step leads to. *)
LEMMA VisibleHistoryNext ==
  SyncInv' => \A t \in Tickers : Visible(ohlcv'[t]) \in Store!Histories'
<1>1. SyncInv => \A t \in Tickers : Visible(ohlcv[t]) \in Store!Histories
  BY VisibleHistory
<1>2. SyncInv' => (\A t \in Tickers : Visible(ohlcv[t]) \in Store!Histories)'
  BY <1>1, PTL
<1> QED
  BY <1>2 DEF Visible, Stored

(* A commit extends the history of its ticker. *)
LEMMA CommitExtends ==
  ASSUME SyncInv, SyncInv', NEW c \in Callers, CommitSlice(c)
  PROVE  Store!StoreNext
<1> DEFINE t == tx.ticker
           history == Visible(tx.data)
<1>1. /\ t \in Tickers /\ data[t] = ohlcv[t]
      /\ ohlcv \in [Tickers -> History] /\ ohlcv' = [ohlcv EXCEPT ![t] = tx.data]
      /\ data' = [data EXCEPT ![t] = tx.data] /\ data \in [Tickers -> History]
      /\ published' = published /\ cache' = cache
  BY CommittedSlice DEF CommitSlice, clock, serving, SyncInv, TypeOK, TablesAgree
<1>2. ohlcv'[t] = tx.data /\ data'[t] = tx.data
  BY <1>1
<1>3. history \in Store!Histories
  <2>1. history \in Store!Histories'
    BY <1>1, <1>2, VisibleHistoryNext
  <2> QED
    BY <1>1, <2>1 DEF Store!Histories
<1>4. Stored(ohlcv[t]) \subseteq Stored(tx.data)
  <2>1. Stored(data'[t]) = Stored(data[t]) \cup job[c].dates
    BY <1>1, CommittedDays DEF SyncInv
  <2> QED
    BY <1>1, <1>2, <2>1
<1>5. DOMAIN visible[t] \subseteq DOMAIN history
  BY <1>1, <1>4 DEF visible, Visible
<1> HIDE DEF t
<1>6. visible' = [visible EXCEPT ![t] = history]
  BY <1>1 DEF visible
<1> HIDE DEF history
<1>7. Store!Extends(t)
  BY <1>1, <1>3, <1>5, <1>6 DEF Store!Extends
<1> QED
  BY <1>1, <1>7 DEF Store!StoreNext

(* The refresh hides the universe of its sync, and then serves it. *)
LEMMA RefreshServes ==
  ASSUME SyncInv, NEW c \in Callers, RefreshDelete(c) \/ RefreshInsert(c)
  PROVE  Store!StoreNext
<1> USE DEF SyncInv
<1>1. job[c].universe \in SUBSET Tickers
  BY DEF TypeOK, JobType
<1>2. UNCHANGED <<published, visible>>
  BY DEF RefreshDelete, RefreshInsert, clock, tables, visible
<1>3. CASE RefreshDelete(c)
  <2>1. Store!Hides(job[c].universe)
    BY <1>2, <1>3 DEF RefreshDelete, Store!Hides
  <2> QED
    BY <1>1, <2>1 DEF Store!StoreNext
<1>4. CASE RefreshInsert(c)
  <2>1. \A t \in Tickers : LatestRow(data[t]) = Store!Newest(visible[t])
    BY NewestVisible DEF TablesAgree, TypeOK, visible
  <2>2. Store!Serves(job[c].universe)
    BY <1>2, <1>4, <2>1 DEF RefreshInsert, Store!Serves
  <2> QED
    BY <1>1, <2>2 DEF Store!StoreNext
<1> QED
  BY <1>3, <1>4

(* A start of the process serves every ticker. *)
LEMMA BootServes ==
  ASSUME SyncInv, Boot
  PROVE  Store!StoreNext
<1> USE DEF SyncInv
<1>1. UNCHANGED <<published, visible>>
  BY DEF Boot, clock, tables, visible
<1>2. \A t \in Tickers : LatestRow(data[t]) = Store!Newest(visible[t])
  BY NewestVisible DEF TablesAgree, TypeOK, visible
<1>3. Store!Serves(Tickers)
  BY <1>1, <1>2 DEF Boot, Store!Serves
<1> QED
  BY <1>3 DEF Store!StoreNext

(* No other step of a sync is seen. *)
LEMMA SyncUnseen ==
  ASSUME NEW c \in Callers, Sync(c),
         ~ CommitSlice(c), ~ RefreshDelete(c), ~ RefreshInsert(c)
  PROVE  UNCHANGED <<published, ohlcv, cache>>
BY DEF Sync, clock, tables, serving, Download, DownloadEmpty, DownloadFails, Calculate,
       CalculateFails, FetchMetadata, MetadataRaises, WriteOhlcv, SkipAbsent, WriteData,
       RetryWithoutIndexes, SliceFails, WriteMetadata, CreateIndexes, WriteFails, Finish

(* Every step is one of the store, or is not seen in it. *)
LEMMA StoreStep ==
  SyncInv /\ SyncInv' /\ [Next]_vars => [Store!StoreNext]_(Store!storeVars)
<1> SUFFICES ASSUME SyncInv, SyncInv', [Next]_vars
             PROVE  [Store!StoreNext]_(Store!storeVars)
  OBVIOUS
<1>1. ASSUME NEW c \in Callers, Sync(c)
      PROVE  Store!StoreNext \/ UNCHANGED <<published, ohlcv, cache>>
  BY <1>1, CommitExtends, RefreshServes, SyncUnseen
<1>2. ASSUME NEW c \in Callers, SkipFresh(c) \/ Start(c)
      PROVE  UNCHANGED <<published, ohlcv, cache>>
  BY <1>2 DEF SkipFresh, Start, clock, tables, serving
<1>3. CASE Crash \/ DayPasses \/ UNCHANGED vars
  <2>1. UNCHANGED <<published, ohlcv, cache>>
    BY <1>3 DEF Crash, DayPasses, vars, clock, tables, serving
  <2> QED
    BY <2>1, StoreKept
<1>4. CASE Boot
  BY <1>4, BootServes
<1>5. CASE Publish
  <2>1. published' > published /\ UNCHANGED <<visible, cache>>
    BY <1>5 DEF Publish, tables, serving, visible, SyncInv, TypeOK, Day
  <2> QED
    BY <2>1 DEF Store!StoreNext, Store!Publishes
<1> QED
  BY <1>1, <1>2, <1>3, <1>4, <1>5, StoreKept DEF Next

\* Readers may take the serving table for a view of one history per ticker,
\* whoever syncs and whatever fails: the two price tables, written by
\* _write_ticker_slice, and latest_ticker_cache implement PriceStore.
THEOREM StoreImplemented == Spec => StoreSpec
<1>1. Init => Store!StoreInit
  <2> SUFFICES ASSUME Init PROVE Store!StoreInit
    OBVIOUS
  <2>1. \A t \in Tickers : Stored(ohlcv[t]) = {}
    BY DEF Init, Stored, NoRows
  <2>2. visible = [t \in Tickers |-> [d \in {} |-> NoRow]]
    BY <2>1 DEF visible, Visible
  <2> QED
    BY <2>2 DEF Init, Store!StoreInit
<1> QED
  BY <1>1, StoreStep, SyncInvariant, PTL DEF Spec, StoreSpec, Store!StoreSpec

\* A row is served only of a day that is stored: no failed refresh, and no
\* death of the process between the tables and latest_ticker_cache, leaves a
\* served row that the history knows nothing of.
THEOREM ServedAlwaysStored == Spec => []Store!ServedIsStored
<1> USE DEF Store!ServedIsStored
<1>1. Init => Store!ServedIsStored
  BY DEF Init
<1>2. SyncInv /\ SyncInv' /\ Store!ServedIsStored /\ [Next]_vars => Store!ServedIsStored'
  <2> SUFFICES ASSUME SyncInv, SyncInv', Store!ServedIsStored, [Next]_vars,
                      NEW t \in Tickers, cache'[t] # NoRow
               PROVE  cache'[t][1] \in DOMAIN visible'[t]
    OBVIOUS
  <2>1. CASE UNCHANGED Store!storeVars \/ Store!Publishes
    BY <2>1 DEF Store!storeVars, Store!Publishes
  <2>2. ASSUME NEW u \in Tickers, Store!Extends(u) PROVE cache'[t][1] \in DOMAIN visible'[t]
    BY <2>2 DEF Store!Extends, visible
  <2>3. ASSUME NEW some, Store!Hides(some) PROVE cache'[t][1] \in DOMAIN visible'[t]
    BY <2>3 DEF Store!Hides
  <2>4. ASSUME NEW some, Store!Serves(some) PROVE cache'[t][1] \in DOMAIN visible'[t]
    <3>1. cache'[t] = (IF t \in some THEN LatestRow(ohlcv[t]) ELSE cache[t])
          /\ visible' = visible
      BY <2>4, NewestVisible DEF Store!Serves, visible, SyncInv, TypeOK
    <3>2. CASE t \in some
      <4>1. cache'[t] = LatestRow(ohlcv[t]) /\ ohlcv[t] \in History
        BY <3>1, <3>2 DEF SyncInv, TypeOK
      <4>2. Stored(ohlcv[t]) # {} /\ cache'[t][1] = LastDay(ohlcv[t])
        BY <4>1 DEF LatestRow
      <4> QED
        BY <3>1, <4>1, <4>2, LastDayIsLast, VisibleHistory
    <3>3. CASE t \notin some
      BY <3>1, <3>3
    <3> QED
      BY <3>2, <3>3
  <2>5. [Store!StoreNext]_(Store!storeVars)
    BY StoreStep
  <2> QED
    BY <2>1, <2>2, <2>3, <2>4, <2>5 DEF Store!StoreNext
<1> QED
  BY <1>1, <1>2, SyncInvariant, PTL DEF Spec
=============================================================================
