--------------------------- MODULE MonitorProofs ---------------------------
(***************************************************************************)
(* Theorems about Monitor, for any set of watch targets, any retailers,    *)
(* any concurrency, any observations, every combination of failures and    *)
(* any number of snapshots and restarts.                                   *)
(***************************************************************************)
EXTENDS Monitor, FiniteSetTheorems, TLAPS
-----------------------------------------------------------------------------
(* diff_snapshots returns members of the EventType enum.                   *)
LEMMA DiffType ==
    ASSUME NEW before, NEW current
    PROVE  DiffSnapshots(before, current) \in SUBSET EventTypes
  BY DEF DiffSnapshots, AvailabilityEvents, FieldEvents, EventTypes

(* The list order: every event type has one of the five places.            *)
LEMMA RankType ==
    ASSUME NEW type \in EventTypes
    PROVE  Rank(type) \in 1..5
  BY DEF EventTypes, Rank

(* A non-empty list of events has a first one.                             *)
LEMMA FirstExists ==
    ASSUME NEW types \in SUBSET EventTypes, types # {}
    PROVE  \E type \in types : \A other \in types : Rank(type) <= Rank(other)
  <1> DEFINE Has(n) == \E type \in types : Rank(type) = n
  <1>1. \A type \in types : Rank(type) \in 1..5
    BY RankType
  <1>2. CASE Has(1)
    BY <1>1, <1>2
  <1>3. CASE ~Has(1) /\ Has(2)
    BY <1>1, <1>3
  <1>4. CASE ~Has(1) /\ ~Has(2) /\ Has(3)
    BY <1>1, <1>4
  <1>5. CASE ~Has(1) /\ ~Has(2) /\ ~Has(3) /\ Has(4)
    BY <1>1, <1>5
  <1>6. CASE ~Has(1) /\ ~Has(2) /\ ~Has(3) /\ ~Has(4)
    BY <1>1, <1>6
  <1> QED BY <1>2, <1>3, <1>4, <1>5, <1>6
-----------------------------------------------------------------------------

(* Which values a check holds at each of its awaits, and who is flushing.  *)
HasResult == {"latest", "latestFlushing", "snapshot", "snapshotFlushing",
              "event", "eventFlushing", "announce"}
HasTodo == {"snapshot", "snapshotFlushing", "event", "eventFlushing", "announce"}
HasSnapshot == {"snapshotFlushing", "event", "eventFlushing", "announce"}

ChecksHoldValues ==
    \A t \in Targets :
        /\ pc[t] \in HasResult => result[t] \in Observations
        /\ pc[t] \in HasTodo => todo[t] # {}
        /\ pc[t] \in HasSnapshot => taken[t] # 0

(* The scheduler and the checks never use the session at the same time,    *)
(* and a flush belongs to whoever waits for it.                            *)
FlushHasOwner ==
    /\ phase # "checking" => \A t \in Targets : pc[t] = "idle"
    /\ phase = "listing" => session = "active" /\ flusher = Scheduler
    /\ flusher = Scheduler => phase = "listing"
    /\ session = "active" => \A t \in Targets : pc[t] \in Flushing <=> flusher = t

Control == TypeOK /\ ChecksHoldValues /\ FlushHasOwner

-----------------------------------------------------------------------------
(* get_latest returns a row of the target it is asked for, or None.        *)
LEMMA LatestIsARow ==
    ASSUME NEW rs, NEW t
    PROVE  \/ LatestSnapshot(rs, t) = NoSnapshot
           \/ /\ LatestSnapshot(rs, t) \in Snapshots(rs, t)
              /\ \A other \in Snapshots(rs, t) :
                    other.number <= LatestSnapshot(rs, t).number
  BY DEF LatestSnapshot

(* A snapshot row among stored rows is a SnapshotRow.                      *)
LEMMA SnapshotsType ==
    ASSUME NEW rs \in SUBSET (SnapshotRow \cup EventRow \cup MarkRow), NEW t \in Targets
    PROVE  Snapshots(rs, t) \in SUBSET SnapshotRow
  BY DEF Snapshots, SnapshotRow, EventRow, MarkRow

(* The first event of the list is one of the list.                         *)
LEMMA FirstTypeIsFirst ==
    ASSUME NEW types \in SUBSET EventTypes, types # {}
    PROVE  /\ FirstType(types) \in types
           /\ \A other \in types : Rank(FirstType(types)) <= Rank(other)
  BY FirstExists DEF FirstType

(* What a flush leaves in the database is rows of the two tables.          *)
LEMMA FlushedRowsType ==
    ASSUME TypeOK
    PROVE  FlushedRows \in SUBSET (SnapshotRow \cup EventRow)
  BY DEF TypeOK, FlushedRows, SnapshotRow, EventRow, MarkRow

LEMMA EndFlushType ==
    ASSUME TypeOK, NEW added \in SUBSET MarkRow, EndFlush(added)
    PROVE  /\ flusher' = Nobody
           /\ session' = session
           /\ inflight' \in SUBSET (SnapshotRow \cup EventRow \cup MarkRow)
           /\ pending' \in SUBSET (SnapshotRow \cup EventRow \cup MarkRow)
           /\ rows' \in SUBSET (SnapshotRow \cup EventRow)
           /\ due' \in [Targets -> BOOLEAN]
  <1>1. \A t \in Targets : StillDue(t) \in BOOLEAN
    BY DEF StillDue, TypeOK
  <1> QED BY <1>1, FlushedRowsType DEF EndFlush, TypeOK, Marks

LEMMA EventOfType ==
    ASSUME TypeOK, NEW t \in Targets, taken[t] # 0, NEW type \in EventTypes
    PROVE  EventOf(t, type) \in EventRow
  <1>1. taken[t] \in Nat \ {0}
    BY DEF TypeOK
  <1>2. (IF previous[t] = NoSnapshot THEN 0 ELSE previous[t].number) \in Nat
    BY DEF TypeOK, SnapshotRow
  <1> QED BY <1>1, <1>2 DEF EventOf, EventRow

-----------------------------------------------------------------------------
LEMMA ControlInit == Init => Control
  BY MonitorAssumption
  DEF Init, Control, TypeOK, ChecksHoldValues, FlushHasOwner, Flushing,
      HasResult, HasTodo, HasSnapshot

(* The steps of one check preserve Control.                                *)
LEMMA ControlCheckStep ==
    ASSUME Control, NEW t \in Targets, CheckStep(t)
    PROVE  Control'
  <1> USE MonitorAssumption
      DEF Control, TypeOK, ChecksHoldValues, FlushHasOwner, Goto, Checking, Flushing,
          HasResult, HasTodo, HasSnapshot, sessionVars, checkVars
  <1>1. CASE Acquire(t)
    BY <1>1 DEF Acquire
  <1>2. CASE ScrapeFails(t)
    BY <1>2 DEF ScrapeFails, Leave
  <1>3. CASE ScrapeEmpty(t)
    BY <1>3 DEF ScrapeEmpty
  <1>4. CASE ScrapeReturns(t)
    BY <1>4 DEF ScrapeReturns
  <1>5. CASE Autoflush(t)
    BY <1>5 DEF Autoflush, BeginFlush, NeedsAutoflush
  <1>6. CASE ReadLatest(t)
    <2>1. ASSUME NEW latest \in SnapshotRow \cup {NoSnapshot}
          PROVE  DiffSnapshots(ContentOf(latest), result[t]) \in SUBSET EventTypes
      BY DiffType
    <2>2. CASE pc[t] = "latest"
      <3>1. LatestSnapshot(rows, t) \in SnapshotRow \cup {NoSnapshot}
        BY LatestIsARow, SnapshotsType
      <3> QED BY <1>6, <2>1, <2>2, <3>1 DEF ReadLatest, Diff
    <2>3. CASE pc[t] = "latestFlushing"
      <3>1. LatestSnapshot(FlushedRows, t) \in SnapshotRow \cup {NoSnapshot}
        BY LatestIsARow, SnapshotsType, FlushedRowsType
      <3>2. EndFlush({})
        BY <1>6, <2>3 DEF ReadLatest
      <3> QED BY <1>6, <2>1, <2>3, <3>1, <3>2, EndFlushType DEF ReadLatest, Diff
    <2> QED BY <1>6, <2>2, <2>3 DEF ReadLatest
  <1>7. CASE CreateSnapshot(t)
    <2> DEFINE row == [kind |-> "snapshot", target |-> t, number |-> taken[t] + 1,
                       content |-> result[t]]
    <2>1. row \in SnapshotRow
      BY <1>7 DEF CreateSnapshot, SnapshotRow
    <2>2. CASE AddAndFlush(t, row) /\ Goto(t, "snapshotFlushing") /\ UNCHANGED checkVars
      BY <1>7, <2>1, <2>2 DEF CreateSnapshot, AddAndFlush, BeginFlush
    <2>3. CASE AddButBusy(row) /\ Leave(t)
      BY <1>7, <2>1, <2>3 DEF CreateSnapshot, AddButBusy, Leave
    <2> QED BY <1>7, <2>2, <2>3 DEF CreateSnapshot
  <1>8. CASE SnapshotStored(t)
    BY <1>8, EndFlushType DEF SnapshotStored
  <1>9. CASE CreateEvent(t)
    <2> DEFINE row == EventOf(t, FirstType(todo[t]))
    <2>1. row \in EventRow
      BY <1>9, FirstTypeIsFirst, EventOfType DEF CreateEvent
    <2> HIDE DEF row
    <2>2. CASE AddAndFlush(t, row) /\ Goto(t, "eventFlushing") /\ UNCHANGED checkVars
      BY <1>9, <2>1, <2>2 DEF CreateEvent, AddAndFlush, BeginFlush
    <2>3. CASE AddButBusy(row) /\ Leave(t)
      BY <1>9, <2>1, <2>3 DEF CreateEvent, AddButBusy, Leave
    <2> QED BY <1>9, <2>2, <2>3 DEF CreateEvent, row
  <1>10. CASE EventStored(t)
    BY <1>10, EndFlushType DEF EventStored
  <1>11. CASE Announce(t)
    <2>1. EventOf(t, FirstType(todo[t])) \in EventRow
      BY <1>11, FirstTypeIsFirst, EventOfType DEF Announce
    <2> QED BY <1>11, <2>1 DEF Announce, AfterAnnounced
  <1>12. CASE AnnounceFails(t)
    <2>1. EventOf(t, FirstType(todo[t])) \in EventRow
      BY <1>12, FirstTypeIsFirst, EventOfType DEF AnnounceFails
    <2> QED BY <1>12, <2>1 DEF AnnounceFails, Leave
  <1>13. CASE MarkChecked(t)
    <2> DEFINE mark == [kind |-> "mark", target |-> t]
    <2>1. mark \in MarkRow
      BY DEF MarkRow
    <2> HIDE DEF mark
    <2>2. CASE pc[t] = "mark"
      BY <1>13, <2>1, <2>2 DEF MarkChecked, Leave, mark
    <2>3. CASE pc[t] = "markFlushing"
      <3>1. EndFlush({mark})
        BY <1>13, <2>3 DEF MarkChecked, mark
      <3> QED BY <1>13, <2>1, <2>3, <3>1, EndFlushType DEF MarkChecked, Leave
    <2> QED BY <1>13, <2>2, <2>3 DEF MarkChecked
  <1>14. CASE DatabaseFails(t)
    BY <1>14 DEF DatabaseFails, Leave, LoseTransaction
  <1> QED BY <1>1, <1>2, <1>3, <1>4, <1>5, <1>6, <1>7, <1>8, <1>9, <1>10,
             <1>11, <1>12, <1>13, <1>14 DEF CheckStep

(* The steps of the scheduler, of the clock and of the process do too.     *)
LEMMA ControlOtherStep ==
    ASSUME Control,
           \/ \E t \in Targets : IntervalElapses(t)
           \/ SchedulerStep \/ Stop \/ Start \/ UNCHANGED vars
    PROVE  Control'
  <1> USE MonitorAssumption
      DEF Control, TypeOK, ChecksHoldValues, FlushHasOwner, Checking, Flushing,
          HasResult, HasTodo, HasSnapshot, sessionVars, checkVars
  <1>1. ASSUME NEW t \in Targets, IntervalElapses(t) PROVE Control'
    BY <1>1 DEF IntervalElapses
  <1>2. CASE BeginTick
    <2>1. CASE ~NeedsAutoflush
      BY <1>2, <2>1 DEF BeginTick, Queue
    <2>2. CASE NeedsAutoflush
      BY <1>2, <2>2 DEF BeginTick, BeginFlush
    <2> QED BY <2>1, <2>2
  <1>3. CASE ListDue
    <2>1. EndFlush({})
      BY <1>3 DEF ListDue
    <2> QED BY <1>3, <2>1, EndFlushType DEF ListDue, Queue
  <1>4. CASE ListDueFails
    BY <1>4 DEF ListDueFails, LoseTransaction
  <1>5. CASE EndTick
    BY <1>5 DEF EndTick
  <1>6. CASE Stop
    BY <1>6 DEF Stop, LoseTransaction
  <1>7. CASE Start
    BY <1>7 DEF Start
  <1>8. CASE UNCHANGED vars
    BY <1>8 DEF vars
  <1> QED BY <1>1, <1>2, <1>3, <1>4, <1>5, <1>6, <1>7, <1>8 DEF SchedulerStep

LEMMA ControlStep == Control /\ [Next]_vars => Control'
  BY ControlCheckStep, ControlOtherStep DEF Next

(* Every value of the monitor stays in its type; and the conjuncts of      *)
(* Control beside TypeOK are why: a check that reaches the event loop has  *)
(* a scrape, a snapshot and an event left to write.                        *)
THEOREM MonitorTypeCorrect == Spec => []TypeOK
<1>1. Control => TypeOK
  BY DEF Control
<1> QED BY <1>1, ControlInit, ControlStep, PTL DEF Spec

-----------------------------------------------------------------------------
(* The semaphores.                                                         *)
Running(t) == {u \in Targets : RetailerOf[u] = RetailerOf[t] /\ pc[u] \in Checking}

LEMMA RunningIsFinite ==
    ASSUME NEW t \in Targets
    PROVE  IsFiniteSet(Running(t)) /\ Cardinality(Running(t)) \in Nat
  <1>1. Running(t) \subseteq Targets
    BY DEF Running
  <1> QED BY <1>1, MonitorAssumption, FS_Subset, FS_CardinalityType

(* Only Acquire starts a check, and only for its own target.               *)
LEMMA OnlyAcquireStarts ==
    ASSUME Control, [Next]_vars
    PROVE  \/ \E u \in Targets : Acquire(u)
           \/ \A u \in Targets : pc'[u] \in Checking => pc[u] \in Checking
  <1>1. TypeOK
    BY DEF Control
  <1>2. ASSUME NEW t \in Targets, CheckStep(t), ~Acquire(t)
        PROVE  \A u \in Targets : pc'[u] \in Checking => pc[u] \in Checking
    <2>1. pc[t] \in Checking
      BY <1>2 DEF CheckStep, Checking, Flushing, ScrapeFails, ScrapeEmpty, ScrapeReturns,
         Autoflush, ReadLatest, CreateSnapshot, SnapshotStored, CreateEvent, EventStored,
         Announce, AnnounceFails, MarkChecked, DatabaseFails
    <2>2. \E where : pc' = [pc EXCEPT ![t] = where]
      BY <1>2 DEF CheckStep, Goto, Leave, Diff, ScrapeFails, ScrapeEmpty, ScrapeReturns,
         Autoflush, ReadLatest, CreateSnapshot, SnapshotStored, CreateEvent, EventStored,
         Announce, AnnounceFails, MarkChecked, DatabaseFails
    <2> QED BY <1>1, <2>1, <2>2 DEF TypeOK
  <1>3. ASSUME \/ \E t \in Targets : IntervalElapses(t)
               \/ SchedulerStep \/ Stop \/ Start \/ UNCHANGED vars
        PROVE  \A u \in Targets : pc'[u] \in Checking => pc[u] \in Checking
    BY <1>3 DEF IntervalElapses, SchedulerStep, BeginTick, ListDue, ListDueFails, EndTick,
       Queue, Stop, Start, vars, Checking, Flushing
  <1> QED BY <1>2, <1>3 DEF Next
=============================================================================
