------------------------ MODULE MonitorHistoryProofs ------------------------
(***************************************************************************)
(* What the history, the announcements and the marks of Monitor are worth  *)
(* under every interleaving and every failure, for any constants.          *)
(***************************************************************************)
EXTENDS MonitorProofs

(* Every row the session knows of, sent or not.                            *)
Recorded == {r \in rows \cup inflight \cup pending : r.kind # "mark"}

(* Until a check has read the history, and while it is about to add to it. *)
Unread == {"queued", "scrape", "latest", "latestFlushing", "snapshot"}

PreviousNumber(t) == IF previous[t] = NoSnapshot THEN 0 ELSE previous[t].number

Difference(t) == DiffSnapshots(ContentOf(previous[t]), result[t])

SessionShape ==
    /\ flusher = Nobody => inflight = {}
    /\ phase = "listing" => pending = {}
    /\ session = "invalid" => rows = {} /\ inflight = {} /\ pending = {}

(* The rows of a target are numbered in the order they were taken.         *)
Numbering ==
    \A t \in Targets : \A s \in Snapshots(Recorded, t) :
        /\ s.number <= taken[t]
        /\ \A other \in Snapshots(Recorded, t) : other.number = s.number => other = s

(* The autoflush of list_due leaves nothing of a target unsent before its  *)
(* check starts, and only the check itself adds to it afterwards.          *)
NothingLeftOver ==
    \A t \in Targets :
        pc[t] \in Unread => Snapshots(inflight \cup pending, t) = {}

(* While it stores and announces, a check knows the end of the history:    *)
(* its own row, and the row before it.                                     *)
KnowsHistory(t) ==
    /\ pc[t] \in HasTodo =>
          previous[t] \in Snapshots(rows, t) \cup {NoSnapshot}
    /\ pc[t] = "snapshot" =>
          \A s \in Snapshots(Recorded, t) : s.number <= PreviousNumber(t)
    /\ pc[t] \in HasSnapshot =>
          /\ \E s \in Snapshots(Recorded, t) :
                /\ s.number = taken[t]
                /\ s.content = result[t]
                /\ IF pc[t] = "snapshotFlushing" THEN s \in inflight ELSE s \in rows
          /\ \A s \in Snapshots(Recorded, t) :
                s.number <= PreviousNumber(t) \/ s.number = taken[t]
    /\ pc[t] = "eventFlushing" => EventOf(t, FirstType(todo[t])) \in inflight
    /\ pc[t] = "announce" => EventOf(t, FirstType(todo[t])) \in rows

ChecksKnowHistory ==
    session = "active" => \A t \in Targets : KnowsHistory(t)

(* What is left to announce, and what was announced, make up the diff.     *)
Announced(t) == {type \in EventTypes : EventOf(t, type) \in jobs \cap published}

ProgressOf(t) ==
    /\ pc[t] \in {"idle", "queued", "scrape", "done"} => result[t] = NoSnapshot
    /\ pc[t] \in {"snapshot", "snapshotFlushing"} => todo[t] = Difference(t)
    /\ pc[t] \in HasSnapshot => PreviousNumber(t) < taken[t]
    /\ pc[t] \in {"event", "eventFlushing", "announce"} =>
          /\ todo[t] \subseteq Difference(t)
          /\ Difference(t) \subseteq todo[t] \cup Announced(t)
    /\ pc[t] \in {"mark", "markFlushing"} /\ result[t] # NoSnapshot =>
          Difference(t) \subseteq Announced(t)

Progress == \A t \in Targets : ProgressOf(t)

Fires(before, s, type) == type \in DiffSnapshots(before, s.content)

(* Each event row is explained by the two rows it names, and no row lies   *)
(* between them.                                                           *)
Explained ==
    \A t \in Targets : \A e \in Recorded : e.kind = "event" /\ e.target = t =>
        /\ e.previous < e.snapshot /\ e.snapshot <= taken[t]
        /\ \E s \in Snapshots(rows, t) :
              /\ s.number = e.snapshot
              /\ \/ e.previous = 0 /\ Fires(NoSnapshot, s, e.type)
                 \/ \E p \in Snapshots(rows, t) :
                       p.number = e.previous /\ Fires(p.content, s, e.type)
        /\ \A s \in Snapshots(Recorded, t) :
              s.number <= e.previous \/ e.snapshot <= s.number

(* An announcement whose snapshot is still recorded has its own row.       *)
AnnouncementsStored ==
    \A t \in Targets : \A e \in published \cup jobs : e.target = t =>
        /\ e.previous < e.snapshot /\ e.snapshot <= taken[t]
        /\ \A s \in Snapshots(Recorded, t) : s.number = e.snapshot => e \in rows

(* The jobs of a snapshot are sent from the first one on.                  *)
JobsOrdered ==
    \A t \in Targets : \A e \in jobs : e.target = t =>
        \A s \in Snapshots(Recorded, t) : s.number = e.snapshot =>
            \A type \in EventTypes : Rank(type) < Rank(e.type) =>
                /\ e.previous = 0 /\ Fires(NoSnapshot, s, type) =>
                      [e EXCEPT !.type = type] \in jobs
                /\ \A p \in Snapshots(Recorded, t) :
                      p.number = e.previous /\ Fires(p.content, s, type) =>
                          [e EXCEPT !.type = type] \in jobs

Inv ==
    /\ Control
    /\ SessionShape /\ Numbering /\ NothingLeftOver /\ ChecksKnowHistory
    /\ Progress /\ Explained /\ AnnouncementsStored /\ JobsOrdered
-----------------------------------------------------------------------------
(* What the operations of the session do to the rows.                      *)

LEMMA BeginFlushKeepsRecorded ==
    ASSUME inflight = {}, NEW who, BeginFlush(who, pending)
    PROVE  Recorded' = Recorded /\ rows' = rows
  BY DEF BeginFlush, Recorded

LEMMA EndFlushKeepsRecorded ==
    ASSUME TypeOK, NEW added \in SUBSET MarkRow, EndFlush(added)
    PROVE  /\ Recorded' = Recorded
           /\ rows \subseteq rows'
           /\ \A r \in inflight : r.kind # "mark" => r \in rows'
           /\ \A t : Snapshots(inflight \cup pending, t)'
                        \subseteq Snapshots(inflight \cup pending, t)
  BY DEF EndFlush, FlushedRows, Recorded, Marks, Snapshots, MarkRow, TypeOK

LEMMA AddAndFlushRecords ==
    ASSUME inflight = {}, NEW t, NEW row, row.kind # "mark", AddAndFlush(t, row)
    PROVE  Recorded' = Recorded \cup {row} /\ rows' = rows /\ row \in inflight'
  BY DEF AddAndFlush, BeginFlush, Recorded

LEMMA AddButBusyRecords ==
    ASSUME NEW row, row.kind # "mark", AddButBusy(row)
    PROVE  Recorded' = Recorded \cup {row} /\ rows' = rows /\ inflight' = inflight
  BY DEF AddButBusy, Recorded

-----------------------------------------------------------------------------
(* The history is kept by a step that adds nothing to it, and by one that  *)
(* loses it.                                                               *)
History == Numbering /\ Explained /\ AnnouncementsStored /\ JobsOrdered

LEMMA HistoryKept ==
    ASSUME History, taken' = taken, published' = published, jobs' = jobs,
           rows \subseteq rows', Recorded' = Recorded
    PROVE  History'
  <1>1. \A t : Snapshots(Recorded, t)' = Snapshots(Recorded, t)
    BY DEF Snapshots
  <1>2. \A t : Snapshots(rows, t) \subseteq Snapshots(rows, t)'
    BY DEF Snapshots
  <1>3. Numbering'
    BY <1>1 DEF History, Numbering
  <1>4. Explained'
    BY <1>1, <1>2 DEF History, Explained, Fires
  <1>5. AnnouncementsStored'
    BY <1>1 DEF History, AnnouncementsStored
  <1>6. JobsOrdered'
    BY <1>1 DEF History, JobsOrdered, Fires
  <1> QED BY <1>3, <1>4, <1>5, <1>6 DEF History

LEMMA HistoryLost ==
    ASSUME History, taken' = taken, published' = published, jobs' = jobs,
           Recorded' = {}
    PROVE  History'
  BY DEF History, Numbering, Explained, AnnouncementsStored, JobsOrdered, Snapshots

(* A check that takes no step is not disturbed.                            *)
LEMMA ChecksKept ==
    ASSUME NEW t \in Targets,
           pc'[t] = pc[t], result'[t] = result[t], previous'[t] = previous[t],
           todo'[t] = todo[t], taken'[t] = taken[t],
           jobs \subseteq jobs', published \subseteq published'
    PROVE  /\ ProgressOf(t) => ProgressOf(t)'
           /\ (/\ KnowsHistory(t)
               /\ Snapshots(Recorded, t)' = Snapshots(Recorded, t)
               /\ rows \subseteq rows'
               /\ pc[t] \in Flushing => inflight \subseteq inflight')
              => KnowsHistory(t)'
  <1>1. ProgressOf(t) => ProgressOf(t)'
    BY DEF ProgressOf, Difference, Announced, PreviousNumber, EventOf, ContentOf
  <1>2. Snapshots(rows, t) \subseteq Snapshots(rows', t) \/ ~(rows \subseteq rows')
    BY DEF Snapshots
  <1>3. \A type : EventOf(t, type)' = EventOf(t, type)
    BY DEF EventOf
  <1>4. PreviousNumber(t)' = PreviousNumber(t)
    BY DEF PreviousNumber
  <1>5. FirstType(todo[t])' = FirstType(todo[t])
    BY DEF FirstType
  <1> QED BY <1>1, <1>2, <1>3, <1>4, <1>5 DEF KnowsHistory, Flushing, FirstType, EventOf
-----------------------------------------------------------------------------
(* A step of the check of t, seen from the other checks.                   *)

Untouched(u) ==
    /\ pc'[u] = pc[u] /\ result'[u] = result[u] /\ previous'[u] = previous[u]
    /\ todo'[u] = todo[u] /\ taken'[u] = taken[u]

LeftOver(t) == Snapshots(inflight \cup pending, t)

Mine(t) ==
    /\ ProgressOf(t)
    /\ session = "active" => KnowsHistory(t)
    /\ pc[t] \in Unread => LeftOver(t) = {}

Everyone == \A t \in Targets : Mine(t)

LEMMA InvParts ==
    Inv <=> Control /\ SessionShape /\ History /\ Everyone
  BY DEF Inv, History, Everyone, Mine, LeftOver, NothingLeftOver,
         ChecksKnowHistory, Progress

(* What the step of t may do to the session without disturbing the others. *)
LEMMA OthersKept ==
    ASSUME NEW t \in Targets, NEW u \in Targets, u # t, Mine(u), Untouched(u),
           session' = session, jobs \subseteq jobs', published \subseteq published',
           rows \subseteq rows', inflight \subseteq inflight' \/ flusher # u,
           session = "active" => (pc[u] \in Flushing <=> flusher = u),
           Snapshots(Recorded, u)' = Snapshots(Recorded, u),
           LeftOver(u)' \subseteq LeftOver(u)
    PROVE  Mine(u)'
  <1>1. ProgressOf(u)'
    BY ChecksKept DEF Mine, Untouched
  <1>2. session' = "active" => KnowsHistory(u)'
    BY ChecksKept DEF Mine, Untouched
  <1>3. pc'[u] \in Unread => LeftOver(u)' = {}
    BY DEF Mine, Untouched
  <1> QED BY <1>1, <1>2, <1>3 DEF Mine

(* A step that leaves the session, the history and the announcements alone.*)
LEMMA LocalStep ==
    ASSUME Inv, NEW t \in Targets, \A u \in Targets \ {t} : Untouched(u),
           UNCHANGED <<sessionVars, taken, published, jobs>>,
           phase' = phase, Mine(t)'
    PROVE  SessionShape' /\ History' /\ Everyone'
  <1>1. Recorded' = Recorded /\ rows \subseteq rows'
    BY DEF sessionVars, Recorded
  <1>2. History'
    BY <1>1, HistoryKept, InvParts
  <1>3. SessionShape'
    BY DEF Inv, SessionShape, sessionVars
  <1>4. ASSUME NEW u \in Targets, u # t PROVE Mine(u)'
    <2>1. Snapshots(Recorded, u)' = Snapshots(Recorded, u)
      BY <1>1 DEF Snapshots
    <2>2. LeftOver(u)' = LeftOver(u)
      BY DEF LeftOver, Snapshots, sessionVars
    <2>3. Mine(u) /\ (session = "active" => (pc[u] \in Flushing <=> flusher = u))
      BY InvParts DEF Everyone, Control, FlushHasOwner
    <2>4. Untouched(u)
      BY <1>4
    <2> QED BY <1>1, <1>4, <2>1, <2>2, <2>3, <2>4, OthersKept DEF sessionVars
  <1> QED BY <1>2, <1>3, <1>4 DEF Everyone

LEMMA Touches ==
    ASSUME TypeOK, NEW t \in Targets, CheckStep(t)
    PROVE  \A u \in Targets \ {t} : Untouched(u)
  BY DEF TypeOK, CheckStep, Untouched, Goto, Leave, checkVars, Acquire, ScrapeFails,
         ScrapeEmpty, ScrapeReturns, Autoflush, ReadLatest, Diff, CreateSnapshot,
         SnapshotStored, CreateEvent, EventStored, Announce, AnnounceFails,
         MarkChecked, DatabaseFails
-----------------------------------------------------------------------------
(* The facts a step of the check of t finds.                               *)
LEMMA During ==
    ASSUME Inv, NEW t \in Targets, pc[t] # "idle"
    PROVE  /\ phase = "checking"
           /\ flusher # Scheduler
           /\ session = "active" /\ pc[t] \in Flushing => flusher = t
           /\ Mine(t) /\ TypeOK /\ SessionShape /\ History
           /\ t # Nobody
           /\ \A u \in Targets : Mine(u)
           /\ \A u \in Targets : session = "active" =>
                  (pc[u] \in Flushing <=> flusher = u)
  BY InvParts, MonitorAssumption DEF Control, FlushHasOwner, Everyone

(* A check whose SELECT flushes first.                                     *)
LEMMA AutoflushStep ==
    ASSUME Inv, NEW t \in Targets, Autoflush(t), \A u \in Targets \ {t} : Untouched(u)
    PROVE  SessionShape' /\ History' /\ Everyone'
  <1>1. /\ pc[t] \in {"latest", "mark"} /\ session = "active" /\ BeginFlush(t, pending)
        /\ flusher = Nobody /\ pc' = [pc EXCEPT ![t] = IF pc[t] = "latest"
                                         THEN "latestFlushing" ELSE "markFlushing"]
        /\ UNCHANGED <<phase, run, checkVars, taken, published, jobs>>
    BY DEF Autoflush, NeedsAutoflush, Goto
  <1>2. phase = "checking" /\ Mine(t) /\ TypeOK /\ SessionShape /\ History
        /\ flusher' = t /\ t # Nobody /\ session' = session /\ inflight = {}
    BY <1>1, During DEF SessionShape, BeginFlush
  <1>3. Recorded' = Recorded /\ rows' = rows
    BY <1>1, <1>2, BeginFlushKeepsRecorded
  <1>4. History'
    BY <1>1, <1>2, <1>3, HistoryKept
  <1>5. SessionShape'
    BY <1>1, <1>2 DEF SessionShape
  <1>6. \A u \in Targets : LeftOver(u)' = LeftOver(u) /\ Snapshots(Recorded, u)'
                                                        = Snapshots(Recorded, u)
    BY <1>1, <1>2, <1>3 DEF LeftOver, Snapshots, BeginFlush
  <1>7. ASSUME NEW u \in Targets, u # t PROVE Mine(u)'
    <2>1. Mine(u) /\ (session = "active" => (pc[u] \in Flushing <=> flusher = u))
      BY <1>1, During
    <2>2. Untouched(u)
      BY <1>7
    <2>3. flusher # u
      BY <1>1, MonitorAssumption
    <2> QED BY <1>1, <1>2, <1>3, <1>6, <1>7, <2>1, <2>2, <2>3, OthersKept
  <1>8. Mine(t)'
    <2>1. pc'[t] = IF pc[t] = "latest" THEN "latestFlushing" ELSE "markFlushing"
      BY <1>1, <1>2 DEF TypeOK
    <2>2. ProgressOf(t)'
      BY <1>1, <1>2, <2>1 DEF Mine, ProgressOf, HasSnapshot, Difference, Announced,
                              EventOf, ContentOf, checkVars
    <2>3. KnowsHistory(t)'
      BY <1>1, <2>1 DEF KnowsHistory, HasSnapshot, HasTodo
    <2>4. pc'[t] \in Unread => LeftOver(t)' = {}
      BY <1>1, <1>2, <1>6, <2>1 DEF Mine, Unread
    <2> QED BY <2>2, <2>3, <2>4 DEF Mine
  <1> QED BY <1>4, <1>5, <1>7, <1>8 DEF Everyone

(* A check whose flush ends.                                               *)
LEMMA EndFlushStep ==
    ASSUME Inv, NEW t \in Targets, \A u \in Targets \ {t} : Untouched(u),
           NEW added \in SUBSET MarkRow, EndFlush(added),
           session = "active", pc[t] \in Flushing,
           UNCHANGED <<phase, taken, published, jobs>>, Mine(t)'
    PROVE  SessionShape' /\ History' /\ Everyone'
  <1>1. /\ phase = "checking" /\ TypeOK /\ SessionShape /\ History
        /\ flusher = t /\ session' = session
    BY During DEF Flushing, EndFlush
  <1>2. /\ Recorded' = Recorded /\ rows \subseteq rows'
        /\ \A u : LeftOver(u)' \subseteq LeftOver(u)
    BY <1>1, EndFlushKeepsRecorded DEF LeftOver
  <1>3. History'
    BY <1>1, <1>2, HistoryKept
  <1>4. SessionShape'
    BY <1>1 DEF SessionShape, EndFlush
  <1>5. ASSUME NEW u \in Targets, u # t PROVE Mine(u)'
    <2>1. Mine(u) /\ (session = "active" => (pc[u] \in Flushing <=> flusher = u))
      BY During DEF Flushing
    <2>2. Untouched(u) /\ Snapshots(Recorded, u)' = Snapshots(Recorded, u)
      BY <1>2, <1>5 DEF Snapshots
    <2> QED BY <1>1, <1>2, <1>5, <2>1, <2>2, OthersKept
  <1> QED BY <1>3, <1>4, <1>5 DEF Everyone
-----------------------------------------------------------------------------
(* The steps of a check.                                                   *)
LEMMA LeaveIsQuiet ==
    ASSUME TypeOK, NEW t \in Targets, Leave(t)
    PROVE  Mine(t)'
  <1>1. pc'[t] = "done" /\ result'[t] = NoSnapshot
    BY DEF TypeOK, Leave, Goto
  <1> QED BY <1>1 DEF Mine, ProgressOf, KnowsHistory, HasSnapshot, HasTodo, Unread

LEMMA AcquireStep ==
    ASSUME Inv, NEW t \in Targets, Acquire(t), \A u \in Targets \ {t} : Untouched(u)
    PROVE  SessionShape' /\ History' /\ Everyone'
  <1>1. TypeOK /\ Mine(t)
    BY During DEF Acquire
  <1>2. pc[t] = "queued" /\ pc'[t] = "scrape"
    BY <1>1 DEF Acquire, Goto, TypeOK
  <1>3. Mine(t)'
    BY <1>1, <1>2 DEF Mine, Acquire, ProgressOf, KnowsHistory, HasSnapshot, HasTodo,
                      Unread, checkVars, LeftOver, sessionVars, Snapshots
  <1> QED BY <1>3, LocalStep DEF Acquire

LEMMA ScrapeStep ==
    ASSUME Inv, NEW t \in Targets, ScrapeFails(t) \/ ScrapeEmpty(t) \/ ScrapeReturns(t),
           \A u \in Targets \ {t} : Untouched(u)
    PROVE  SessionShape' /\ History' /\ Everyone'
  <1>1. TypeOK /\ Mine(t) /\ pc[t] = "scrape"
    BY During DEF ScrapeFails, ScrapeEmpty, ScrapeReturns
  <1>2. UNCHANGED <<phase, sessionVars, taken, published, jobs>>
    BY DEF ScrapeFails, ScrapeEmpty, ScrapeReturns
  <1>3. CASE ScrapeFails(t)
    BY <1>1, <1>2, <1>3, LeaveIsQuiet, LocalStep DEF ScrapeFails
  <1>4. CASE ScrapeEmpty(t)
    <2>1. pc'[t] = "mark" /\ result' = result
      BY <1>1, <1>4 DEF ScrapeEmpty, Goto, TypeOK, checkVars
    <2>2. Mine(t)'
      BY <1>1, <2>1 DEF Mine, ProgressOf, KnowsHistory, HasSnapshot, HasTodo, Unread
    <2> QED BY <1>2, <2>2, LocalStep
  <1>5. CASE ScrapeReturns(t)
    <2>1. pc'[t] = "latest"
      BY <1>1, <1>5 DEF ScrapeReturns, Goto, TypeOK
    <2>2. Mine(t)'
      BY <1>1, <1>2, <2>1 DEF Mine, ProgressOf, KnowsHistory, HasSnapshot, HasTodo, Unread,
                              LeftOver, Snapshots, sessionVars
    <2> QED BY <1>2, <2>2, LocalStep
  <1> QED BY <1>3, <1>4, <1>5

-----------------------------------------------------------------------------
(* get_latest finds the newest row: there is one, since rows are numbered  *)
(* up to a bound.                                                          *)

(* The order of the naturals, as a relation.                               *)
LEMMA NatOrder == IsWellFoundedOn({p \in Nat \X Nat : p[1] < p[2]}, Nat)
  <1>1. {p \in Nat \X Nat : p[1] < p[2]} \cap (Nat \X Nat) \subseteq OpToRel(<, Nat)
    BY DEF OpToRel
  <1> QED BY <1>1, NatLessThanWellFounded, IsWellFoundedOnSubrelation

(* A bounded set of naturals has a largest member.                        *)
LEMMA LargestNatural ==
    ASSUME NEW S \in SUBSET Nat, S # {}, NEW b \in Nat, \A n \in S : n <= b
    PROVE  \E m \in S : \A n \in S : n <= m
  <1> DEFINE R == {p \in Nat \X Nat : p[1] < p[2]}
  <1> DEFINE T == {k \in Nat : b - k \in S}
  <1>1. \A n \in S : n \in Nat /\ b - n \in Nat /\ b - (b - n) = n
    OBVIOUS
  <1>2. T \subseteq Nat /\ T # {}
    BY <1>1
  <1>3. PICK x \in T : \A y \in T : ~ (<<y, x>> \in R)
    BY <1>2, NatOrder, WFMin
  <1>4. x \in Nat /\ b - x \in S
    OBVIOUS
  <1>5. ASSUME NEW n \in S PROVE n <= b - x
    <2>1. b - n \in T /\ b - n \in Nat /\ n \in Nat
      BY <1>1
    <2>2. ~(b - n < x)
      BY <1>3, <1>4, <2>1
    <2> QED BY <1>4, <2>1, <2>2
  <1> QED BY <1>4, <1>5

LEMMA LatestIsNewest ==
    ASSUME NEW rs \in SUBSET (SnapshotRow \cup EventRow), NEW t \in Targets,
           NEW bound \in Nat, \A s \in Snapshots(rs, t) : s.number <= bound,
           NEW s \in Snapshots(rs, t)
    PROVE  LatestSnapshot(rs, t) # NoSnapshot /\ s.number <= LatestSnapshot(rs, t).number
  <1> DEFINE Numbers == {r.number : r \in Snapshots(rs, t)}
  <1>1. Snapshots(rs, t) \subseteq SnapshotRow
    BY DEF Snapshots, SnapshotRow, EventRow
  <1>2. Numbers \in SUBSET Nat /\ Numbers # {} /\ \A n \in Numbers : n <= bound
    BY <1>1 DEF SnapshotRow
  <1>3. PICK m \in Numbers : \A n \in Numbers : n <= m
    <2> HIDE DEF Numbers
    <2> QED BY <1>2, LargestNatural
  <1>4. PICK last \in Snapshots(rs, t) : last.number = m
    BY <1>3
  <1>5. \A other \in Snapshots(rs, t) : other.number <= last.number
    BY <1>3, <1>4
  <1>6. LatestSnapshot(rs, t) \in {r \in Snapshots(rs, t) :
              \A other \in Snapshots(rs, t) : other.number <= r.number}
    BY <1>4, <1>5 DEF LatestSnapshot
  <1> QED BY <1>1, <1>6, RowAssumption

(* The baseline read is the newest snapshot the session knows of.          *)
LEMMA DiffFindsTheNewest ==
    ASSUME Inv, NEW t \in Targets, pc[t] \in {"latest", "latestFlushing"},
           session = "active", session' = session, TypeOK',
           Recorded' = Recorded, LeftOver(t)' \subseteq LeftOver(t),
           UNCHANGED <<result, taken, published, jobs>>,
           Diff(t, LatestSnapshot(rows', t))
    PROVE  Mine(t)'
  <1>1. TypeOK /\ Mine(t)
    BY During
  <1>2. LeftOver(t) = {} /\ LeftOver(t)' = {}
    BY <1>1 DEF Mine, Unread
  <1>3. \A s \in Snapshots(Recorded, t)' : s \in Snapshots(rows, t)'
    BY <1>2 DEF LeftOver, Snapshots, Recorded
  <1>4. /\ previous'[t] = LatestSnapshot(rows', t)
        /\ todo'[t] = DiffSnapshots(ContentOf(previous'[t]), result[t])
        /\ pc'[t] = IF todo'[t] = {} THEN "mark" ELSE "snapshot"
    BY <1>1 DEF Diff, Goto, TypeOK
  <1>5. ProgressOf(t)'
    BY <1>4 DEF ProgressOf, Difference, ContentOf, HasSnapshot
  <1>6. previous'[t] \in Snapshots(rows', t) \cup {NoSnapshot}
    BY <1>4, LatestIsARow
  <1>7. ASSUME NEW s \in Snapshots(Recorded, t)'
        PROVE  s.number <= PreviousNumber(t)'
    <2>1. s \in Snapshots(rows', t)
      BY <1>3, <1>7 DEF Snapshots
    <2>2. previous'[t] # NoSnapshot /\ s.number <= previous'[t].number
      <3>1. Numbering /\ taken[t] \in Nat /\ rows' \subseteq SnapshotRow \cup EventRow
        BY <1>1 DEF Inv, TypeOK
      <3>2. \A r \in Snapshots(rows', t) : r \in Snapshots(Recorded, t)
        BY <3>1 DEF Recorded, Snapshots
      <3>3. \A r \in Snapshots(rows', t) : r.number <= taken[t]
        BY <3>1, <3>2 DEF Numbering
      <3> QED BY <1>4, <2>1, <3>1, <3>3, LatestIsNewest
    <2> QED BY <2>2 DEF PreviousNumber
  <1>8. KnowsHistory(t)'
    BY <1>4, <1>6, <1>7 DEF KnowsHistory, HasSnapshot, HasTodo, Snapshots
  <1> QED BY <1>2, <1>5, <1>8 DEF Mine
LEMMA ReadLatestStep ==
    ASSUME Inv, NEW t \in Targets, ReadLatest(t), TypeOK',
           \A u \in Targets \ {t} : Untouched(u)
    PROVE  SessionShape' /\ History' /\ Everyone'
  <1>1. TypeOK /\ Mine(t) /\ session = "active"
        /\ UNCHANGED <<phase, result, taken, published, jobs>>
    BY During DEF ReadLatest
  <1>2. CASE /\ pc[t] = "latest"
             /\ Diff(t, LatestSnapshot(rows, t))
             /\ UNCHANGED sessionVars
    <2>1. Recorded' = Recorded /\ LeftOver(t)' = LeftOver(t) /\ rows' = rows
      BY <1>2 DEF sessionVars, Recorded, LeftOver, Snapshots
    <2>2. Mine(t)'
      BY <1>1, <1>2, <2>1, DiffFindsTheNewest DEF sessionVars
    <2> QED BY <1>1, <1>2, <2>2, LocalStep
  <1>3. CASE /\ pc[t] = "latestFlushing"
             /\ EndFlush({})
             /\ Diff(t, LatestSnapshot(FlushedRows, t))
    <2>1. /\ Recorded' = Recorded /\ LeftOver(t)' \subseteq LeftOver(t)
          /\ rows' = FlushedRows /\ session' = session
      <3>1. rows' = FlushedRows /\ session' = session
        BY <1>3 DEF EndFlush
      <3> QED BY <1>1, <1>3, <3>1, EndFlushKeepsRecorded DEF LeftOver
    <2>2. Mine(t)'
      BY <1>1, <1>3, <2>1, DiffFindsTheNewest
    <2> QED BY <1>1, <1>3, <2>2, EndFlushStep DEF Flushing
  <1> QED BY <1>2, <1>3 DEF ReadLatest

(* A new snapshot row comes after every row and every announcement.        *)
LEMMA SnapshotAdded ==
    ASSUME Inv, NEW t \in Targets, NEW row \in SnapshotRow,
           row.target = t, row.number = taken[t] + 1,
           taken' = [taken EXCEPT ![t] = @ + 1], published' = published, jobs' = jobs,
           rows' = rows, Recorded' = Recorded \cup {row}
    PROVE  History'
  <1>1. TypeOK /\ History /\ Recorded \subseteq SnapshotRow \cup EventRow
        /\ row.kind = "snapshot"
    BY InvParts DEF Control, TypeOK, Recorded, SnapshotRow, EventRow, MarkRow
  <1>2. taken'[t] = taken[t] + 1 /\ \A u \in Targets : u # t => taken'[u] = taken[u]
    BY <1>1 DEF TypeOK
  <1>3. /\ Snapshots(Recorded', t) = Snapshots(Recorded, t) \cup {row}
        /\ \A u \in Targets : u # t => Snapshots(Recorded', u) = Snapshots(Recorded, u)
        /\ \A u \in Targets : Snapshots(rows', u) = Snapshots(rows, u)
        /\ \A u \in Targets : taken[u] \in Nat /\ Snapshots(Recorded, u) \subseteq SnapshotRow
    BY <1>1 DEF Snapshots, SnapshotRow, EventRow, TypeOK
  <1>4. \A s \in SnapshotRow : s.number \in Nat
    BY DEF SnapshotRow
  <1>5. \A e \in EventRow : e.snapshot \in Nat /\ e.previous \in Nat /\ e.kind = "event"
    BY DEF EventRow
  <1>6. published \cup jobs \subseteq EventRow
    BY <1>1 DEF TypeOK
  <1>0. taken[t] \in Nat /\ taken[t] < row.number /\ row.number <= taken'[t]
    BY <1>2, <1>3
  <1>7. Numbering'
    <2> SUFFICES ASSUME NEW u \in Targets, NEW s \in Snapshots(Recorded', u)
                 PROVE  /\ s.number <= taken'[u]
                        /\ \A other \in Snapshots(Recorded', u) :
                              other.number = s.number => other = s
      BY DEF Numbering, Snapshots
    <2>1. CASE u # t
      BY <1>1, <1>2, <1>3, <2>1 DEF History, Numbering
    <2>2. CASE u = t
      <3>1. \A r \in Snapshots(Recorded, t) : r.number <= taken[t] /\ r.number \in Nat
        BY <1>1, <1>3, <1>4 DEF History, Numbering
      <3>2. \A r \in Snapshots(Recorded, t) : r.number < row.number /\ r.number <= taken'[t]
        BY <1>0, <1>2, <3>1
      <3>3. \A r, other \in Snapshots(Recorded, t) : other.number = r.number => other = r
        BY <1>1 DEF History, Numbering
      <3>4. \A r \in Snapshots(Recorded, t) : r.number # row.number
        BY <1>0, <3>1, <3>2
      <3>5. Snapshots(Recorded', u) = Snapshots(Recorded, t) \cup {row}
        BY <1>3, <2>2
      <3>6. \A r, other \in Snapshots(Recorded', u) : other.number = r.number => other = r
        BY <3>3, <3>4, <3>5
      <3>7. \A r \in Snapshots(Recorded', u) : r.number <= taken'[t]
        BY <1>0, <3>2, <3>5
      <3> QED BY <2>2, <3>6, <3>7
    <2> QED BY <2>1, <2>2
  <1>8. Explained'
    <2> SUFFICES ASSUME NEW u \in Targets, NEW e \in Recorded', e.kind = "event", e.target = u
                 PROVE  /\ e.previous < e.snapshot /\ e.snapshot <= taken'[u]
                        /\ \E s \in Snapshots(rows', u) :
                              /\ s.number = e.snapshot
                              /\ \/ e.previous = 0 /\ Fires(NoSnapshot, s, e.type)
                                 \/ \E p \in Snapshots(rows', u) :
                                       p.number = e.previous /\ Fires(p.content, s, e.type)
                        /\ \A s \in Snapshots(Recorded', u) :
                              s.number <= e.previous \/ e.snapshot <= s.number
      BY DEF Explained, Snapshots, Fires
    <2>1. e \in Recorded /\ e \in EventRow
      BY <1>1 DEF SnapshotRow
    <2>2. e.previous < e.snapshot /\ e.snapshot <= taken[u]
          /\ e.snapshot <= taken'[u]
      <3>1. e.previous < e.snapshot /\ e.snapshot <= taken[u]
        BY <1>1, <2>1 DEF History, Explained
      <3> QED BY <1>2, <1>3, <1>5, <2>1, <3>1
    <2>3. \E s \in Snapshots(rows', u) :
             /\ s.number = e.snapshot
             /\ \/ e.previous = 0 /\ Fires(NoSnapshot, s, e.type)
                \/ \E p \in Snapshots(rows', u) :
                      p.number = e.previous /\ Fires(p.content, s, e.type)
      BY <1>1, <1>3, <2>1 DEF History, Explained
    <2>4. \A s \in Snapshots(Recorded', u) : s.number <= e.previous \/ e.snapshot <= s.number
      <3>1. \A s \in Snapshots(Recorded, u) :
               s.number <= e.previous \/ e.snapshot <= s.number
        BY <1>1, <2>1 DEF History, Explained
      <3>2. u = t => e.snapshot <= row.number
        BY <1>3, <1>5, <2>1, <2>2
      <3> QED BY <1>3, <3>1, <3>2
    <2> QED BY <2>2, <2>3, <2>4
  <1>9. AnnouncementsStored'
    <2> SUFFICES ASSUME NEW u \in Targets, NEW e \in published \cup jobs, e.target = u
                 PROVE  /\ e.previous < e.snapshot /\ e.snapshot <= taken'[u]
                        /\ \A s \in Snapshots(Recorded', u) : s.number = e.snapshot => e \in rows
      BY DEF AnnouncementsStored, Snapshots
    <2>1. /\ e.previous < e.snapshot /\ e.snapshot <= taken[u]
          /\ \A s \in Snapshots(Recorded, u) : s.number = e.snapshot => e \in rows
      BY <1>1 DEF History, AnnouncementsStored
    <2>2. e.snapshot \in Nat /\ taken[u] \in Nat
      BY <1>3, <1>5, <1>6
    <2>3. u = t => e.snapshot # row.number /\ e.snapshot <= taken'[u]
      BY <1>0, <1>2, <2>1, <2>2
    <2> QED BY <1>2, <1>3, <2>1, <2>3
  <1>10. JobsOrdered'
    <2>1. \A e \in jobs : e.target \in Targets =>
              e.snapshot <= taken[e.target] /\ e.previous <= taken[e.target]
      BY <1>1, <1>3, <1>5, <1>6 DEF History, AnnouncementsStored
    <2>2. ASSUME NEW e \in jobs, NEW u \in Targets, e.target = u,
                 NEW s \in Snapshots(Recorded', u), s.number \in {e.snapshot, e.previous}
          PROVE  s \in Snapshots(Recorded, u)
      <3>1. e.snapshot \in Nat /\ e.previous \in Nat /\ e.snapshot <= taken[u]
            /\ e.previous <= taken[u]
        BY <1>5, <1>6, <2>1, <2>2
      <3>2. u = t => s # row
        BY <1>0, <2>2, <3>1
      <3> QED BY <1>3, <2>2, <3>2
    <2> QED BY <1>1, <2>2 DEF History, JobsOrdered, Fires
  <1> QED BY <1>7, <1>8, <1>9, <1>10 DEF History

(* The check stores what it scraped: its row is the one after the newest.  *)
LEMMA CreateSnapshotStep ==
    ASSUME Inv, NEW t \in Targets, CreateSnapshot(t), TypeOK',
           \A u \in Targets \ {t} : Untouched(u)
    PROVE  SessionShape' /\ History' /\ Everyone'
  <1> DEFINE row == [kind |-> "snapshot", target |-> t, number |-> taken[t] + 1,
                     content |-> result[t]]
  <1>1. /\ session = "active" /\ pc[t] = "snapshot"
        /\ taken' = [taken EXCEPT ![t] = @ + 1]
        /\ UNCHANGED <<phase, run, published, jobs>>
        /\ \/ AddAndFlush(t, row) /\ Goto(t, "snapshotFlushing") /\ UNCHANGED checkVars
           \/ AddButBusy(row) /\ Leave(t)
    BY DEF CreateSnapshot
  <1>2. /\ phase = "checking" /\ TypeOK /\ SessionShape /\ Mine(t) /\ t # Nobody
        /\ \A u \in Targets : Mine(u)
        /\ \A u \in Targets : (pc[u] \in Flushing <=> flusher = u)
    BY <1>1, During
  <1>3. row \in SnapshotRow /\ row.kind # "mark" /\ row.target = t
        /\ row.number = taken[t] + 1 /\ row.content = result[t]
    BY <1>1, InvParts DEF Control, ChecksHoldValues, HasResult, TypeOK, SnapshotRow
  <1>4. taken'[t] = taken[t] + 1 /\ taken[t] \in Nat
    BY <1>1, <1>2 DEF TypeOK
  <1> HIDE DEF row
  <1>5. Recorded' = Recorded \cup {row} /\ rows' = rows /\ session' = session
        /\ inflight \subseteq inflight'
        /\ (inflight \cup pending)' = inflight \cup pending \cup {row}
    <2>1. CASE AddAndFlush(t, row)
      <3>1. inflight = {}
        BY <1>2, <2>1 DEF AddAndFlush, SessionShape
      <3> QED BY <1>3, <2>1, <3>1, AddAndFlushRecords DEF AddAndFlush, BeginFlush
    <2>2. CASE AddButBusy(row)
      BY <1>3, <2>2, AddButBusyRecords DEF AddButBusy
    <2> QED BY <1>1, <2>1, <2>2
  <1>6. History'
    BY <1>1, <1>3, <1>5, SnapshotAdded
  <1>7. SessionShape'
    BY <1>1, <1>2, <1>5 DEF SessionShape, AddAndFlush, BeginFlush, AddButBusy
  <1>8. ASSUME NEW u \in Targets, u # t PROVE Mine(u)'
    <2>1. Mine(u) /\ Untouched(u)
      BY <1>2, <1>8
    <2>2. Snapshots(Recorded, u)' = Snapshots(Recorded, u)
          /\ LeftOver(u)' \subseteq LeftOver(u)
      BY <1>3, <1>5, <1>8 DEF LeftOver, Snapshots
    <2> QED BY <1>1, <1>2, <1>5, <1>8, <2>1, <2>2, OthersKept
  <1>9. Mine(t)'
    <2>1. CASE Leave(t)
      BY <1>2, <2>1, LeaveIsQuiet
    <2>2. CASE AddAndFlush(t, row) /\ Goto(t, "snapshotFlushing") /\ UNCHANGED checkVars
      <3>1. /\ pc'[t] = "snapshotFlushing" /\ result' = result /\ previous' = previous
            /\ todo' = todo /\ row \in inflight'
        BY <1>2, <2>2 DEF Goto, TypeOK, checkVars, AddAndFlush, BeginFlush
      <3>2. PreviousNumber(t)' = PreviousNumber(t) /\ Difference(t)' = Difference(t)
        BY <3>1 DEF PreviousNumber, Difference, ContentOf
      <3>3. KnowsHistory(t) /\ ProgressOf(t) /\ Numbering
        BY <1>1, <1>2 DEF Mine, Inv
      <3>4. PreviousNumber(t) \in Nat /\ PreviousNumber(t) <= taken[t]
        <4>1. CASE previous[t] = NoSnapshot
          BY <1>4, <4>1 DEF PreviousNumber
        <4>2. CASE previous[t] # NoSnapshot
          <5>1. previous[t] \in Snapshots(rows, t) /\ previous[t] \in SnapshotRow
            BY <1>1, <1>2, <3>3, <4>2 DEF KnowsHistory, HasTodo, TypeOK
          <5>2. previous[t] \in Snapshots(Recorded, t)
            BY <5>1 DEF Snapshots, Recorded
          <5> QED BY <3>3, <4>2, <5>1, <5>2 DEF PreviousNumber, Numbering, SnapshotRow
        <4> QED BY <4>1, <4>2
      <3>5. PreviousNumber(t)' < taken'[t]
        BY <1>4, <3>2, <3>4
      <3>6. ProgressOf(t)'
        BY <1>1, <3>1, <3>2, <3>3, <3>5 DEF ProgressOf, HasSnapshot
      <3>7. /\ Snapshots(Recorded, t)' = Snapshots(Recorded, t) \cup {row}
            /\ Snapshots(rows, t)' = Snapshots(rows, t)
        BY <1>3, <1>5 DEF Snapshots, SnapshotRow
      <3>8. KnowsHistory(t)'
        <4>1. previous'[t] \in Snapshots(rows, t)' \cup {NoSnapshot}
          BY <1>1, <3>1, <3>3, <3>7 DEF KnowsHistory, HasTodo
        <4>2. \A s \in Snapshots(Recorded, t)' :
                 s.number <= PreviousNumber(t)' \/ s.number = taken'[t]
          BY <1>1, <1>3, <1>4, <3>2, <3>3, <3>7 DEF KnowsHistory
        <4>3. \E s \in Snapshots(Recorded, t)' :
                 s.number = taken'[t] /\ s.content = result'[t] /\ s \in inflight'
          BY <1>3, <1>4, <3>1, <3>7
        <4> QED BY <3>1, <4>1, <4>2, <4>3 DEF KnowsHistory
      <3> QED BY <3>1, <3>6, <3>8 DEF Mine, Unread
    <2> QED BY <1>1, <2>1, <2>2
  <1> QED BY <1>6, <1>7, <1>8, <1>9 DEF Everyone

LEMMA SnapshotStoredStep ==
    ASSUME Inv, NEW t \in Targets, SnapshotStored(t),
           \A u \in Targets \ {t} : Untouched(u)
    PROVE  SessionShape' /\ History' /\ Everyone'
  <1>1. /\ session = "active" /\ pc[t] = "snapshotFlushing" /\ EndFlush({})
        /\ Goto(t, "event")
        /\ UNCHANGED <<phase, run, checkVars, taken, published, jobs>>
    BY DEF SnapshotStored
  <1>2. TypeOK /\ Mine(t)
    BY <1>1, During
  <1>3. /\ pc'[t] = "event" /\ result' = result /\ previous' = previous /\ todo' = todo
        /\ taken' = taken /\ session' = session
    BY <1>1, <1>2 DEF Goto, TypeOK, checkVars, EndFlush
  <1>4. /\ Recorded' = Recorded /\ rows \subseteq rows'
        /\ \A r \in inflight : r.kind # "mark" => r \in rows'
    BY <1>1, <1>2, EndFlushKeepsRecorded
  <1>5. PreviousNumber(t)' = PreviousNumber(t) /\ Difference(t)' = Difference(t)
    BY <1>3 DEF PreviousNumber, Difference, ContentOf
  <1>6. /\ Snapshots(Recorded, t)' = Snapshots(Recorded, t)
        /\ Snapshots(rows, t) \subseteq Snapshots(rows, t)'
        /\ \A s \in Snapshots(Recorded, t) : s \in inflight => s \in rows'
    BY <1>4 DEF Snapshots
  <1>7. ProgressOf(t)'
    BY <1>1, <1>2, <1>3, <1>5 DEF Mine, ProgressOf, HasSnapshot
  <1>8. KnowsHistory(t)'
    <2>1. KnowsHistory(t)
      BY <1>1, <1>2 DEF Mine
    <2>2. previous'[t] \in Snapshots(rows, t)' \cup {NoSnapshot}
      BY <1>1, <1>3, <1>6, <2>1 DEF KnowsHistory, HasTodo
    <2>3. \A s \in Snapshots(Recorded, t)' :
             s.number <= PreviousNumber(t)' \/ s.number = taken'[t]
      BY <1>1, <1>3, <1>5, <1>6, <2>1 DEF KnowsHistory, HasSnapshot
    <2>4. \E s \in Snapshots(Recorded, t)' :
             s.number = taken'[t] /\ s.content = result'[t] /\ s \in rows'
      BY <1>1, <1>3, <1>6, <2>1 DEF KnowsHistory, HasSnapshot
    <2> QED BY <1>3, <2>2, <2>3, <2>4 DEF KnowsHistory
  <1>9. Mine(t)'
    BY <1>3, <1>7, <1>8 DEF Mine, Unread
  <1> QED BY <1>1, <1>9, EndFlushStep DEF Flushing

(* An event row is added once the row it refers to is stored, and as long  *)
(* as that row is the newest.                                              *)
LEMMA EventAdded ==
    ASSUME Inv, NEW t \in Targets, session = "active", pc[t] = "event",
           NEW type \in todo[t], EventOf(t, type) \in EventRow,
           taken' = taken, published' = published, jobs' = jobs,
           rows' = rows, Recorded' = Recorded \cup {EventOf(t, type)}
    PROVE  History'
  <1> DEFINE row == EventOf(t, type)
  <1>1. TypeOK /\ History /\ Mine(t)
    BY During DEF Inv
  <1>2. /\ row.kind = "event" /\ row.target = t /\ row.snapshot = taken[t]
        /\ row.previous = PreviousNumber(t) /\ row.type = type
    BY DEF EventOf, PreviousNumber
  <1>3. row \in EventRow
    OBVIOUS
  <1> HIDE DEF row
  <1>4. /\ \A u : Snapshots(Recorded', u) = Snapshots(Recorded, u)
        /\ \A u : Snapshots(rows', u) = Snapshots(rows, u)
    BY <1>2 DEF Snapshots, row
  <1>5. KnowsHistory(t) /\ ProgressOf(t)
    BY <1>1 DEF Mine
  <1>6. PICK s \in Snapshots(rows, t) : s.number = taken[t] /\ s.content = result[t]
    BY <1>5 DEF KnowsHistory, HasSnapshot, Snapshots
  <1>7. type \in DiffSnapshots(ContentOf(previous[t]), result[t])
    BY <1>5 DEF ProgressOf, Difference
  <1>8. \/ row.previous = 0 /\ Fires(NoSnapshot, s, row.type)
        \/ \E p \in Snapshots(rows, t) :
              p.number = row.previous /\ Fires(p.content, s, row.type)
    <2>1. CASE previous[t] = NoSnapshot
      BY <1>2, <1>6, <1>7, <2>1 DEF Fires, ContentOf, PreviousNumber
    <2>2. CASE previous[t] # NoSnapshot
      <3>1. previous[t] \in Snapshots(rows, t)
        BY <1>5, <2>2 DEF KnowsHistory, HasTodo
      <3> QED BY <1>2, <1>6, <1>7, <2>2, <3>1 DEF Fires, ContentOf, PreviousNumber
    <2> QED BY <2>1, <2>2
  <1>9. Explained'
    <2> SUFFICES ASSUME NEW u \in Targets, NEW e \in Recorded', e.kind = "event", e.target = u
                 PROVE  /\ e.previous < e.snapshot /\ e.snapshot <= taken'[u]
                        /\ \E r \in Snapshots(rows', u) :
                              /\ r.number = e.snapshot
                              /\ \/ e.previous = 0 /\ Fires(NoSnapshot, r, e.type)
                                 \/ \E p \in Snapshots(rows', u) :
                                       p.number = e.previous /\ Fires(p.content, r, e.type)
                        /\ \A r \in Snapshots(Recorded', u) :
                              r.number <= e.previous \/ e.snapshot <= r.number
      BY DEF Explained, Snapshots, Fires
    <2>1. CASE e \in Recorded
      BY <1>1, <1>4, <2>1 DEF History, Explained
    <2>2. CASE e = row
      <3>1. e.previous < e.snapshot /\ e.snapshot <= taken[u]
        BY <1>1, <1>2, <1>5, <2>2 DEF ProgressOf, HasSnapshot, TypeOK
      <3>2. \A r \in Snapshots(Recorded, t) : r.number <= e.previous \/ e.snapshot <= r.number
        <4>1. \A r \in Snapshots(Recorded, t) : r.number <= e.previous \/ r.number = taken[t]
          BY <1>2, <1>5, <2>2 DEF KnowsHistory, HasSnapshot
        <4> QED BY <1>1, <1>2, <2>2, <4>1 DEF TypeOK
      <3> QED BY <1>2, <1>4, <1>6, <1>8, <2>2, <3>1, <3>2
    <2> QED BY <2>1, <2>2 DEF row
  <1>10. Numbering'
    BY <1>1, <1>4 DEF History, Numbering, Snapshots
  <1>11. AnnouncementsStored'
    BY <1>1, <1>4 DEF History, AnnouncementsStored, Snapshots
  <1>12. JobsOrdered'
    BY <1>1, <1>4 DEF History, JobsOrdered, Snapshots, Fires
  <1> QED BY <1>9, <1>10, <1>11, <1>12 DEF History

LEMMA CreateEventStep ==
    ASSUME Inv, NEW t \in Targets, CreateEvent(t), \A u \in Targets \ {t} : Untouched(u)
    PROVE  SessionShape' /\ History' /\ Everyone'
  <1> DEFINE type == FirstType(todo[t])
  <1> DEFINE row == EventOf(t, type)
  <1>1. /\ session = "active" /\ pc[t] = "event"
        /\ UNCHANGED <<phase, run, taken, published, jobs>>
        /\ \/ AddAndFlush(t, row) /\ Goto(t, "eventFlushing") /\ UNCHANGED checkVars
           \/ AddButBusy(row) /\ Leave(t)
    BY DEF CreateEvent
  <1>2. /\ phase = "checking" /\ TypeOK /\ SessionShape /\ Mine(t) /\ t # Nobody
        /\ \A u \in Targets : Mine(u)
        /\ \A u \in Targets : (pc[u] \in Flushing <=> flusher = u)
    BY <1>1, During
  <1>3. todo[t] \in SUBSET EventTypes /\ todo[t] # {} /\ taken[t] # 0
    BY <1>1, InvParts DEF Control, ChecksHoldValues, HasTodo, HasSnapshot, TypeOK
  <1>4. type \in todo[t]
    BY <1>3, FirstTypeIsFirst
  <1>5. row \in EventRow /\ row.kind = "event" /\ row.kind # "mark" /\ row.target = t
    BY <1>2, <1>3, <1>4, EventOfType DEF EventOf
  <1> HIDE DEF type, row
  <1>6. Recorded' = Recorded \cup {row} /\ rows' = rows /\ session' = session
        /\ inflight \subseteq inflight'
        /\ (inflight \cup pending)' = inflight \cup pending \cup {row}
    <2>1. CASE AddAndFlush(t, row)
      <3>1. inflight = {}
        BY <1>2, <2>1 DEF AddAndFlush, SessionShape
      <3> QED BY <1>5, <2>1, <3>1, AddAndFlushRecords DEF AddAndFlush, BeginFlush
    <2>2. CASE AddButBusy(row)
      BY <1>5, <2>2, AddButBusyRecords DEF AddButBusy
    <2> QED BY <1>1, <2>1, <2>2
  <1>7. History'
    BY <1>1, <1>4, <1>5, <1>6, EventAdded DEF row
  <1>8. SessionShape'
    BY <1>1, <1>2, <1>6 DEF SessionShape, AddAndFlush, BeginFlush, AddButBusy
  <1>9. \A u \in Targets : /\ Snapshots(Recorded, u)' = Snapshots(Recorded, u)
                           /\ Snapshots(rows, u)' = Snapshots(rows, u)
                           /\ LeftOver(u)' = LeftOver(u)
    BY <1>5, <1>6 DEF LeftOver, Snapshots
  <1>10. ASSUME NEW u \in Targets, u # t PROVE Mine(u)'
    <2>1. Mine(u) /\ Untouched(u)
      BY <1>2, <1>10
    <2> QED BY <1>1, <1>2, <1>6, <1>9, <1>10, <2>1, OthersKept
  <1>11. Mine(t)'
    <2>1. CASE Leave(t)
      BY <1>2, <2>1, LeaveIsQuiet
    <2>2. CASE AddAndFlush(t, row) /\ Goto(t, "eventFlushing") /\ UNCHANGED checkVars
      <3>1. /\ pc'[t] = "eventFlushing" /\ result' = result /\ previous' = previous
            /\ todo' = todo /\ taken' = taken /\ jobs' = jobs /\ published' = published
            /\ row \in inflight'
        BY <1>1, <1>2, <2>2 DEF Goto, TypeOK, checkVars, AddAndFlush, BeginFlush
      <3>2. /\ PreviousNumber(t)' = PreviousNumber(t) /\ Difference(t)' = Difference(t)
            /\ Announced(t)' = Announced(t) /\ EventOf(t, FirstType(todo[t]))' = row
        BY <3>1 DEF PreviousNumber, Difference, ContentOf, Announced, EventOf, FirstType,
                    row, type
      <3>3. KnowsHistory(t) /\ ProgressOf(t)
        BY <1>1, <1>2 DEF Mine
      <3>4. ProgressOf(t)'
        BY <1>1, <3>1, <3>2, <3>3 DEF ProgressOf, HasSnapshot
      <3>5. KnowsHistory(t)'
        BY <1>1, <1>2, <1>6, <1>9, <3>1, <3>2, <3>3 DEF KnowsHistory, HasSnapshot, HasTodo
      <3> QED BY <3>1, <3>4, <3>5 DEF Mine, Unread
    <2> QED BY <1>1, <2>1, <2>2
  <1> QED BY <1>7, <1>8, <1>10, <1>11 DEF Everyone

LEMMA EventStoredStep ==
    ASSUME Inv, NEW t \in Targets, EventStored(t), \A u \in Targets \ {t} : Untouched(u)
    PROVE  SessionShape' /\ History' /\ Everyone'
  <1>1. /\ session = "active" /\ pc[t] = "eventFlushing" /\ EndFlush({})
        /\ Goto(t, "announce")
        /\ UNCHANGED <<phase, run, checkVars, taken, published, jobs>>
    BY DEF EventStored
  <1>2. TypeOK /\ Mine(t)
    BY <1>1, During
  <1>3. /\ pc'[t] = "announce" /\ result' = result /\ previous' = previous /\ todo' = todo
        /\ taken' = taken /\ jobs' = jobs /\ published' = published /\ session' = session
    BY <1>1, <1>2 DEF Goto, TypeOK, checkVars, EndFlush
  <1>4. /\ Recorded' = Recorded /\ rows \subseteq rows'
        /\ \A r \in inflight : r.kind # "mark" => r \in rows'
    BY <1>1, <1>2, EndFlushKeepsRecorded
  <1>5. /\ PreviousNumber(t)' = PreviousNumber(t) /\ Difference(t)' = Difference(t)
        /\ Announced(t)' = Announced(t)
        /\ EventOf(t, FirstType(todo[t]))' = EventOf(t, FirstType(todo[t]))
    BY <1>3 DEF PreviousNumber, Difference, ContentOf, Announced, EventOf, FirstType
  <1>6. /\ Snapshots(Recorded, t)' = Snapshots(Recorded, t)
        /\ Snapshots(rows, t) \subseteq Snapshots(rows, t)'
    BY <1>4 DEF Snapshots
  <1>7. KnowsHistory(t) /\ ProgressOf(t)
    BY <1>1, <1>2 DEF Mine
  <1>8. ProgressOf(t)'
    BY <1>1, <1>3, <1>5, <1>7 DEF ProgressOf, HasSnapshot
  <1>9. EventOf(t, FirstType(todo[t])) \in rows'
    BY <1>1, <1>4, <1>7 DEF KnowsHistory, EventOf
  <1>10. KnowsHistory(t)'
    BY <1>1, <1>3, <1>4, <1>5, <1>6, <1>7, <1>9 DEF KnowsHistory, HasSnapshot, HasTodo
  <1>11. Mine(t)'
    BY <1>3, <1>8, <1>10 DEF Mine, Unread
  <1> QED BY <1>1, <1>11, EndFlushStep DEF Flushing

(* An event is announced after its row was stored, and after the events    *)
(* that come before it in the list.                                        *)
LEMMA EventAnnounced ==
    ASSUME Inv, NEW t \in Targets, pc[t] = "announce",
           UNCHANGED <<sessionVars, taken>>,
           published' \subseteq published \cup {EventOf(t, FirstType(todo[t]))},
           jobs \subseteq jobs', jobs' \subseteq jobs \cup {EventOf(t, FirstType(todo[t]))}
    PROVE  History'
  <1> DEFINE type == FirstType(todo[t])
  <1> DEFINE event == EventOf(t, type)
  <1>1. TypeOK /\ History /\ Mine(t) /\ SessionShape
    BY During
  <1>2. /\ Recorded' = Recorded /\ rows' = rows /\ taken' = taken
        /\ \A u : Snapshots(Recorded', u) = Snapshots(Recorded, u)
    BY DEF sessionVars, Recorded
  <1>3. ProgressOf(t) /\ (session = "active" => KnowsHistory(t))
    BY <1>1 DEF Mine
  <1>4. /\ event.target = t /\ event.snapshot = taken[t] /\ event.type = type
        /\ event.previous = PreviousNumber(t)
        /\ \A other : [event EXCEPT !.type = other] = EventOf(t, other)
    BY DEF EventOf, PreviousNumber
  <1>5. todo[t] \in SUBSET EventTypes /\ todo[t] # {}
    BY InvParts DEF Control, ChecksHoldValues, HasTodo, TypeOK
  <1>6. type \in EventTypes /\ \A other \in todo[t] : Rank(type) <= Rank(other)
    BY <1>5, FirstTypeIsFirst
  <1> HIDE DEF type
  <1>7. Numbering' /\ Explained'
    BY <1>1, <1>2 DEF History, Numbering, Explained, Snapshots, Fires
  <1>8. AnnouncementsStored'
    <2> SUFFICES ASSUME NEW u \in Targets, NEW e \in published' \cup jobs', e.target = u
                 PROVE  /\ e.previous < e.snapshot /\ e.snapshot <= taken[u]
                        /\ \A s \in Snapshots(Recorded, u) : s.number = e.snapshot => e \in rows
      BY <1>2 DEF AnnouncementsStored, Snapshots
    <2>1. CASE e \in published \cup jobs
      BY <1>1, <2>1 DEF History, AnnouncementsStored
    <2>2. CASE e = event
      <3>1. PreviousNumber(t) < taken[t] /\ taken[t] \in Nat
        BY <1>1, <1>3 DEF ProgressOf, HasSnapshot, TypeOK
      <3>2. CASE session = "active"
        BY <1>3, <1>4, <2>2, <3>1, <3>2 DEF KnowsHistory, type
      <3>3. CASE session = "invalid"
        BY <1>1, <1>4, <2>2, <3>1, <3>3 DEF SessionShape, Recorded, Snapshots
      <3> QED BY <1>1, <3>2, <3>3 DEF TypeOK
    <2> QED BY <2>1, <2>2 DEF type
  <1>9. JobsOrdered'
    <2> SUFFICES ASSUME NEW u \in Targets, NEW e \in jobs', e.target = u,
                        NEW s \in Snapshots(Recorded, u), s.number = e.snapshot,
                        NEW other \in EventTypes, Rank(other) < Rank(e.type)
                 PROVE  /\ e.previous = 0 /\ Fires(NoSnapshot, s, other) =>
                              [e EXCEPT !.type = other] \in jobs
                        /\ \A p \in Snapshots(Recorded, u) :
                              p.number = e.previous /\ Fires(p.content, s, other) =>
                                  [e EXCEPT !.type = other] \in jobs
      BY <1>2 DEF JobsOrdered, Snapshots, Fires
    <2>1. CASE e \in jobs
      BY <1>1, <2>1 DEF History, JobsOrdered
    <2>2. CASE e = event
      <3>1. u = t /\ session = "active"
        BY <1>1, <1>4, <2>2 DEF SessionShape, Recorded, Snapshots, TypeOK
      <3>2. KnowsHistory(t) /\ Numbering
        BY <1>1, <1>3, <3>1 DEF History
      <3>3. s.content = result[t]
        BY <1>4, <2>2, <3>1, <3>2 DEF KnowsHistory, HasSnapshot, Numbering
      <3>4. other \notin todo[t]
        <4>1. Rank(other) \in 1..5 /\ Rank(type) \in 1..5
          BY <1>6, RankType
        <4> QED BY <1>4, <1>6, <2>2, <4>1
      <3>5. other \in Difference(t) => EventOf(t, other) \in jobs
        BY <1>3, <3>4 DEF ProgressOf, Announced
      <3>6. Snapshots(Recorded, t) \subseteq SnapshotRow
            /\ (previous[t] # NoSnapshot => previous[t] \in SnapshotRow)
        BY <1>1 DEF TypeOK, Recorded, Snapshots, SnapshotRow, EventRow, MarkRow
      <3>7. e.previous = 0 /\ Fires(NoSnapshot, s, other) => other \in Difference(t)
        <4>1. e.previous = 0 => previous[t] = NoSnapshot
          BY <1>4, <2>2, <3>6 DEF PreviousNumber, SnapshotRow
        <4> QED BY <3>3, <4>1 DEF Difference, ContentOf, Fires
      <3>8. ASSUME NEW p \in Snapshots(Recorded, t), p.number = e.previous,
                   Fires(p.content, s, other)
            PROVE  other \in Difference(t)
        <4>1. previous[t] # NoSnapshot
          BY <1>4, <2>2, <3>6, <3>8 DEF PreviousNumber, SnapshotRow
        <4>2. previous[t] \in Snapshots(Recorded, t)
          BY <3>2, <4>1 DEF KnowsHistory, HasTodo, Recorded, Snapshots
        <4>3. previous[t].number = p.number
          BY <1>4, <2>2, <3>8, <4>1 DEF PreviousNumber
        <4>4. previous[t] = p
          BY <3>2, <4>2, <4>3 DEF Numbering
        <4> QED BY <3>3, <3>8, <4>1, <4>4 DEF Difference, ContentOf, Fires
      <3> QED BY <1>4, <2>2, <3>1, <3>5, <3>7, <3>8
    <2> QED BY <2>1, <2>2 DEF type
  <1> QED BY <1>7, <1>8, <1>9 DEF History

LEMMA AnnounceStep ==
    ASSUME Inv, NEW t \in Targets, Announce(t) \/ AnnounceFails(t),
           \A u \in Targets \ {t} : Untouched(u)
    PROVE  SessionShape' /\ History' /\ Everyone'
  <1>0. PICK type : type = FirstType(todo[t])
    OBVIOUS
  <1>1. /\ pc[t] = "announce"
        /\ UNCHANGED <<phase, sessionVars, taken>>
        /\ published \subseteq published' /\ published' \subseteq published \cup {EventOf(t, type)}
        /\ jobs \subseteq jobs' /\ jobs' \subseteq jobs \cup {EventOf(t, type)}
    BY <1>0 DEF Announce, AnnounceFails
  <1>2. /\ TypeOK /\ SessionShape /\ Mine(t) /\ phase = "checking"
        /\ \A u \in Targets : Mine(u)
        /\ \A u \in Targets : session = "active" => (pc[u] \in Flushing <=> flusher = u)
    BY <1>1, During
  <1>3. History'
    BY <1>0, <1>1, EventAnnounced
  <1>4. SessionShape'
    BY <1>1, <1>2 DEF SessionShape, sessionVars
  <1>5. \A u \in Targets : /\ Snapshots(Recorded, u)' = Snapshots(Recorded, u)
                           /\ LeftOver(u)' = LeftOver(u)
    BY <1>1 DEF sessionVars, Recorded, Snapshots, LeftOver
  <1>6. ASSUME NEW u \in Targets, u # t PROVE Mine(u)'
    <2>1. Mine(u) /\ Untouched(u) /\ session' = session /\ rows' = rows /\ inflight' = inflight
      BY <1>1, <1>2, <1>6 DEF sessionVars
    <2> QED BY <1>1, <1>2, <1>5, <1>6, <2>1, OthersKept
  <1>7. Mine(t)'
    <2>1. CASE AnnounceFails(t)
      BY <1>2, <2>1, LeaveIsQuiet DEF AnnounceFails
    <2>2. CASE Announce(t)
      <3>1. /\ result' = result /\ previous' = previous /\ taken' = taken
            /\ todo'[t] = todo[t] \ {type}
            /\ pc'[t] = IF todo[t] \ {type} = {} THEN "mark" ELSE "event"
            /\ jobs' = jobs \cup {EventOf(t, type)}
            /\ published' = published \cup {EventOf(t, type)}
        BY <1>0, <1>2, <2>2 DEF Announce, Goto, AfterAnnounced, TypeOK
      <3>2. /\ PreviousNumber(t)' = PreviousNumber(t) /\ Difference(t)' = Difference(t)
            /\ \A other : EventOf(t, other)' = EventOf(t, other)
        BY <3>1 DEF PreviousNumber, Difference, ContentOf, EventOf
      <3>3. ProgressOf(t)
        BY <1>2 DEF Mine
      <3>4. type \in EventTypes
        <4>1. todo[t] \in SUBSET EventTypes /\ todo[t] # {}
          BY <1>1, InvParts DEF Control, ChecksHoldValues, HasTodo, TypeOK
        <4> QED BY <1>0, <4>1, FirstTypeIsFirst
      <3>5. Announced(t) \cup {type} \subseteq Announced(t)'
        <4>1. ASSUME NEW other \in Announced(t) \cup {type}
              PROVE  other \in EventTypes /\ EventOf(t, other)' \in jobs' \cap published'
          BY <3>1, <3>2, <3>4 DEF Announced
        <4> QED BY <4>1 DEF Announced, EventOf
      <3>6. Difference(t)' \subseteq todo'[t] \cup Announced(t)' /\ todo'[t] \subseteq Difference(t)'
        BY <1>1, <3>1, <3>2, <3>3, <3>5 DEF ProgressOf
      <3>7. ProgressOf(t)'
        BY <1>1, <3>1, <3>2, <3>3, <3>6 DEF ProgressOf, HasSnapshot
      <3>8. session' = "active" => KnowsHistory(t)'
        <4> SUFFICES ASSUME session = "active" PROVE KnowsHistory(t)'
          BY <1>1 DEF sessionVars
        <4>1. KnowsHistory(t) /\ rows' = rows
          BY <1>1, <1>2 DEF Mine, sessionVars
        <4>2. Snapshots(rows, t)' = Snapshots(rows, t)
          BY <4>1 DEF Snapshots
        <4> QED BY <1>1, <1>5, <3>1, <3>2, <4>1, <4>2 DEF KnowsHistory, HasSnapshot, HasTodo
      <3> QED BY <3>1, <3>7, <3>8 DEF Mine, Unread
    <2> QED BY <2>1, <2>2
  <1> QED BY <1>3, <1>4, <1>6, <1>7 DEF Everyone

LEMMA MarkCheckedStep ==
    ASSUME Inv, NEW t \in Targets, MarkChecked(t), \A u \in Targets \ {t} : Untouched(u)
    PROVE  SessionShape' /\ History' /\ Everyone'
  <1> DEFINE mark == [kind |-> "mark", target |-> t]
  <1>1. /\ session = "active" /\ Leave(t)
        /\ pc[t] \in {"mark", "markFlushing"}
        /\ UNCHANGED <<phase, run, taken, published, jobs>>
    BY DEF MarkChecked
  <1>2. /\ TypeOK /\ SessionShape /\ phase = "checking" /\ History
        /\ \A u \in Targets : Mine(u)
        /\ \A u \in Targets : (pc[u] \in Flushing <=> flusher = u)
    BY <1>1, During
  <1>3. mark \in MarkRow /\ mark.kind = "mark" /\ Mine(t)'
    BY <1>1, <1>2, LeaveIsQuiet DEF MarkRow
  <1>4. CASE /\ pc[t] = "mark" /\ pending' = pending \cup {mark}
             /\ UNCHANGED <<session, flusher, inflight, rows, due>>
    <2>1. Recorded' = Recorded /\ rows' = rows
      BY <1>3, <1>4 DEF Recorded
    <2>2. History'
      BY <1>1, <1>2, <2>1, HistoryKept
    <2>3. SessionShape'
      BY <1>1, <1>2, <1>4 DEF SessionShape
    <2>4. ASSUME NEW u \in Targets, u # t PROVE Mine(u)'
      <3>1. Snapshots(Recorded, u)' = Snapshots(Recorded, u) /\ LeftOver(u)' = LeftOver(u)
        BY <1>3, <1>4, <2>1 DEF LeftOver, Snapshots
      <3>2. Mine(u) /\ Untouched(u)
        BY <1>2, <2>4
      <3> QED BY <1>1, <1>2, <1>4, <2>4, <3>1, <3>2, OthersKept
    <2> QED BY <1>3, <2>2, <2>3, <2>4 DEF Everyone
  <1>5. CASE pc[t] = "markFlushing" /\ EndFlush({mark})
    <2> HIDE DEF mark
    <2> QED BY <1>1, <1>3, <1>5, EndFlushStep DEF Flushing
  <1> QED BY <1>1, <1>4, <1>5 DEF MarkChecked

LEMMA DatabaseFailsStep ==
    ASSUME Inv, NEW t \in Targets, DatabaseFails(t), \A u \in Targets \ {t} : Untouched(u)
    PROVE  SessionShape' /\ History' /\ Everyone'
  <1>1. /\ session' = "invalid" /\ LoseTransaction /\ Leave(t)
        /\ pc[t] \in {"latest", "snapshot", "event", "mark"} \cup Flushing
        /\ UNCHANGED <<phase, run, due, taken, published, jobs>>
    BY DEF DatabaseFails
  <1>2. TypeOK /\ phase = "checking" /\ History /\ \A u \in Targets : Mine(u)
    BY <1>1, During DEF Flushing
  <1>3. Recorded' = {} /\ \A u : LeftOver(u)' = {}
    BY <1>1 DEF LoseTransaction, Recorded, LeftOver, Snapshots
  <1>4. History'
    BY <1>1, <1>2, <1>3, HistoryLost
  <1>5. SessionShape'
    BY <1>1 DEF SessionShape, LoseTransaction
  <1>6. ASSUME NEW u \in Targets, u # t PROVE Mine(u)'
    <2>1. ProgressOf(u) /\ Untouched(u)
      BY <1>2, <1>6 DEF Mine
    <2>2. ProgressOf(u)'
      BY <1>1, <2>1, ChecksKept DEF Untouched
    <2> QED BY <1>1, <1>3, <2>2 DEF Mine
  <1>7. Mine(t)'
    BY <1>1, <1>2, LeaveIsQuiet
  <1> QED BY <1>4, <1>5, <1>6, <1>7 DEF Everyone

LEMMA InvCheckStep ==
    ASSUME Inv, NEW t \in Targets, CheckStep(t)
    PROVE  Inv'
  <1>1. Control /\ Control' /\ TypeOK /\ TypeOK'
    BY InvParts, ControlCheckStep DEF Control
  <1>2. \A u \in Targets \ {t} : Untouched(u)
    BY <1>1, Touches
  <1>3. SessionShape' /\ History' /\ Everyone'
    BY <1>1, <1>2, AcquireStep, ScrapeStep, AutoflushStep, ReadLatestStep,
       CreateSnapshotStep, SnapshotStoredStep, CreateEventStep, EventStoredStep,
       AnnounceStep, MarkCheckedStep, DatabaseFailsStep DEF CheckStep
  <1> QED BY <1>1, <1>3, InvParts, PTL

-----------------------------------------------------------------------------
(* The steps of the scheduler, of the clock and of the process.            *)
LEMMA WaitingIsQuiet ==
    ASSUME NEW t \in Targets, pc'[t] \in {"idle", "queued"}, result'[t] = NoSnapshot,
           pc'[t] = "queued" => LeftOver(t)' = {}
    PROVE  Mine(t)'
  BY DEF Mine, ProgressOf, KnowsHistory, HasSnapshot, HasTodo, Unread

LEMMA BeforeTick ==
    ASSUME Inv, phase # "checking"
    PROVE  /\ TypeOK /\ SessionShape /\ History /\ FlushHasOwner
           /\ \A t \in Targets : pc[t] = "idle" /\ result[t] = NoSnapshot
           /\ session = "active" => flusher \in {Nobody, Scheduler}
  <1>1. TypeOK /\ SessionShape /\ History /\ FlushHasOwner /\ Everyone
    BY InvParts DEF Control
  <1>2. \A t \in Targets : pc[t] = "idle"
    BY <1>1 DEF FlushHasOwner
  <1>3. \A t \in Targets : result[t] = NoSnapshot
    BY <1>1, <1>2 DEF Everyone, Mine, ProgressOf
  <1>4. session = "active" => flusher \in {Nobody, Scheduler}
    BY <1>1, <1>2 DEF FlushHasOwner, Flushing, TypeOK
  <1> QED BY <1>1, <1>2, <1>3, <1>4

LEMMA BeginTickStep ==
    ASSUME Inv, BeginTick
    PROVE  SessionShape' /\ History' /\ Everyone'
  <1>1. /\ phase = "sleeping" /\ session = "active"
        /\ UNCHANGED <<run, checkVars, taken, published, jobs>>
    BY DEF BeginTick
  <1>2. /\ TypeOK /\ SessionShape /\ History
        /\ \A t \in Targets : pc[t] = "idle" /\ result[t] = NoSnapshot
        /\ flusher = Nobody /\ inflight = {}
    BY <1>1, BeforeTick DEF FlushHasOwner, SessionShape
  <1>3. CASE ~NeedsAutoflush
    <2>1. pending = {} /\ phase' = "checking" /\ UNCHANGED sessionVars
          /\ \A t \in Targets : pc'[t] \in {"idle", "queued"}
      BY <1>2, <1>3 DEF BeginTick, NeedsAutoflush, Queue
    <2>2. Recorded' = Recorded /\ rows' = rows /\ \A t : LeftOver(t)' = {}
      BY <1>2, <2>1 DEF sessionVars, Recorded, LeftOver, Snapshots
    <2>3. History'
      BY <1>1, <1>2, <2>2, HistoryKept
    <2>4. SessionShape'
      BY <1>2, <2>1 DEF SessionShape, sessionVars
    <2>5. Everyone'
      BY <1>1, <1>2, <2>1, <2>2, WaitingIsQuiet DEF Everyone, checkVars
    <2> QED BY <2>3, <2>4, <2>5
  <1>4. CASE NeedsAutoflush
    <2>1. phase' = "listing" /\ BeginFlush(Scheduler, pending) /\ UNCHANGED pc
      BY <1>4 DEF BeginTick
    <2>2. Recorded' = Recorded /\ rows' = rows
      BY <1>2, <2>1, BeginFlushKeepsRecorded
    <2>3. History'
      BY <1>1, <1>2, <2>2, HistoryKept
    <2>4. SessionShape'
      BY <1>1, <1>2, <2>1, MonitorAssumption DEF SessionShape, BeginFlush
    <2>5. Everyone'
      BY <1>1, <1>2, <2>1, WaitingIsQuiet DEF Everyone, checkVars
    <2> QED BY <2>3, <2>4, <2>5
  <1> QED BY <1>3, <1>4

LEMMA ListDueStep ==
    ASSUME Inv, ListDue
    PROVE  SessionShape' /\ History' /\ Everyone'
  <1>1. /\ phase = "listing" /\ EndFlush({}) /\ phase' = "checking"
        /\ \A t \in Targets : pc'[t] \in {"idle", "queued"}
        /\ UNCHANGED <<run, checkVars, taken, published, jobs>> /\ session = "active"
    BY DEF ListDue, Queue
  <1>2. /\ TypeOK /\ SessionShape /\ History /\ pending = {}
        /\ \A t \in Targets : pc[t] = "idle" /\ result[t] = NoSnapshot
    BY <1>1, BeforeTick DEF SessionShape
  <1>3. Recorded' = Recorded /\ rows \subseteq rows'
    BY <1>1, <1>2, EndFlushKeepsRecorded
  <1>4. \A t : LeftOver(t)' = {}
    BY <1>1, <1>2 DEF EndFlush, LeftOver, Snapshots
  <1>5. History'
    BY <1>1, <1>2, <1>3, HistoryKept
  <1>6. SessionShape'
    BY <1>1 DEF SessionShape, EndFlush
  <1>7. Everyone'
    BY <1>1, <1>2, <1>4, WaitingIsQuiet DEF Everyone, checkVars
  <1> QED BY <1>5, <1>6, <1>7

LEMMA LosingStep ==
    ASSUME Inv, ListDueFails \/ Stop
    PROVE  SessionShape' /\ History' /\ Everyone'
  <1>1. /\ LoseTransaction /\ UNCHANGED <<taken, published, jobs>>
        /\ phase' \in {"dead", "stopped"}
        /\ \A t \in Targets : pc'[t] = "idle" /\ result'[t] = NoSnapshot
    <2>1. CASE ListDueFails
      BY <2>1, BeforeTick DEF ListDueFails, checkVars
    <2>2. CASE Stop
      BY <2>2 DEF Stop
    <2> QED BY <2>1, <2>2
  <1>2. History /\ Recorded' = {}
    BY <1>1, InvParts DEF LoseTransaction, Recorded
  <1>3. History'
    BY <1>1, <1>2, HistoryLost
  <1>4. SessionShape'
    BY <1>1 DEF SessionShape, LoseTransaction
  <1>5. Everyone'
    BY <1>1, WaitingIsQuiet DEF Everyone
  <1> QED BY <1>3, <1>4, <1>5

LEMMA QuietStep ==
    ASSUME Inv,
           EndTick \/ (\E t \in Targets : IntervalElapses(t)) \/ Start \/ UNCHANGED vars
    PROVE  SessionShape' /\ History' /\ Everyone'
  <1>1. /\ UNCHANGED <<session, flusher, pending, inflight, rows, checkVars, taken,
                       published, jobs>>
        /\ phase' = phase \/ phase' = "sleeping"
        /\ UNCHANGED pc \/ (EndTick /\ \A t \in Targets : pc'[t] = "idle")
    BY DEF EndTick, IntervalElapses, Start, vars, sessionVars
  <1>2. TypeOK /\ SessionShape /\ History /\ Everyone
    BY InvParts DEF Control
  <1>3. Recorded' = Recorded /\ rows' = rows
    BY <1>1 DEF Recorded
  <1>4. History'
    BY <1>1, <1>2, <1>3, HistoryKept
  <1>5. SessionShape'
    BY <1>1, <1>2 DEF SessionShape
  <1>6. ASSUME NEW t \in Targets PROVE Mine(t)'
    <2>1. CASE pc'[t] = "idle" /\ EndTick
      <3>1. pc[t] \in {"idle", "done"} /\ ProgressOf(t)
        BY <1>2, <2>1 DEF EndTick, Everyone, Mine
      <3>2. result'[t] = NoSnapshot
        BY <1>1, <3>1 DEF ProgressOf, checkVars
      <3> QED BY <2>1, <3>2, WaitingIsQuiet
    <2>2. CASE UNCHANGED pc
      <3>1. Mine(t) /\ LeftOver(t)' = LeftOver(t)
            /\ Snapshots(Recorded, t)' = Snapshots(Recorded, t)
        BY <1>1, <1>2, <1>3 DEF Everyone, LeftOver, Snapshots
      <3>2. Untouched(t)
        BY <1>1, <2>2 DEF Untouched, checkVars
      <3>3. ProgressOf(t)' /\ (session' = "active" => KnowsHistory(t)')
        BY <1>1, <1>3, <3>1, <3>2, ChecksKept DEF Mine, Untouched
      <3> QED BY <2>2, <3>1, <3>3 DEF Mine
    <2> QED BY <1>1, <2>1, <2>2
  <1> QED BY <1>4, <1>5, <1>6 DEF Everyone

LEMMA InvInit == Init => Inv
  <1> SUFFICES ASSUME Init PROVE Inv
    OBVIOUS
  <1>1. Control
    BY ControlInit
  <1>2. SessionShape
    BY DEF Init, SessionShape
  <1>3. History
    BY DEF Init, History, Numbering, Explained, AnnouncementsStored, JobsOrdered,
           Recorded, Snapshots
  <1>4. Everyone
    BY DEF Init, Everyone, Mine, ProgressOf, KnowsHistory, HasSnapshot, HasTodo, Unread
  <1> QED BY <1>1, <1>2, <1>3, <1>4, InvParts

LEMMA InvStep == Inv /\ [Next]_vars => Inv'
  <1> SUFFICES ASSUME Inv, [Next]_vars PROVE Inv'
    OBVIOUS
  <1>1. ASSUME NEW t \in Targets, CheckStep(t) PROVE Inv'
    BY <1>1, InvCheckStep
  <1>2. CASE \/ \E t \in Targets : IntervalElapses(t)
             \/ SchedulerStep \/ Stop \/ Start \/ UNCHANGED vars
    <2>1. Control'
      BY <1>2, InvParts, ControlOtherStep
    <2>2. SessionShape' /\ History' /\ Everyone'
      BY <1>2, BeginTickStep, ListDueStep, LosingStep, QuietStep DEF SchedulerStep
    <2> QED BY <2>1, <2>2, InvParts, PTL
  <1> QED BY <1>1, <1>2 DEF Next

LEMMA InvAlways == Spec => []Inv
  BY InvInit, InvStep, PTL DEF Spec

-----------------------------------------------------------------------------
(* Every event of the history refers to a stored snapshot and to the one   *)
(* stored just before it, and their diff fires it, although the baseline   *)
(* is read several awaits before the event is written.                     *)
THEOREM EventsAlwaysExplainSnapshots == Spec => []EventsExplainSnapshots
<1>1. Inv => EventsExplainSnapshots
  <2> SUFFICES ASSUME Inv, NEW e \in rows, e.kind = "event"
               PROVE  \E s \in SnapshotsOf(e) :
                         /\ \/ e.previous = 0 /\ e.type \in DiffSnapshots(NoSnapshot, s.content)
                            \/ \E p \in BaselinesOf(e) : e.type \in DiffSnapshots(p.content, s.content)
                         /\ \A between \in Snapshots(rows \cup inflight \cup pending, e.target) :
                               ~(e.previous < between.number /\ between.number < e.snapshot)
    BY DEF EventsExplainSnapshots
  <2>1. TypeOK /\ Explained
    BY DEF Inv, Control
  <2>2. e \in Recorded /\ e \in EventRow /\ e.target \in Targets
    BY <2>1 DEF Recorded, TypeOK, EventRow, SnapshotRow
  <2>3. PICK s \in Snapshots(rows, e.target) :
           /\ s.number = e.snapshot
           /\ \/ e.previous = 0 /\ Fires(NoSnapshot, s, e.type)
              \/ \E p \in Snapshots(rows, e.target) :
                    p.number = e.previous /\ Fires(p.content, s, e.type)
    BY <2>1, <2>2 DEF Explained
  <2>4. s \in SnapshotsOf(e)
        /\ (\A p \in Snapshots(rows, e.target) : p.number = e.previous => p \in BaselinesOf(e))
    BY <2>3 DEF SnapshotsOf, BaselinesOf, Snapshots
  <2>5. ASSUME NEW between \in Snapshots(rows \cup inflight \cup pending, e.target)
        PROVE  ~(e.previous < between.number /\ between.number < e.snapshot)
    <3>1. between \in Snapshots(Recorded, e.target)
      BY DEF Snapshots, Recorded
    <3>2. between.number <= e.previous \/ e.snapshot <= between.number
      BY <2>1, <2>2, <3>1 DEF Explained
    <3>3. between.number \in Nat /\ e.previous \in Nat /\ e.snapshot \in Nat
      BY <2>1, <2>2 DEF TypeOK, Snapshots, SnapshotRow, EventRow, MarkRow
    <3> QED BY <3>2, <3>3
  <2> QED BY <2>3, <2>4, <2>5 DEF Fires
<1> QED BY <1>1, InvAlways, PTL

(* Whatever was published or handed to the workers about a snapshot that   *)
(* is still stored is stored too.                                          *)
THEOREM AnnouncedIsAlwaysStored == Spec => []AnnouncedIsStored
<1>1. Inv => AnnouncedIsStored
  <2> SUFFICES ASSUME Inv, NEW e \in published \cup jobs, NEW s \in SnapshotsOf(e)
               PROVE  e \in rows
    BY DEF AnnouncedIsStored
  <2>1. e.target \in Targets /\ AnnouncementsStored
    BY DEF Inv, Control, TypeOK, EventRow
  <2>2. s \in Snapshots(Recorded, e.target) /\ s.number = e.snapshot
    BY DEF SnapshotsOf, Snapshots, Recorded
  <2> QED BY <2>1, <2>2 DEF AnnouncementsStored
<1> QED BY <1>1, InvAlways, PTL

(* The jobs of a snapshot are always the first ones of its diff.           *)
THEOREM JobsAreAlwaysInOrder == Spec => []JobsAreInOrder
<1>1. Inv => JobsAreInOrder
  <2> SUFFICES ASSUME Inv, NEW e \in jobs, NEW s \in SnapshotsOf(e),
                      NEW type \in IF e.previous = 0 THEN DiffSnapshots(NoSnapshot, s.content)
                                   ELSE UNION {DiffSnapshots(p.content, s.content) :
                                                  p \in BaselinesOf(e)},
                      Rank(type) < Rank(e.type)
               PROVE  [e EXCEPT !.type = type] \in jobs
    BY DEF JobsAreInOrder
  <2>1. e.target \in Targets /\ JobsOrdered
    BY DEF Inv, Control, TypeOK, EventRow
  <2>2. s \in Snapshots(Recorded, e.target) /\ s.number = e.snapshot
    BY DEF SnapshotsOf, Snapshots, Recorded
  <2>3. CASE e.previous = 0
    <3>1. type \in EventTypes /\ Fires(NoSnapshot, s, type)
      BY <2>3, DiffType DEF Fires
    <3> QED BY <2>1, <2>2, <2>3, <3>1 DEF JobsOrdered
  <2>4. CASE e.previous # 0
    <3>1. PICK p \in BaselinesOf(e) : type \in DiffSnapshots(p.content, s.content)
      BY <2>4
    <3>2. p \in Snapshots(Recorded, e.target) /\ p.number = e.previous
      BY DEF BaselinesOf, Snapshots, Recorded
    <3>3. type \in EventTypes /\ Fires(p.content, s, type)
      BY <3>1, DiffType DEF Fires
    <3> QED BY <2>1, <2>2, <3>2, <3>3 DEF JobsOrdered
  <2> QED BY <2>3, <2>4
<1> QED BY <1>1, InvAlways, PTL

(* No target is marked as checked before all of its events went out.       *)
THEOREM MarkedAlwaysAnnounced == Spec => []MarkedOnlyWhenAnnounced
<1>1. Inv => MarkedOnlyWhenAnnounced
  BY DEF Inv, Progress, ProgressOf, MarkedOnlyWhenAnnounced, Difference, Announced
<1> QED BY <1>1, InvAlways, PTL

-----------------------------------------------------------------------------
(* What holds while one check runs at a time and only scrapes fail: all    *)
(* targets belong to one retailer, whose semaphore lets one in.            *)
OneAtATime ==
    /\ Faults \subseteq {"scrape"} /\ Concurrency = 1
    /\ \A t, u \in Targets : RetailerOf[t] = RetailerOf[u]

(* The session is used by one coroutine at a time, so nothing is added to  *)
(* it while it flushes, and between flushes only marks wait in it.         *)
Alone ==
    /\ session = "active"
    /\ \A t, u \in Targets : pc[t] \in Checking /\ pc[u] \in Checking => t = u
    /\ pending \subseteq MarkRow
    /\ flusher # Nobody => pending = {}
    /\ \A r \in inflight : r.kind = "snapshot" =>
          pc[r.target] = "snapshotFlushing" /\ r.number = taken[r.target]

(* The row before s, or None, and whether all events of s have a job.      *)
IsBefore(t, before, s) ==
    /\ before # NoSnapshot => before.number < s.number
    /\ \A other \in Snapshots(rows, t) : other.number < s.number =>
          before # NoSnapshot /\ other.number <= before.number

HasJob(t, s, type) == \E e \in jobs : e.target = t /\ e.snapshot = s.number /\ e.type = type

Told(t, s) ==
    \A before \in Snapshots(rows, t) \cup {NoSnapshot} : IsBefore(t, before, s) =>
        \A type \in DiffSnapshots(ContentOf(before), s.content) : HasJob(t, s, type)

(* Only the row a check is working on is still to be announced.            *)
TargetTold(t) ==
    \A s \in Snapshots(rows, t) : (pc[t] \in HasSnapshot /\ s.number = taken[t]) \/ Told(t, s)

EveryoneTold == \A t \in Targets : TargetTold(t)

SerialInv == Inv /\ Alone /\ EveryoneTold

LEMMA NobodyInside ==
    ASSUME OneAtATime, NEW t \in Targets, HasRoom(t)
    PROVE  \A u \in Targets : pc[u] \notin Checking
  <1>1. Cardinality(Running(t)) < 1
    BY DEF HasRoom, Running, OneAtATime
  <1>2. Cardinality(Running(t)) = 0
    BY <1>1, RunningIsFinite
  <1>3. Running(t) = {}
    BY <1>2, RunningIsFinite, FS_EmptySet
  <1> QED BY <1>3 DEF Running, OneAtATime

LEMMA AtWork ==
    ASSUME Inv, Alone, NEW t \in Targets, pc[t] \in Checking
    PROVE  /\ \A u \in Targets \ {t} : pc[u] \notin Checking
           /\ pc[t] \in Flushing => flusher = t /\ flusher # Nobody /\ pending = {}
           /\ pc[t] \notin Flushing => flusher = Nobody /\ inflight = {}
  <1>1. \A u \in Targets \ {t} : pc[u] \notin Checking
    BY DEF Alone
  <1>2. /\ TypeOK /\ SessionShape /\ session = "active"
        /\ \A u \in Targets : pc[u] \in Flushing <=> flusher = u
        /\ flusher # Scheduler
    BY During DEF Alone, Checking, Flushing
  <1>3. CASE pc[t] \in Flushing
    BY <1>1, <1>2, <1>3, MonitorAssumption DEF Alone
  <1>4. CASE pc[t] \notin Flushing
    <2>1. \A u \in Targets : flusher # u
      BY <1>1, <1>2, <1>4 DEF Checking
    <2>2. flusher = Nobody
      BY <1>2, <2>1 DEF TypeOK
    <2> QED BY <1>1, <1>2, <1>4, <2>2 DEF SessionShape
  <1> QED BY <1>1, <1>3, <1>4

\* A row is added to the session that is flushed at once.
Sent(row) ==
    \/ row.kind = "event"
    \/ row.kind = "snapshot" /\ pc'[row.target] = "snapshotFlushing" /\ row.number = taken'[row.target]

\* What a step does to the session.
SessionStep ==
    \/ UNCHANGED <<session, flusher, pending, inflight, rows>> /\ UNCHANGED <<pc, taken>>
    \/ UNCHANGED <<session, flusher, pending, inflight, rows>> /\ inflight = {}
    \/ /\ flusher = Nobody /\ inflight = {}
       /\ \E who : BeginFlush(who, pending) \/ \E row : Sent(row) /\ BeginFlush(who, pending \cup {row})
    \/ flusher # Nobody /\ \E added \in SUBSET MarkRow : EndFlush(added)
    \/ /\ flusher = Nobody /\ inflight = {}
       /\ \E mark \in MarkRow : pending' = pending \cup {mark}
       /\ UNCHANGED <<session, flusher, inflight, rows, due>>

LEMMA CheckSessionStep ==
    ASSUME OneAtATime, Inv, Alone, NEW t \in Targets, CheckStep(t)
    PROVE  SessionStep
  <1> USE DEF sessionVars
  <1>0. TypeOK /\ SessionShape /\ session = "active"
    BY DEF Inv, Control, Alone
  <1>1. CASE Acquire(t)
    <2>1. \A u \in Targets : pc[u] \notin Checking
      BY <1>1, NobodyInside DEF Acquire
    <2>2. flusher = Nobody
      BY <1>0, <1>1, <2>1, During DEF Acquire, TypeOK, Checking
    <2> QED BY <1>0, <1>1, <2>2 DEF Acquire, SessionStep, SessionShape
  <1>2. CASE ScrapeFails(t) \/ ScrapeEmpty(t) \/ ScrapeReturns(t) \/ Announce(t) \/ AnnounceFails(t)
    <2>1. pc[t] \in {"scrape", "announce"} /\ UNCHANGED <<session, flusher, pending, inflight, rows>>
      BY <1>2 DEF ScrapeFails, ScrapeEmpty, ScrapeReturns, Announce, AnnounceFails
    <2>2. inflight = {}
      BY <2>1, AtWork DEF Checking, Flushing
    <2> QED BY <2>1, <2>2 DEF SessionStep
  <1>3. CASE Autoflush(t)
    <2>1. flusher = Nobody /\ BeginFlush(t, pending)
      BY <1>3 DEF Autoflush, NeedsAutoflush
    <2> QED BY <1>0, <2>1 DEF SessionStep, SessionShape
  <1>4. ASSUME pc[t] \in Flushing, NEW added \in SUBSET MarkRow, EndFlush(added) PROVE SessionStep
    <2>1. flusher # Nobody
      BY <1>4, AtWork DEF Checking
    <2> QED BY <1>4, <2>1 DEF SessionStep
  <1>5. CASE ReadLatest(t)
    <2>1. CASE pc[t] = "latest" /\ UNCHANGED sessionVars
      <3>1. inflight = {}
        BY <2>1, AtWork DEF Checking, Flushing
      <3> QED BY <2>1, <3>1 DEF SessionStep
    <2> QED BY <1>4, <1>5, <2>1 DEF ReadLatest, Flushing
  <1>6. CASE CreateSnapshot(t)
    <2> DEFINE row == [kind |-> "snapshot", target |-> t, number |-> taken[t] + 1,
                       content |-> result[t]]
    <2>1. pc[t] = "snapshot" /\ taken' = [taken EXCEPT ![t] = @ + 1]
      BY <1>6 DEF CreateSnapshot
    <2>2. flusher = Nobody /\ inflight = {}
      BY <2>1, AtWork DEF Checking, Flushing
    <2>3. AddAndFlush(t, row) /\ Goto(t, "snapshotFlushing")
      BY <1>6, <2>2 DEF CreateSnapshot, AddButBusy
    <2>4. row.kind = "snapshot" /\ row.target = t /\ row.number = taken[t] + 1
      OBVIOUS
    <2> HIDE DEF row
    <2>5. BeginFlush(t, pending \cup {row})
      BY <2>3 DEF AddAndFlush
    <2>6. Sent(row)
      BY <1>0, <2>1, <2>3, <2>4 DEF Sent, Goto, TypeOK
    <2> QED BY <2>2, <2>5, <2>6 DEF SessionStep
  <1>7. CASE CreateEvent(t)
    <2> DEFINE row == EventOf(t, FirstType(todo[t]))
    <2>1. flusher = Nobody /\ inflight = {}
      BY <1>7, AtWork DEF Checking, Flushing, CreateEvent
    <2>2. BeginFlush(t, pending \cup {row})
      BY <1>7, <2>1 DEF CreateEvent, AddButBusy, AddAndFlush
    <2>3. row.kind = "event"
      BY DEF EventOf
    <2> HIDE DEF row
    <2> QED BY <2>1, <2>2, <2>3 DEF SessionStep, Sent
  <1>8. CASE SnapshotStored(t) \/ EventStored(t)
    BY <1>4, <1>8 DEF SnapshotStored, EventStored, Flushing
  <1>9. CASE MarkChecked(t)
    <2> DEFINE mark == [kind |-> "mark", target |-> t]
    <2>1. mark \in MarkRow
      BY DEF MarkRow
    <2> HIDE DEF mark
    <2>2. CASE pc[t] = "mark" /\ pending' = pending \cup {mark}
               /\ UNCHANGED <<session, flusher, inflight, rows, due>>
      <3>1. flusher = Nobody /\ inflight = {}
        BY <2>2, AtWork DEF Checking, Flushing
      <3> QED BY <2>1, <2>2, <3>1 DEF SessionStep
    <2>3. CASE pc[t] = "markFlushing" /\ EndFlush({mark})
      BY <1>4, <2>1, <2>3 DEF Flushing
    <2> QED BY <1>9, <2>2, <2>3 DEF MarkChecked, mark
  <1>10. CASE DatabaseFails(t)
    BY <1>0, <1>10 DEF DatabaseFails, OneAtATime
  <1> QED BY <1>1, <1>2, <1>3, <1>5, <1>6, <1>7, <1>8, <1>9, <1>10 DEF CheckStep

LEMMA SerialSessionStep ==
    ASSUME OneAtATime, Inv, Alone, [Next]_vars
    PROVE  SessionStep
  <1> USE DEF sessionVars
  <1>0. SessionShape /\ session = "active" /\ FlushHasOwner
    BY DEF Inv, Control, Alone
  <1>1. CASE BeginTick
    <2>1. flusher = Nobody /\ inflight = {}
      BY <1>0, <1>1, BeforeTick DEF BeginTick, FlushHasOwner, SessionShape
    <2> QED BY <1>1, <2>1 DEF BeginTick, SessionStep
  <1>2. CASE ListDue
    <2>1. flusher # Nobody
      BY <1>0, <1>2, MonitorAssumption DEF ListDue, FlushHasOwner
    <2> QED BY <1>2, <2>1 DEF ListDue, SessionStep
  <1>3. CASE EndTick
    <2>1. flusher = Nobody
      BY <1>0, <1>3 DEF EndTick, FlushHasOwner, Flushing, Inv, Control, TypeOK
    <2> QED BY <1>0, <1>3, <2>1 DEF EndTick, SessionStep, SessionShape
  <1>4. CASE (\E t \in Targets : IntervalElapses(t)) \/ Start \/ UNCHANGED vars
    BY <1>4 DEF IntervalElapses, Start, vars, SessionStep
  <1>5. ~ ListDueFails /\ ~ Stop
    BY <1>0 DEF ListDueFails, Stop, OneAtATime
  <1> QED BY <1>1, <1>2, <1>3, <1>4, <1>5, CheckSessionStep DEF Next, SchedulerStep

LEMMA AloneStep ==
    ASSUME OneAtATime, Inv, Alone, [Next]_vars
    PROVE  Alone'
  <1>1. SessionStep
    BY SerialSessionStep
  <1>2. \A t, u \in Targets : pc'[t] \in Checking /\ pc'[u] \in Checking => t = u
    <2>1. ASSUME NEW t \in Targets, Acquire(t)
          PROVE  \A u \in Targets \ {t} : pc'[u] \notin Checking
      BY <2>1, NobodyInside DEF Acquire, Goto, Inv, Control, TypeOK
    <2>2. CASE \A u \in Targets : pc'[u] \in Checking => pc[u] \in Checking
      BY <2>2 DEF Alone
    <2> QED BY <2>1, <2>2, OnlyAcquireStarts DEF Inv
  <1>3. /\ session' = "active" /\ pending' \subseteq MarkRow
        /\ flusher' # Nobody => pending' = {}
    BY <1>1 DEF SessionStep, Alone, BeginFlush, EndFlush
  <1>4. ASSUME NEW r \in inflight', r.kind = "snapshot"
        PROVE  pc'[r.target] = "snapshotFlushing" /\ r.number = taken'[r.target]
    BY <1>1, <1>4 DEF SessionStep, Alone, BeginFlush, EndFlush, Sent, MarkRow
  <1> QED BY <1>2, <1>3, <1>4 DEF Alone

(* A mark leaves the session only into the database.                       *)
LEMMA MarksStep ==
    ASSUME OneAtATime, Inv, Alone, [Next]_vars
    PROVE  \A m \in Marks(pending \cup inflight) :
              m \in pending' \cup inflight' \/ ~ due'[m.target]
  <1>1. SessionStep /\ TypeOK
    BY SerialSessionStep DEF Inv, Control
  <1> SUFFICES ASSUME NEW m \in pending \cup inflight, m.kind = "mark"
               PROVE  m \in pending' \cup inflight' \/ ~ due'[m.target]
    BY DEF Marks
  <1>2. m.target \in Targets
    BY <1>1 DEF TypeOK, SnapshotRow, EventRow, MarkRow
  <1>3. ASSUME flusher # Nobody, NEW added \in SUBSET MarkRow, EndFlush(added)
        PROVE  ~ due'[m.target]
    <2>1. m \in inflight
      BY <1>3 DEF Alone
    <2>2. ~ StillDue(m.target)
      BY <1>2, <2>1 DEF StillDue, Marks
    <2> QED BY <1>2, <1>3, <2>2 DEF EndFlush
  <1> QED BY <1>1, <1>3 DEF SessionStep, BeginFlush

-----------------------------------------------------------------------------
(* A target stays told when its history only grows by the row its check is *)
(* working on.                                                             *)
LEMMA ToldGrows ==
    ASSUME Inv, TypeOK', NEW t \in Targets, TargetTold(t), rows \subseteq rows', jobs \subseteq jobs',
           pc[t] \in HasSnapshot => pc'[t] \in HasSnapshot /\ taken'[t] = taken[t],
           \A s \in Snapshots(rows, t)' : \/ s \in Snapshots(rows, t)
                                          \/ pc[t] \in HasSnapshot /\ s.number = taken[t]
    PROVE  TargetTold(t)'
  <1>0. Snapshots(rows, t) \subseteq Snapshots(rows, t)' /\ Numbering /\ TypeOK
    BY DEF Snapshots, Inv, Control
  <1>1. \A s \in Snapshots(rows, t)' : s \in SnapshotRow
    BY SnapshotsType DEF TypeOK, Snapshots, SnapshotRow, EventRow
  <1>2. ASSUME NEW s \in Snapshots(rows, t), Told(t, s) PROVE Told(t, s)'
    <2> SUFFICES ASSUME NEW before \in Snapshots(rows, t)' \cup {NoSnapshot}, IsBefore(t, before, s)',
                        NEW type \in DiffSnapshots(ContentOf(before), s.content)
                 PROVE  HasJob(t, s, type)'
      BY DEF Told
    <2>1. s.number <= taken[t] /\ s.number \in Nat /\ taken[t] \in Nat
      <3>1. s \in Snapshots(Recorded, t)
        BY DEF Snapshots, Recorded
      <3> QED BY <1>0, <1>1, <3>1 DEF Numbering, TypeOK, SnapshotRow
    <2>2. before \in Snapshots(rows, t) \cup {NoSnapshot}
      BY <1>1, <2>1 DEF IsBefore, SnapshotRow
    <2>3. IsBefore(t, before, s)
      BY <1>0 DEF IsBefore
    <2>4. HasJob(t, s, type)
      BY <1>2, <2>2, <2>3 DEF Told
    <2> QED BY <2>4 DEF HasJob
  <1> SUFFICES ASSUME NEW s \in Snapshots(rows, t)'
               PROVE  (pc'[t] \in HasSnapshot /\ s.number = taken'[t]) \/ Told(t, s)'
    BY DEF TargetTold
  <1>3. CASE pc[t] \in HasSnapshot /\ s.number = taken[t]
    BY <1>3
  <1>4. CASE s \in Snapshots(rows, t) /\ Told(t, s)
    BY <1>2, <1>4
  <1> QED BY <1>3, <1>4 DEF TargetTold

(* The check has sent its last event: its own row is told as well.         *)
LEMMA ToldAtTheEnd ==
    ASSUME Inv, Inv', NEW t \in Targets, TargetTold(t), rows' = rows, jobs \subseteq jobs',
           pc[t] = "announce", pc'[t] = "mark", session = "active",
           UNCHANGED <<result, previous, taken>>
    PROVE  TargetTold(t)'
  <1>0. /\ Numbering /\ TypeOK /\ KnowsHistory(t) /\ ProgressOf(t) /\ ProgressOf(t)'
        /\ result[t] \in Observations /\ taken[t] \in Nat
    BY DEF Inv, Control, ChecksKnowHistory, Progress, ChecksHoldValues, HasResult, TypeOK
  <1>1. \A s \in Snapshots(rows, t) : s \in Snapshots(Recorded, t) /\ s \in SnapshotRow
    BY <1>0, SnapshotsType DEF TypeOK, Snapshots, SnapshotRow, EventRow, Recorded
  <1>2. Snapshots(rows, t)' = Snapshots(rows, t)
    BY DEF Snapshots
  <1>3. ASSUME NEW s \in Snapshots(rows, t), Told(t, s) PROVE Told(t, s)'
    BY <1>2, <1>3 DEF Told, IsBefore, HasJob
  <1>4. Difference(t) \subseteq Announced(t)'
    BY <1>0, MonitorAssumption DEF ProgressOf, Difference
  <1>5. ASSUME NEW s \in Snapshots(rows, t), s.number = taken[t] PROVE Told(t, s)'
    <2>1. s.content = result[t]
      BY <1>0, <1>1, <1>5 DEF KnowsHistory, HasSnapshot, Numbering
    <2>2. /\ previous[t] \in Snapshots(rows, t) \cup {NoSnapshot} /\ PreviousNumber(t) < taken[t]
          /\ \A other \in Snapshots(rows, t) : other.number <= PreviousNumber(t) \/ other.number = taken[t]
      BY <1>0, <1>1 DEF KnowsHistory, ProgressOf, HasSnapshot, HasTodo
    <2>3. ASSUME NEW before \in Snapshots(rows, t) \cup {NoSnapshot}, IsBefore(t, before, s)
          PROVE  before = previous[t]
      <3>1. CASE previous[t] = NoSnapshot
        <4>1. \A other \in Snapshots(rows, t) : other.number >= taken[t]
          BY <1>0, <1>1, <2>2, <3>1 DEF PreviousNumber, SnapshotRow
        <4> QED BY <1>0, <1>1, <1>5, <2>3, <3>1, <4>1 DEF IsBefore, SnapshotRow
      <3>2. CASE previous[t] # NoSnapshot
        <4>1. previous[t] \in Snapshots(rows, t) /\ previous[t].number < s.number
          BY <1>5, <2>2, <3>2 DEF PreviousNumber
        <4>2. before # NoSnapshot /\ previous[t].number <= before.number /\ before.number < s.number
          BY <2>3, <4>1 DEF IsBefore
        <4>3. before.number <= previous[t].number
          BY <1>0, <1>1, <1>5, <2>2, <3>2, <4>2 DEF PreviousNumber, SnapshotRow
        <4>4. before.number = previous[t].number
          BY <1>1, <4>1, <4>2, <4>3 DEF SnapshotRow
        <4> QED BY <1>0, <1>1, <4>1, <4>2, <4>4 DEF Numbering
      <3> QED BY <3>1, <3>2
    <2>4. ASSUME NEW type \in Difference(t) PROVE HasJob(t, s, type)'
      <3>1. EventOf(t, type)' \in jobs'
        BY <1>4, <2>4 DEF Announced
      <3>2. /\ EventOf(t, type)'.target = t /\ EventOf(t, type)'.snapshot = s.number
            /\ EventOf(t, type)'.type = type
        BY <1>5 DEF EventOf
      <3> QED BY <3>1, <3>2 DEF HasJob
    <2> QED BY <1>2, <2>1, <2>3, <2>4 DEF Told, IsBefore, Difference
  <1> QED BY <1>2, <1>3, <1>5 DEF TargetTold

\* With one check at a time and no failure, a check that has stored a snapshot goes on to the mark.
LEMMA HolderSteps ==
    ASSUME OneAtATime, Inv, Alone, [Next]_vars, NEW u \in Targets, pc[u] \in HasSnapshot
    PROVE  \/ pc'[u] \in HasSnapshot /\ taken'[u] = taken[u]
           \/ Announce(u) /\ pc[u] = "announce" /\ pc'[u] = "mark"
  <1>0. TypeOK /\ FlushHasOwner /\ session = "active" /\ phase = "checking" /\ pc[u] \in Checking
    BY During DEF Inv, Control, Alone, HasSnapshot, Checking, Flushing
  <1>1. ASSUME NEW t \in Targets, CheckStep(t), t # u
        PROVE  pc'[u] = pc[u] /\ taken'[u] = taken[u]
    BY <1>0, <1>1, Touches DEF Untouched
  <1>2. CASE CheckStep(u)
    <2>1. SnapshotStored(u) \/ CreateEvent(u) \/ EventStored(u) \/ Announce(u)
      BY <1>0, <1>2 DEF CheckStep, HasSnapshot, OneAtATime, Acquire, ScrapeFails, ScrapeEmpty,
         ScrapeReturns, Autoflush, ReadLatest, CreateSnapshot, AnnounceFails, MarkChecked, DatabaseFails
    <2>2. ASSUME CreateEvent(u) PROVE pc'[u] = "eventFlushing" /\ taken' = taken
      <3>1. flusher = Nobody
        BY <1>0, <2>2, AtWork DEF CreateEvent, Flushing
      <3> QED BY <1>0, <2>2, <3>1 DEF CreateEvent, AddButBusy, Goto, TypeOK
    <2>3. ASSUME SnapshotStored(u) \/ EventStored(u) PROVE pc'[u] \in {"event", "announce"} /\ taken' = taken
      BY <1>0, <2>3 DEF SnapshotStored, EventStored, Goto, TypeOK
    <2>4. ASSUME Announce(u)
          PROVE  pc[u] = "announce" /\ pc'[u] \in {"event", "mark"} /\ taken' = taken
      BY <1>0, <2>4 DEF Announce, AfterAnnounced, Goto, TypeOK
    <2> QED BY <2>1, <2>2, <2>3, <2>4 DEF HasSnapshot
  <1>3. ASSUME \E t \in Targets : IntervalElapses(t) PROVE UNCHANGED <<pc, taken>>
    BY <1>3 DEF IntervalElapses
  <1>4. ~ BeginTick /\ ~ ListDue /\ ~ ListDueFails /\ ~ Start
    BY <1>0 DEF BeginTick, ListDue, ListDueFails, Start
  <1>5. ~ EndTick /\ ~ Stop
    BY <1>0 DEF EndTick, Stop, OneAtATime, Checking, Flushing
  <1>6. CASE UNCHANGED vars
    BY <1>6 DEF vars
  <1> QED BY <1>1, <1>2, <1>3, <1>4, <1>5, <1>6 DEF Next, SchedulerStep

LEMMA JobsGrow == ASSUME [Next]_vars PROVE jobs \subseteq jobs'
  BY DEF Next, SchedulerStep, CheckStep, Acquire, ScrapeFails, ScrapeEmpty, ScrapeReturns, Autoflush,
         ReadLatest, CreateSnapshot, SnapshotStored, CreateEvent, EventStored, Announce, AnnounceFails,
         MarkChecked, DatabaseFails, IntervalElapses, BeginTick, ListDue, ListDueFails, EndTick, Stop,
         Start, vars

LEMMA ToldStep ==
    ASSUME OneAtATime, SerialInv, [Next]_vars, Inv'
    PROVE  EveryoneTold'
  <1>0. /\ Inv /\ Alone /\ EveryoneTold /\ TypeOK /\ TypeOK' /\ session = "active"
        /\ SessionStep /\ jobs \subseteq jobs'
    BY SerialSessionStep, JobsGrow DEF SerialInv, Inv, Control, Alone
  <1> SUFFICES ASSUME NEW t \in Targets PROVE TargetTold(t)'
    BY DEF EveryoneTold
  <1>1. TargetTold(t)
    BY <1>0 DEF EveryoneTold
  <1>2. CASE Announce(t) /\ pc[t] = "announce" /\ pc'[t] = "mark"
    <2>1. rows' = rows /\ UNCHANGED <<result, previous, taken>>
      BY <1>2 DEF Announce, sessionVars
    <2> QED BY <1>0, <1>1, <1>2, <2>1, ToldAtTheEnd
  <1>3. CASE pc[t] \in HasSnapshot => pc'[t] \in HasSnapshot /\ taken'[t] = taken[t]
    <2>1. rows \subseteq rows'
      BY <1>0 DEF SessionStep, BeginFlush, EndFlush, FlushedRows
    <2>2. \A s \in Snapshots(rows, t)' : s \in Snapshots(rows, t) \/ s \in Snapshots(inflight, t)
      BY <1>0 DEF SessionStep, BeginFlush, EndFlush, FlushedRows, Snapshots
    <2>3. \A s \in Snapshots(inflight, t) : pc[t] \in HasSnapshot /\ s.number = taken[t]
      BY <1>0 DEF Alone, Snapshots, HasSnapshot
    <2> QED BY <1>0, <1>1, <1>3, <2>1, <2>2, <2>3, ToldGrows
  <1> QED BY <1>0, <1>2, <1>3, HolderSteps

LEMMA SerialStep == OneAtATime /\ SerialInv /\ [Next]_vars => SerialInv'
  <1> SUFFICES ASSUME OneAtATime, SerialInv, [Next]_vars PROVE SerialInv'
    OBVIOUS
  <1>1. Inv'
    BY InvStep DEF SerialInv
  <1>2. Alone'
    BY AloneStep DEF SerialInv
  <1>3. EveryoneTold'
    BY <1>1, ToldStep
  <1> QED BY <1>1, <1>2, <1>3 DEF SerialInv

LEMMA SerialInit == Init => SerialInv
  <1> SUFFICES ASSUME Init PROVE SerialInv
    OBVIOUS
  <1>1. Inv
    BY InvInit
  <1>2. Alone
    BY DEF Init, Alone, Checking, Flushing
  <1>3. EveryoneTold
    BY DEF Init, EveryoneTold, TargetTold, Snapshots
  <1> QED BY <1>1, <1>2, <1>3 DEF SerialInv

(* While one check runs at a time and only scrapes fail, every event of    *)
(* the diff between two successive snapshots of the history has a job once *)
(* the check is over.                                                      *)
THEOREM SerialChecksAnnounce == ASSUME OneAtATime PROVE Spec => []EveryChangeAnnounced
<1>1. SerialInv => EveryChangeAnnounced
  <2> SUFFICES ASSUME SerialInv, NEW s \in rows, s.kind = "snapshot",
                      pc[s.target] \in {"idle", "queued", "done"}
               PROVE  LET before == LatestSnapshot(
                              {r \in Snapshots(rows, s.target) : r.number < s.number}, s.target)
                      IN  \A type \in DiffSnapshots(ContentOf(before), s.content) :
                              \E e \in jobs : /\ e.target = s.target
                                              /\ e.snapshot = s.number
                                              /\ e.type = type
    BY DEF EveryChangeAnnounced
  <2> DEFINE t == s.target
             earlier == {r \in Snapshots(rows, t) : r.number < s.number}
             before == LatestSnapshot(earlier, t)
  <2>1. TypeOK /\ s \in SnapshotRow /\ t \in Targets /\ s \in Snapshots(rows, t)
    BY DEF SerialInv, Inv, Control, TypeOK, SnapshotRow, EventRow, Snapshots
  <2>2. Told(t, s)
    BY <2>1 DEF SerialInv, EveryoneTold, TargetTold, HasSnapshot
  <2>3. earlier \in SUBSET (SnapshotRow \cup EventRow) /\ Snapshots(earlier, t) = earlier
    BY <2>1 DEF TypeOK, Snapshots
  <2>4. \A r \in earlier : r \in Snapshots(rows, t) /\ r.number <= s.number /\ s.number \in Nat
    BY <2>1, SnapshotsType DEF TypeOK, SnapshotRow
  <2> HIDE DEF earlier
  <2>5. before = NoSnapshot \/ before \in earlier
    BY <2>3, LatestIsARow
  <2>6. \A r \in earlier : before # NoSnapshot /\ r.number <= before.number
    BY <2>1, <2>3, <2>4, LatestIsNewest
  <2> HIDE DEF before
  <2>7. IsBefore(t, before, s)
    BY <2>4, <2>5, <2>6 DEF IsBefore, earlier
  <2>8. before \in Snapshots(rows, t) \cup {NoSnapshot}
    BY <2>4, <2>5
  <2>9. \A type \in DiffSnapshots(ContentOf(before), s.content) : HasJob(t, s, type)
    BY <2>2, <2>7, <2>8 DEF Told
  <2> QED BY <2>9 DEF HasJob, before, earlier
<1> QED BY <1>1, SerialInit, SerialStep, PTL DEF Spec

(* Then no mark is lost either: one that is made waits in the session      *)
(* until it is written to the row of its target.                           *)
THEOREM SerialMarksAreKept == ASSUME OneAtATime PROVE Spec => MarksAreKept
<1>1. SerialInv /\ [Next]_vars
        => [ \A m \in Marks(pending \cup inflight) :
                \/ m \in pending' \cup inflight'
                \/ ~due'[m.target] ]_vars
  BY MarksStep DEF SerialInv
<1> QED BY <1>1, SerialInit, SerialStep, PTL DEF Spec, MarksAreKept

-----------------------------------------------------------------------------
(* The refinement of ChangeFeed, under the same condition: a change is the *)
(* end of the flush of a snapshot, telling is the announcement of an event,*)
(* and every other step is a stutter.                                      *)

LEMMA SameEvents ==
    /\ \A before, seen : Feed!DiffSnapshots(before, seen) = DiffSnapshots(before, seen)
    /\ \A type : Feed!Rank(type) = Rank(type)
  <1>1. \A before, seen : Feed!AvailabilityEvents(before, seen) = AvailabilityEvents(before, seen)
    BY DEF Feed!AvailabilityEvents, AvailabilityEvents, Feed!PreviousAvailability,
           PreviousAvailability, Feed!InStock, InStock
  <1>2. \A before, seen : Feed!FieldEvents(before, seen) = FieldEvents(before, seen)
    BY DEF Feed!FieldEvents, FieldEvents
  <1> QED BY <1>1, <1>2 DEF Feed!DiffSnapshots, DiffSnapshots, Feed!Rank, Rank

(* Snapshots are numbered without gaps.                                    *)
Numbered(t) ==
    LatestNumber[t] = IF pc[t] = "snapshotFlushing" THEN taken[t] - 1 ELSE taken[t]

(* What a check still has to announce has no job.                          *)
NotToldYet(t) ==
    \A e \in jobs : e.target = t =>
        /\ e.snapshot <= taken[t]
        /\ pc[t] \in HasSnapshot => e.snapshot # taken[t] \/ e.type \notin todo[t]

FeedInv == SerialInv /\ \A t \in Targets : Numbered(t) /\ NotToldYet(t)

(* A step that the reader of u does not see.                               *)
Still(u) ==
    /\ Snapshots(rows, u)' = Snapshots(rows, u) /\ taken'[u] = taken[u]
    /\ pc'[u] \in HasSnapshot <=> pc[u] \in HasSnapshot
    /\ pc'[u] = "snapshotFlushing" <=> pc[u] = "snapshotFlushing"
    /\ pc[u] \in HasSnapshot => todo'[u] = todo[u]

LEMMA TheLatest ==
    ASSUME NEW rs \in SUBSET (SnapshotRow \cup EventRow), NEW t \in Targets,
           NEW s \in Snapshots(rs, t),
           \A other \in Snapshots(rs, t) : /\ other.number <= s.number
                                           /\ other.number = s.number => other = s
    PROVE  LatestSnapshot(rs, t) = s
  <1>1. s.number \in Nat /\ Snapshots(rs, t) \in SUBSET SnapshotRow
    BY SnapshotsType DEF SnapshotRow
  <1>2. LatestSnapshot(rs, t) # NoSnapshot /\ s.number <= LatestSnapshot(rs, t).number
    BY <1>1, LatestIsNewest
  <1>3. LatestSnapshot(rs, t) \in Snapshots(rs, t)
    BY <1>2, LatestIsARow
  <1>4. LatestSnapshot(rs, t).number \in Nat
    BY <1>1, <1>3 DEF SnapshotRow
  <1> QED BY <1>1, <1>2, <1>3, <1>4

LEMMA SnapshotsKept ==
    ASSUME OneAtATime, Inv, Alone, [Next]_vars, NEW u \in Targets, pc[u] # "snapshotFlushing"
    PROVE  Snapshots(rows, u)' = Snapshots(rows, u)
  <1>1. SessionStep
    BY SerialSessionStep
  <1>2. \A r \in inflight : r.kind = "snapshot" => r.target # u
    BY DEF Alone
  <1> QED BY <1>1, <1>2 DEF SessionStep, BeginFlush, EndFlush, FlushedRows, Snapshots

LEMMA OthersStill ==
    ASSUME OneAtATime, Inv, Alone, NEW t \in Targets, CheckStep(t), NEW u \in Targets, u # t
    PROVE  Still(u)
  <1>1. Untouched(u) /\ [Next]_vars
    BY Touches DEF Inv, Control, Next
  <1>2. Snapshots(rows, u)' = Snapshots(rows, u)
    <2>1. CASE pc[u] = "snapshotFlushing"
      <3>1. pc[t] \notin Checking
        BY <2>1 DEF Alone, Checking, Flushing
      <3>2. Acquire(t)
        BY <3>1 DEF CheckStep, Checking, Flushing, ScrapeFails, ScrapeEmpty, ScrapeReturns,
           Autoflush, ReadLatest, CreateSnapshot, SnapshotStored, CreateEvent, EventStored,
           Announce, AnnounceFails, MarkChecked, DatabaseFails
      <3> QED BY <3>2 DEF Acquire, sessionVars, Snapshots
    <2> QED BY <1>1, <2>1, SnapshotsKept
  <1> QED BY <1>1, <1>2 DEF Still, Untouched

LEMMA CheckIsStill ==
    ASSUME OneAtATime, Inv, Alone, NEW t \in Targets, CheckStep(t),
           ~ SnapshotStored(t), ~ Announce(t), ~ CreateSnapshot(t)
    PROVE  Still(t) /\ jobs' = jobs
  <1>1. /\ TypeOK /\ session = "active" /\ [Next]_vars
        /\ "redis" \notin Faults /\ "database" \notin Faults
    BY DEF Inv, Control, Alone, OneAtATime, Next
  <1>2. ASSUME CreateEvent(t)
        PROVE  Goto(t, "eventFlushing") /\ pc[t] = "event" /\ UNCHANGED <<checkVars, taken, jobs>>
    <2>1. flusher = Nobody
      BY <1>2, AtWork DEF CreateEvent, Checking, Flushing
    <2> QED BY <1>2, <2>1 DEF CreateEvent, AddButBusy
  <1>3. CASE CreateEvent(t) \/ EventStored(t)
    <2>1. /\ pc[t] \in {"event", "eventFlushing"} /\ pc'[t] \in {"eventFlushing", "announce"}
          /\ UNCHANGED <<checkVars, taken, jobs>>
      BY <1>1, <1>2, <1>3 DEF EventStored, Goto, TypeOK
    <2> QED BY <1>1, <2>1, SnapshotsKept DEF Still, checkVars, HasSnapshot
  <1>4. CASE Acquire(t) \/ ScrapeFails(t) \/ ScrapeEmpty(t) \/ ScrapeReturns(t) \/ Autoflush(t)
             \/ ReadLatest(t) \/ MarkChecked(t)
    <2>1. /\ pc[t] \notin HasSnapshot /\ pc'[t] \notin HasSnapshot
          /\ pc[t] # "snapshotFlushing" /\ UNCHANGED <<taken, jobs>>
      BY <1>1, <1>4 DEF Acquire, ScrapeFails, ScrapeEmpty, ScrapeReturns, Autoflush, ReadLatest,
         MarkChecked, Diff, Leave, Goto, TypeOK, HasSnapshot
    <2> QED BY <1>1, <2>1, SnapshotsKept DEF Still, HasSnapshot
  <1>5. ~ AnnounceFails(t) /\ ~ DatabaseFails(t)
    BY <1>1 DEF AnnounceFails, DatabaseFails
  <1> QED BY <1>3, <1>4, <1>5 DEF CheckStep

LEMMA OtherStepsAreStill ==
    ASSUME OneAtATime, Inv, Alone, [Next]_vars, \A t \in Targets : ~ CheckStep(t)
    PROVE  (\A u \in Targets : Still(u)) /\ jobs' = jobs
  <1>1. TypeOK /\ session = "active" /\ FlushHasOwner
    BY DEF Inv, Control, Alone
  <1>2. CASE (\E t \in Targets : IntervalElapses(t)) \/ UNCHANGED vars
    BY <1>2 DEF IntervalElapses, vars, sessionVars, checkVars, Still, Snapshots
  <1>3. CASE BeginTick \/ ListDue \/ EndTick \/ Start
    <2>1. /\ \A u \in Targets : pc[u] \notin HasSnapshot /\ pc[u] # "snapshotFlushing"
          /\ \A u \in Targets : pc'[u] \notin HasSnapshot /\ pc'[u] # "snapshotFlushing"
          /\ UNCHANGED <<taken, jobs>>
      BY <1>1, <1>3 DEF BeginTick, ListDue, EndTick, Start, Queue, FlushHasOwner, HasSnapshot
    <2> QED BY <2>1, SnapshotsKept DEF Still
  <1>4. ~ ListDueFails /\ ~ Stop
    BY <1>1 DEF ListDueFails, Stop, OneAtATime
  <1> QED BY <1>2, <1>3, <1>4 DEF Next, SchedulerStep

(* What the readers of a target that is still see.                         *)
LEMMA StillTargets ==
    ASSUME FeedInv, NEW u \in Targets, Still(u),
           \A e \in jobs' : e.target = u => e \in jobs
    PROVE  /\ Numbered(u)' /\ NotToldYet(u)'
           /\ LatestContent'[u] = LatestContent[u] /\ LatestNumber'[u] = LatestNumber[u]
           /\ Unannounced'[u] = Unannounced[u]
  <1>1. LatestSnapshot(rows, u)' = LatestSnapshot(rows, u)
    BY DEF Still, LatestSnapshot
  <1>2. LatestContent'[u] = LatestContent[u] /\ LatestNumber'[u] = LatestNumber[u]
    BY <1>1 DEF LatestContent, LatestNumber
  <1>3. Numbered(u)'
    BY <1>2 DEF FeedInv, Numbered, Still
  <1>4. NotToldYet(u)'
    BY DEF FeedInv, NotToldYet, Still
  <1>5. pc[u] \in {"event", "eventFlushing", "announce"}
           <=> pc[u] \in HasSnapshot /\ pc[u] # "snapshotFlushing"
    BY DEF HasSnapshot
  <1>6. pc'[u] \in {"event", "eventFlushing", "announce"}
           <=> pc'[u] \in HasSnapshot /\ pc'[u] # "snapshotFlushing"
    BY DEF HasSnapshot
  <1>7. Unannounced'[u] = Unannounced[u]
    BY <1>5, <1>6 DEF Unannounced, Still
  <1> QED BY <1>2, <1>3, <1>4, <1>7

\* Two states look the same to the readers of the feed.
LEMMA StillFeed ==
    ASSUME FeedInv, \A u \in Targets : Still(u), jobs' = jobs
    PROVE  (\A u \in Targets : Numbered(u)' /\ NotToldYet(u)') /\ UNCHANGED Feed!changeVars
  <1>1. \A u \in Targets :
           /\ Numbered(u)' /\ NotToldYet(u)'
           /\ LatestContent'[u] = LatestContent[u] /\ LatestNumber'[u] = LatestNumber[u]
           /\ Unannounced'[u] = Unannounced[u]
    BY StillTargets
  <1>2. LatestContent' = LatestContent /\ LatestNumber' = LatestNumber
        /\ Unannounced' = Unannounced
    BY <1>1 DEF LatestContent, LatestNumber, Unannounced
  <1>3. ToldEvents' = ToldEvents
    BY DEF ToldEvents
  <1> QED BY <1>1, <1>2, <1>3 DEF Feed!changeVars

(* A check adds its snapshot to the session: nobody sees it yet.           *)
LEMMA SnapshotTakenStep ==
    ASSUME OneAtATime, FeedInv, NEW t \in Targets, CreateSnapshot(t)
    PROVE  (\A u \in Targets : Numbered(u)' /\ NotToldYet(u)') /\ UNCHANGED Feed!changeVars
  <1>1. Inv /\ Alone /\ TypeOK /\ CheckStep(t) /\ flusher = Nobody /\ pc[t] = "snapshot"
    <2>1. pc[t] = "snapshot"
      BY DEF CreateSnapshot
    <2> QED BY <2>1, AtWork DEF FeedInv, SerialInv, Inv, Control, CheckStep, CreateSnapshot, Checking, Flushing
  <1>2. /\ pc'[t] = "snapshotFlushing" /\ taken'[t] = taken[t] + 1
        /\ rows' = rows /\ jobs' = jobs /\ todo' = todo
    BY <1>1 DEF CreateSnapshot, AddButBusy, AddAndFlush, BeginFlush, Goto, TypeOK, checkVars
  <1>3. \A u \in Targets \ {t} :
           /\ Numbered(u)' /\ NotToldYet(u)'
           /\ LatestContent'[u] = LatestContent[u] /\ LatestNumber'[u] = LatestNumber[u]
           /\ Unannounced'[u] = Unannounced[u]
    BY <1>1, <1>2, OthersStill, StillTargets
  <1>4. taken[t] \in Nat /\ \A e \in jobs : e.snapshot \in Nat
    BY <1>1 DEF TypeOK, EventRow
  <1>5. LatestContent' = LatestContent /\ LatestNumber' = LatestNumber /\ ToldEvents' = ToldEvents
    BY <1>2 DEF LatestContent, LatestNumber, ToldEvents
  <1>6. Numbered(t)'
    BY <1>1, <1>2, <1>4, <1>5 DEF FeedInv, Numbered
  <1>7. NotToldYet(t)'
    <2> SUFFICES ASSUME NEW e \in jobs, e.target = t
                 PROVE  e.snapshot <= taken[t] + 1 /\ e.snapshot # taken[t] + 1
      BY <1>2 DEF NotToldYet
    <2>1. e.snapshot <= taken[t]
      BY DEF FeedInv, NotToldYet
    <2> QED BY <1>4, <2>1
  <1>8. Unannounced'[t] = Unannounced[t]
    BY <1>1, <1>2 DEF Unannounced
  <1>9. Unannounced' = Unannounced
    BY <1>3, <1>8 DEF Unannounced
  <1> QED BY <1>3, <1>5, <1>6, <1>7, <1>9 DEF Feed!changeVars

(* The flush of a snapshot ends: the target has changed.                   *)
LEMMA ChangeStep ==
    ASSUME OneAtATime, FeedInv, Inv', NEW t \in Targets, SnapshotStored(t)
    PROVE  (\A u \in Targets : Numbered(u)' /\ NotToldYet(u)') /\ Feed!Change(t)
  <1>1. /\ Inv /\ Alone /\ TypeOK /\ TypeOK' /\ CheckStep(t) /\ session = "active"
        /\ Numbering /\ Numbering' /\ KnowsHistory(t) /\ KnowsHistory(t)' /\ ProgressOf(t)
        /\ ChecksHoldValues /\ Numbered(t) /\ NotToldYet(t)
    BY DEF FeedInv, SerialInv, Inv, Control, CheckStep, Alone, ChecksKnowHistory, Progress,
       SnapshotStored, EndFlush
  <1>2. /\ pc[t] = "snapshotFlushing" /\ pc'[t] = "event" /\ jobs' = jobs
        /\ UNCHANGED <<result, previous, todo, taken>>
    BY <1>1 DEF SnapshotStored, Goto, TypeOK, checkVars
  <1>3. /\ result[t] \in Observations /\ todo[t] # {} /\ todo[t] = Difference(t)
        /\ LatestNumber[t] = taken[t] - 1 /\ taken[t] \in Nat
    BY <1>1, <1>2 DEF ChecksHoldValues, HasResult, HasTodo, ProgressOf, Numbered, TypeOK
  <1>4. \A u \in Targets \ {t} :
           /\ Numbered(u)' /\ NotToldYet(u)'
           /\ LatestContent'[u] = LatestContent[u] /\ LatestNumber'[u] = LatestNumber[u]
           /\ Unannounced'[u] = Unannounced[u]
    BY <1>1, <1>2, OthersStill, StillTargets
  <1>5. rows \subseteq SnapshotRow \cup EventRow /\ rows' \subseteq SnapshotRow \cup EventRow
    BY <1>1 DEF TypeOK
  <1>6. LatestSnapshot(rows, t) = previous[t]
    <2>1. \A s \in Snapshots(rows, t) : s \in SnapshotRow /\ s \in Snapshots(Recorded, t)
      BY <1>5, SnapshotsType DEF Snapshots, Recorded, SnapshotRow, EventRow
    <2>2. \A s \in Snapshots(rows, t) : s.number <= taken[t] - 1
      <3>1. \A s \in Snapshots(rows, t) :
               LatestSnapshot(rows, t) # NoSnapshot /\ s.number <= LatestSnapshot(rows, t).number
        BY <1>1, <1>3, <1>5, <2>1, LatestIsNewest DEF Numbering
      <3> QED BY <1>3, <3>1 DEF LatestNumber
    <2>3. \A s \in Snapshots(rows, t) : s.number <= PreviousNumber(t)
      BY <1>1, <1>2, <1>3, <2>1, <2>2 DEF KnowsHistory, HasSnapshot, SnapshotRow
    <2>4. previous[t] \in Snapshots(rows, t) \cup {NoSnapshot}
      BY <1>1, <1>2 DEF KnowsHistory, HasTodo
    <2>5. CASE previous[t] = NoSnapshot
      <3>1. Snapshots(rows, t) = {}
        BY <2>1, <2>3, <2>5 DEF PreviousNumber, SnapshotRow
      <3> QED BY <2>5, <3>1 DEF LatestSnapshot
    <2>6. CASE previous[t] # NoSnapshot
      <3>1. previous[t] \in Snapshots(rows, t)
        BY <2>4, <2>6
      <3>2. \A other \in Snapshots(rows, t) : other.number <= previous[t].number
        BY <2>3, <2>6 DEF PreviousNumber
      <3>3. \A other \in Snapshots(rows, t) : other.number = previous[t].number => other = previous[t]
        BY <1>1, <2>1, <3>1 DEF Numbering
      <3> QED BY <1>5, <3>1, <3>2, <3>3, TheLatest
    <2> QED BY <2>5, <2>6
  <1>7. PICK s \in Snapshots(rows', t) : s.number = taken[t] /\ s.content = result[t]
    BY <1>1, <1>2 DEF KnowsHistory, HasSnapshot, Snapshots
  <1>8. LatestSnapshot(rows', t) = s
    <2>1. \A other \in Snapshots(rows', t) : other \in Snapshots(Recorded, t)'
      BY <1>5 DEF Snapshots, Recorded, SnapshotRow, EventRow
    <2>2. \A other \in Snapshots(rows', t) : /\ other.number <= s.number
                                             /\ other.number = s.number => other = s
      BY <1>1, <1>2, <1>7, <2>1 DEF Numbering
    <2> QED BY <1>5, <1>7, <2>2, TheLatest
  <1>9. s # NoSnapshot
    BY <1>5, <1>7, SnapshotsType, RowAssumption
  <1>10. /\ LatestContent'[t] = result[t] /\ LatestNumber'[t] = taken[t]
         /\ LatestContent[t] = ContentOf(previous[t])
    BY <1>6, <1>7, <1>8, <1>9 DEF LatestContent, LatestNumber, ContentOf
  <1>11. Unannounced[t] = {} /\ Unannounced'[t] = Difference(t)
    BY <1>2, <1>3 DEF Unannounced
  <1>12. Numbered(t)' /\ NotToldYet(t)'
    BY <1>1, <1>2, <1>10 DEF Numbered, NotToldYet, HasSnapshot
  <1>13. Feed!DiffSnapshots(LatestContent[t], result[t]) = Difference(t) /\ Difference(t) # {}
    BY <1>3, <1>10, SameEvents DEF Difference
  <1>14. LatestContent' = [LatestContent EXCEPT ![t] = result[t]]
    BY <1>4, <1>10 DEF LatestContent
  <1>15. Unannounced' = [Unannounced EXCEPT ![t] = Feed!DiffSnapshots(LatestContent[t], result[t])]
    BY <1>4, <1>11, <1>13 DEF Unannounced
  <1>16. LatestNumber' = [LatestNumber EXCEPT ![t] = @ + 1]
    <2>1. LatestNumber'[t] = LatestNumber[t] + 1
      BY <1>3, <1>10
    <2> QED BY <1>4, <2>1 DEF LatestNumber
  <1>17. ToldEvents' = ToldEvents
    BY <1>2 DEF ToldEvents
  <1>18. Feed!Change(t)
    BY <1>3, <1>11, <1>13, <1>14, <1>15, <1>16, <1>17 DEF Feed!Change
  <1> QED BY <1>4, <1>12, <1>18

(* An event is announced: it is the first one still to be told, and new.   *)
LEMMA TellStep ==
    ASSUME OneAtATime, FeedInv, NEW t \in Targets, Announce(t)
    PROVE  (\A u \in Targets : Numbered(u)' /\ NotToldYet(u)') /\ Feed!Tell(t)
  <1> DEFINE type == FirstType(todo[t])
             seen == [target |-> t, change |-> taken[t], type |-> type]
  <1>1. /\ Inv /\ Alone /\ TypeOK /\ CheckStep(t) /\ pc[t] = "announce"
        /\ ChecksHoldValues /\ Numbered(t) /\ NotToldYet(t)
    BY DEF FeedInv, SerialInv, Inv, Control, CheckStep, Announce
  <1>2. /\ jobs' = jobs \cup {EventOf(t, type)} /\ todo'[t] = todo[t] \ {type}
        /\ pc'[t] = IF todo'[t] = {} THEN "mark" ELSE "event"
        /\ UNCHANGED <<rows, taken>>
    BY <1>1 DEF Announce, AfterAnnounced, Goto, TypeOK, sessionVars
  <1>3. /\ todo[t] \in SUBSET EventTypes /\ type \in todo[t]
        /\ \A other \in todo[t] : Rank(type) <= Rank(other)
    BY <1>1, FirstTypeIsFirst DEF ChecksHoldValues, HasTodo, TypeOK
  <1>4. /\ EventOf(t, type).target = t /\ EventOf(t, type).snapshot = taken[t]
        /\ EventOf(t, type).type = type
    BY DEF EventOf
  <1>5. LatestNumber[t] = taken[t] /\ taken[t] \in Nat
    BY <1>1 DEF Numbered, TypeOK
  <1> HIDE DEF type
  <1>6. \A u \in Targets \ {t} :
           /\ Numbered(u)' /\ NotToldYet(u)'
           /\ LatestContent'[u] = LatestContent[u] /\ LatestNumber'[u] = LatestNumber[u]
           /\ Unannounced'[u] = Unannounced[u]
    BY <1>1, <1>2, <1>4, OthersStill, StillTargets
  <1>7. LatestContent' = LatestContent /\ LatestNumber' = LatestNumber
    BY <1>2 DEF LatestContent, LatestNumber
  <1>8. Numbered(t)'
    BY <1>2, <1>5, <1>7 DEF Numbered
  <1>9. NotToldYet(t)'
    <2> SUFFICES ASSUME NEW e \in jobs', e.target = t
                 PROVE  /\ e.snapshot <= taken[t]
                        /\ e.snapshot # taken[t] \/ e.type \notin todo[t] \ {type}
      BY <1>2 DEF NotToldYet
    <2>1. CASE e \in jobs
      BY <1>1, <2>1 DEF NotToldYet, HasSnapshot
    <2>2. CASE e = EventOf(t, type)
      BY <1>4, <1>5, <2>2
    <2> QED BY <1>2, <2>1, <2>2
  <1>10. Unannounced[t] = todo[t] /\ Unannounced'[t] = todo[t] \ {type}
    BY <1>1, <1>2 DEF Unannounced
  <1>11. Unannounced' = [Unannounced EXCEPT ![t] = @ \ {type}]
    BY <1>6, <1>10 DEF Unannounced
  <1>12. Feed!Event(t, type) = seen
    BY <1>5 DEF Feed!Event
  <1>13. ToldEvents' = ToldEvents \cup {seen}
    BY <1>2, <1>4 DEF ToldEvents
  <1>14. seen \notin ToldEvents
    <2>1. \A e \in jobs : e.target = t /\ e.snapshot = taken[t] => e.type # type
      BY <1>1, <1>3 DEF NotToldYet, HasSnapshot
    <2> QED BY <2>1 DEF ToldEvents
  <1> HIDE DEF seen
  <1>15. Feed!Tell(t)
    BY <1>3, <1>7, <1>10, <1>11, <1>12, <1>13, <1>14, SameEvents DEF Feed!Tell
  <1> QED BY <1>6, <1>8, <1>9, <1>15

LEMMA FeedStep ==
    OneAtATime /\ FeedInv /\ [Next]_vars => FeedInv' /\ [Feed!Next]_(Feed!changeVars)
  <1> SUFFICES ASSUME OneAtATime, FeedInv, [Next]_vars
               PROVE  FeedInv' /\ [Feed!Next]_(Feed!changeVars)
    OBVIOUS
  <1>1. Inv /\ Alone /\ SerialInv' /\ Inv'
    BY SerialStep DEF FeedInv, SerialInv
  <1> SUFFICES (\A u \in Targets : Numbered(u)' /\ NotToldYet(u)') /\ [Feed!Next]_(Feed!changeVars)
    BY <1>1 DEF FeedInv
  <1>2. CASE \E t \in Targets : SnapshotStored(t)
    BY <1>1, <1>2, ChangeStep DEF Feed!Next
  <1>3. CASE \E t \in Targets : Announce(t)
    BY <1>3, TellStep DEF Feed!Next
  <1>4. CASE \E t \in Targets : CreateSnapshot(t)
    BY <1>4, SnapshotTakenStep
  <1>5. CASE \A t \in Targets : ~ SnapshotStored(t) /\ ~ Announce(t) /\ ~ CreateSnapshot(t)
    <2>1. (\A u \in Targets : Still(u)) /\ jobs' = jobs
      <3>1. ASSUME NEW t \in Targets, CheckStep(t)
            PROVE  (\A u \in Targets : Still(u)) /\ jobs' = jobs
        BY <1>1, <1>5, <3>1, CheckIsStill, OthersStill
      <3> QED BY <1>1, <3>1, OtherStepsAreStill
    <2> QED BY <2>1, StillFeed
  <1> QED BY <1>2, <1>3, <1>4, <1>5

LEMMA FeedInit == Init => FeedInv /\ Feed!Init
  <1> SUFFICES ASSUME Init PROVE FeedInv /\ Feed!Init
    OBVIOUS
  <1>1. SerialInv
    BY SerialInit
  <1>2. \A t \in Targets : LatestSnapshot(rows, t) = NoSnapshot
    BY DEF Init, LatestSnapshot, Snapshots
  <1>3. \A t \in Targets : Numbered(t) /\ NotToldYet(t)
    BY <1>2 DEF Init, Numbered, NotToldYet, LatestNumber
  <1>4. /\ LatestContent = [t \in Targets |-> NoSnapshot]
        /\ LatestNumber = [t \in Targets |-> 0]
    BY <1>2 DEF LatestContent, LatestNumber, ContentOf
  <1>5. Unannounced = [t \in Targets |-> {}] /\ ToldEvents = {}
    BY DEF Init, Unannounced, ToldEvents
  <1> QED BY <1>1, <1>3, <1>4, <1>5 DEF FeedInv, Feed!Init

(* While one check runs at a time and only scrapes fail, the monitor       *)
(* behaves like the change feed, whatever the session and the scheduler do *)
(* in between: the stored snapshots are the successive changes of each     *)
(* target, numbered without gaps, and all events of a change have a job,   *)
(* once each and in their order, before the target changes again.          *)
THEOREM SerialChecksImplementChangeFeed == ASSUME OneAtATime PROVE Spec => ImplementsChangeFeed
<1> QED BY FeedInit, FeedStep, PTL DEF Spec, ImplementsChangeFeed, Feed!Spec
=============================================================================
