------------------------------ MODULE Monitor ------------------------------
(***************************************************************************)
(* The monitor process: Scheduler (backend/app/monitor/scheduler.py),      *)
(* MonitoringService.check_watch_target, the three repositories it writes  *)
(* through, and the process around them (backend/app/monitor/main.py).     *)
(*                                                                         *)
(* A check is a coroutine: it is split at its awaits, and the checks of a  *)
(* tick interleave there.  All of them, and list_due, share ONE            *)
(* AsyncSession, opened when the process starts and never committed, so    *)
(* the session is part of the state:                                       *)
(*   pending   rows added, and targets marked, not yet sent to the database*)
(*   inflight  what the flush now running sends                            *)
(*   rows      what flushes have sent, inside the open transaction         *)
(* What SQLAlchemy does with them is modelled from its behaviour: a SELECT *)
(* first flushes pending unless a flush is already running; flush() called *)
(* while another coroutine's flush is running raises and leaves the added  *)
(* row pending; the end of a flush forgets marks made while it ran; an     *)
(* error of the database leaves the session unusable until a rollback,     *)
(* which nothing in the process calls.                                     *)
(***************************************************************************)
EXTENDS Diffing, FiniteSets

CONSTANTS
    Targets,         \* the watch targets
    RetailerOf,      \* the retailer each is scraped from
    Concurrency,     \* concurrency_per_retailer
    Observations,    \* what a search may return
    Faults,          \* the kinds of failure that may happen
    MaxSnapshots,    \* bound: snapshots stored per target
    MaxRuns,         \* bound: times the process is started
    Scheduler,       \* list_due, as the owner of a flush
    Nobody           \* no flush is running

ASSUME MonitorAssumption ==
    /\ IsFiniteSet(Targets)
    /\ Concurrency \in Nat \ {0}
    /\ NoSnapshot \notin Observations
    /\ Faults \subseteq {"scrape", "redis", "database", "stop"}
    /\ MaxSnapshots \in Nat /\ MaxRuns \in Nat
    /\ Nobody \notin Targets \cup {Scheduler} /\ Scheduler \notin Targets

VARIABLES
    phase,      \* where run_forever is
    run,        \* how many times the process was started
    session,    \* "active", or "invalid" after a database error
    flusher,    \* whose flush is running
    pending, inflight, rows,
    pc,         \* where the check of each target is
    result,     \* the scraped observation
    previous,   \* the snapshot row get_latest returned
    todo,       \* the event types still to store and announce
    due,        \* does the stored last_checked_at make the target due
    taken,      \* how many snapshots of the target were created
    published,  \* events published to Redis
    jobs        \* events a Celery job was sent for

sessionVars == <<session, flusher, pending, inflight, rows, due>>
checkVars == <<result, previous, todo>>
vars == <<phase, run, sessionVars, pc, checkVars, taken, published, jobs>>

(* number orders the snapshots of a target by scraped_at, and by id.       *)
SnapshotRow == [kind : {"snapshot"}, target : Targets, number : Nat \ {0},
                content : Observations]
EventRow == [kind : {"event"}, target : Targets, snapshot : Nat \ {0},
             previous : Nat, type : EventTypes]
MarkRow == [kind : {"mark"}, target : Targets]

ASSUME RowAssumption == NoSnapshot \notin SnapshotRow

Flushing == {"latestFlushing", "snapshotFlushing", "eventFlushing", "markFlushing"}
Checking == {"scrape", "latest", "snapshot", "event", "announce", "mark"} \cup Flushing

TypeOK ==
    /\ phase \in {"sleeping", "listing", "checking", "dead", "stopped"}
    /\ run \in Nat
    /\ session \in {"active", "invalid"}
    /\ flusher \in Targets \cup {Scheduler, Nobody}
    /\ pending \subseteq SnapshotRow \cup EventRow \cup MarkRow
    /\ inflight \subseteq SnapshotRow \cup EventRow \cup MarkRow
    /\ rows \subseteq SnapshotRow \cup EventRow
    /\ pc \in [Targets -> Checking \cup {"idle", "queued", "done"}]
    /\ result \in [Targets -> Observations \cup {NoSnapshot}]
    /\ previous \in [Targets -> SnapshotRow \cup {NoSnapshot}]
    /\ todo \in [Targets -> SUBSET EventTypes]
    /\ due \in [Targets -> BOOLEAN]
    /\ taken \in [Targets -> Nat]
    /\ published \subseteq EventRow
    /\ jobs \subseteq EventRow

Init ==
    /\ phase = "sleeping" /\ run = 1
    /\ session = "active" /\ flusher = Nobody
    /\ pending = {} /\ inflight = {} /\ rows = {}
    /\ pc = [t \in Targets |-> "idle"]
    /\ result = [t \in Targets |-> NoSnapshot]
    /\ previous = [t \in Targets |-> NoSnapshot]
    /\ todo = [t \in Targets |-> {}]
    /\ due = [t \in Targets |-> TRUE]
    /\ taken = [t \in Targets |-> 0]
    /\ published = {} /\ jobs = {}
-----------------------------------------------------------------------------
(* The shared session.                                                     *)

Snapshots(rs, t) == {r \in rs : r.kind = "snapshot" /\ r.target = t}

(* get_latest: ORDER BY timestamp DESC LIMIT 1, None if there is no row.   *)
LatestSnapshot(rs, t) ==
    LET last == {r \in Snapshots(rs, t) :
                    \A other \in Snapshots(rs, t) : other.number <= r.number}
    IN  IF last = {} THEN NoSnapshot ELSE CHOOSE r \in last : TRUE

Marks(rs) == {r \in rs : r.kind = "mark"}

NeverAutoflushes == FALSE   \* mutant: autoflush=False

NeedsAutoflush == flusher = Nobody /\ pending # {}

BeginFlush(who, sent) ==
    /\ flusher' = who
    /\ inflight' = sent
    /\ pending' = {}
    /\ UNCHANGED <<session, rows, due>>

FlushedRows == rows \cup {r \in inflight : r.kind # "mark"}

StillDueAlways(t) == due[t]   \* mutant: the mark is never written

StillDue(t) == due[t] /\ \A m \in Marks(inflight) : m.target # t

(* The flush of inflight succeeds.  added is what the same step adds to the*)
(* session once it is over; marks made while it ran are reset unwritten.   *)
EndFlush(added) ==
    /\ flusher' = Nobody
    /\ inflight' = {}
    /\ rows' = FlushedRows
    /\ due' = [t \in Targets |-> StillDue(t)]
    /\ pending' = (pending \ Marks(pending)) \cup added
    /\ UNCHANGED session

(* session.add(row) and await session.flush().                             *)
AddAndFlush(t, row) ==
    /\ flusher = Nobody
    /\ BeginFlush(t, pending \cup {row})

AddButBusy(row) ==
    /\ flusher # Nobody
    /\ pending' = pending \cup {row}
    /\ UNCHANGED <<session, flusher, inflight, rows, due>>

(* The transaction is gone, with everything every check wrote in it.       *)
LoseTransaction ==
    /\ flusher' = Nobody
    /\ pending' = {} /\ inflight' = {} /\ rows' = {}
-----------------------------------------------------------------------------
(* One check: check_watch_target inside Scheduler._check.                  *)

Goto(t, where) == pc' = [pc EXCEPT ![t] = where]

HasRoomUnreleased(t) ==   \* mutant: the semaphore is not released
    Cardinality({u \in Targets : RetailerOf[u] = RetailerOf[t]
                                 /\ pc[u] \in Checking \cup {"done"}}) < Concurrency

HasRoom(t) ==
    Cardinality({u \in Targets : RetailerOf[u] = RetailerOf[t]
                                 /\ pc[u] \in Checking}) < Concurrency

(* The check is over, normally or because an exception was caught.         *)
Leave(t) ==
    /\ Goto(t, "done")
    /\ result' = [result EXCEPT ![t] = NoSnapshot]
    /\ previous' = [previous EXCEPT ![t] = NoSnapshot]
    /\ todo' = [todo EXCEPT ![t] = {}]

Acquire(t) ==
    /\ pc[t] = "queued"
    /\ HasRoom(t)
    /\ Goto(t, "scrape")
    /\ UNCHANGED <<phase, run, sessionVars, checkVars, taken, published, jobs>>

(* registry.get, initialize or search_product raises.                      *)
ScrapeFails(t) ==
    /\ "scrape" \in Faults
    /\ pc[t] = "scrape"
    /\ Leave(t)
    /\ UNCHANGED <<phase, run, sessionVars, taken, published, jobs>>

ScrapeEmpty(t) ==
    /\ pc[t] = "scrape"
    /\ Goto(t, "mark")
    /\ UNCHANGED <<phase, run, sessionVars, checkVars, taken, published, jobs>>

(* Bound: a target that took MaxSnapshots is scraped unchanged.            *)
WithinBound(t, observation) ==
    LET latest == LatestSnapshot(rows \cup pending \cup inflight, t)
    IN  \/ taken[t] < MaxSnapshots
        \/ latest # NoSnapshot /\ DiffSnapshots(latest.content, observation) = {}

ScrapeReturns(t) ==
    /\ pc[t] = "scrape"
    /\ \E observation \in Observations :
          /\ WithinBound(t, observation)
          /\ result' = [result EXCEPT ![t] = observation]
    /\ Goto(t, "latest")
    /\ UNCHANGED <<phase, run, sessionVars, previous, todo, taken, published, jobs>>

ContentOf(snapshot) == IF snapshot = NoSnapshot THEN NoSnapshot ELSE snapshot.content

(* A SELECT of a check autoflushes first: the flush becomes this check's.  *)
Autoflush(t) ==
    /\ session = "active"
    /\ NeedsAutoflush
    /\ BeginFlush(t, pending)
    /\ \/ pc[t] = "latest" /\ Goto(t, "latestFlushing")
       \/ pc[t] = "mark" /\ Goto(t, "markFlushing")
    /\ UNCHANGED <<phase, run, checkVars, taken, published, jobs>>

(* get_latest returns and the scrape is diffed against it.                 *)
Diff(t, latest) ==
    LET types == DiffSnapshots(ContentOf(latest), result[t])
    IN  /\ previous' = [previous EXCEPT ![t] = latest]
        /\ todo' = [todo EXCEPT ![t] = types]
        /\ Goto(t, IF types = {} THEN "mark" ELSE "snapshot")

ReadLatest(t) ==
    /\ session = "active"
    /\ \/ /\ pc[t] = "latest" /\ ~NeedsAutoflush
          /\ Diff(t, LatestSnapshot(rows, t))
          /\ UNCHANGED sessionVars
       \/ /\ pc[t] = "latestFlushing"
          /\ EndFlush({})
          /\ Diff(t, LatestSnapshot(FlushedRows, t))
    /\ UNCHANGED <<phase, run, result, taken, published, jobs>>

CreateSnapshot(t) ==
    LET row == [kind |-> "snapshot", target |-> t, number |-> taken[t] + 1,
                content |-> result[t]]
    IN  /\ session = "active"
        /\ pc[t] = "snapshot"
        /\ taken' = [taken EXCEPT ![t] = @ + 1]
        /\ \/ AddAndFlush(t, row) /\ Goto(t, "snapshotFlushing") /\ UNCHANGED checkVars
           \/ AddButBusy(row) /\ Leave(t)
        /\ UNCHANGED <<phase, run, published, jobs>>

AnnouncedBeforeStored(t) ==   \* mutant: publish comes before the insert of the event
    /\ session = "active"
    /\ pc[t] = "snapshotFlushing"
    /\ EndFlush({})
    /\ Goto(t, "announce")
    /\ UNCHANGED <<phase, run, checkVars, taken, published, jobs>>

SnapshotStored(t) ==
    /\ session = "active"
    /\ pc[t] = "snapshotFlushing"
    /\ EndFlush({})
    /\ Goto(t, "event")
    /\ UNCHANGED <<phase, run, checkVars, taken, published, jobs>>

LastType(types) == CHOOSE type \in types : \A other \in types : Rank(other) <= Rank(type)   \* mutant

(* The loop over event_types, in the order of the list.                    *)
FirstType(types) == CHOOSE type \in types : \A other \in types : Rank(type) <= Rank(other)

EventOfRow(t, type) ==   \* mutant: the previous row itself instead of its id
    [kind |-> "event", target |-> t, snapshot |-> taken[t], type |-> type,
     previous |-> previous[t]]

EventOf(t, type) ==
    [kind |-> "event", target |-> t, snapshot |-> taken[t], type |-> type,
     previous |-> IF previous[t] = NoSnapshot THEN 0 ELSE previous[t].number]

CreateEvent(t) ==
    LET row == EventOf(t, FirstType(todo[t]))
    IN  /\ session = "active"
        /\ pc[t] = "event"
        /\ \/ AddAndFlush(t, row) /\ Goto(t, "eventFlushing") /\ UNCHANGED checkVars
           \/ AddButBusy(row) /\ Leave(t)
        /\ UNCHANGED <<phase, run, taken, published, jobs>>

EventStored(t) ==
    /\ session = "active"
    /\ pc[t] = "eventFlushing"
    /\ EndFlush({})
    /\ Goto(t, "announce")
    /\ UNCHANGED <<phase, run, checkVars, taken, published, jobs>>

AfterFirstAnnounced(rest) == "mark"   \* mutant: leaves the loop early

AfterAnnounced(rest) == IF rest = {} THEN "mark" ELSE "event"

(* publish returns, and send_task right after it, with no await between.   *)
Announce(t) ==
    LET type == FirstType(todo[t])
        rest == todo[t] \ {type}
    IN  /\ pc[t] = "announce"
        /\ published' = published \cup {EventOf(t, type)}
        /\ jobs' = jobs \cup {EventOf(t, type)}
        /\ todo' = [todo EXCEPT ![t] = rest]
        /\ Goto(t, AfterAnnounced(rest))
        /\ UNCHANGED <<phase, run, sessionVars, result, previous, taken>>

(* One of the two raises; Redis may have done it all the same.             *)
AnnounceFails(t) ==
    LET event == EventOf(t, FirstType(todo[t]))
    IN  /\ "redis" \in Faults
        /\ pc[t] = "announce"
        /\ \/ UNCHANGED <<published, jobs>>
           \/ published' = published \cup {event} /\ jobs' \in {jobs, jobs \cup {event}}
        /\ Leave(t)
        /\ UNCHANGED <<phase, run, sessionVars, taken>>

(* mark_checked: a SELECT, then the attribute is set; no flush follows.    *)
MarkChecked(t) ==
    LET mark == [kind |-> "mark", target |-> t]
    IN  /\ session = "active"
        /\ \/ /\ pc[t] = "mark" /\ ~NeedsAutoflush
              /\ pending' = pending \cup {mark}
              /\ UNCHANGED <<session, flusher, inflight, rows, due>>
           \/ /\ pc[t] = "markFlushing"
              /\ EndFlush({mark})
        /\ Leave(t)
        /\ UNCHANGED <<phase, run, taken, published, jobs>>

(* Any call of the session fails, and then every later one does.           *)
DatabaseFails(t) ==
    /\ pc[t] \in {"latest", "snapshot", "event", "mark"} \cup Flushing
    /\ "database" \in Faults \/ session = "invalid"
    /\ session' = "invalid"
    /\ LoseTransaction
    /\ Leave(t)
    /\ UNCHANGED <<phase, run, due, taken, published, jobs>>

CheckStep(t) ==
    \/ Acquire(t)
    \/ ScrapeFails(t) \/ ScrapeEmpty(t) \/ ScrapeReturns(t)
    \/ Autoflush(t) \/ ReadLatest(t)
    \/ CreateSnapshot(t) \/ SnapshotStored(t)
    \/ CreateEvent(t) \/ EventStored(t)
    \/ Announce(t) \/ AnnounceFails(t)
    \/ MarkChecked(t)
    \/ DatabaseFails(t)
-----------------------------------------------------------------------------
(* The loop of run_forever.                                                *)

(* gather creates one coroutine per due target.                            *)
Queue(dueTargets) ==
    /\ phase' = "checking"
    /\ pc' = [t \in Targets |-> IF t \in dueTargets THEN "queued" ELSE "idle"]

BeginTick ==
    /\ phase = "sleeping"
    /\ session = "active"
    /\ IF NeedsAutoflush
       THEN phase' = "listing" /\ BeginFlush(Scheduler, pending) /\ UNCHANGED pc
       ELSE Queue({t \in Targets : due[t]}) /\ UNCHANGED sessionVars
    /\ UNCHANGED <<run, checkVars, taken, published, jobs>>

ListDue ==
    /\ phase = "listing"
    /\ session = "active"
    /\ EndFlush({})
    /\ Queue({t \in Targets : StillDue(t)})
    /\ UNCHANGED <<run, checkVars, taken, published, jobs>>

(* list_due raises out of tick and of run_forever: the task is over, while *)
(* main still waits for a signal.                                          *)
ListDueFails ==
    /\ phase \in {"sleeping", "listing"}
    /\ "database" \in Faults \/ session = "invalid"
    /\ phase' = "dead"
    /\ session' = "invalid"
    /\ LoseTransaction
    /\ UNCHANGED <<run, due, pc, checkVars, taken, published, jobs>>

EndTick ==
    /\ phase = "checking"
    /\ \A t \in Targets : pc[t] \in {"idle", "done"}
    /\ phase' = "sleeping"
    /\ pc' = [t \in Targets |-> "idle"]
    /\ UNCHANGED <<run, sessionVars, checkVars, taken, published, jobs>>

SchedulerStep == BeginTick \/ ListDue \/ ListDueFails \/ EndTick

(* The interval of a target passes.                                        *)
IntervalElapses(t) ==
    /\ ~due[t]
    /\ due' = [due EXCEPT ![t] = TRUE]
    /\ UNCHANGED <<phase, run, session, flusher, pending, inflight, rows, pc,
                   checkVars, taken, published, jobs>>

(* SIGTERM, SIGINT or a crash: the checks are cancelled wherever they are, *)
(* and closing the session rolls back everything the run wrote.            *)
Stop ==
    /\ "stop" \in Faults
    /\ phase # "stopped"
    /\ phase' = "stopped"
    /\ session' = "active"
    /\ LoseTransaction
    /\ pc' = [t \in Targets |-> "idle"]
    /\ result' = [t \in Targets |-> NoSnapshot]
    /\ previous' = [t \in Targets |-> NoSnapshot]
    /\ todo' = [t \in Targets |-> {}]
    /\ due' = [t \in Targets |-> TRUE]
    /\ UNCHANGED <<run, taken, published, jobs>>

Start ==
    /\ phase = "stopped"
    /\ run < MaxRuns
    /\ run' = run + 1
    /\ phase' = "sleeping"
    /\ UNCHANGED <<sessionVars, pc, checkVars, taken, published, jobs>>

Next ==
    \/ \E t \in Targets : CheckStep(t) \/ IntervalElapses(t)
    \/ SchedulerStep
    \/ Stop
    \/ Start

Spec == Init /\ [][Next]_vars

(* The event loop runs every coroutine that can go on, provider calls time *)
(* out and bound their retries, Redis and the database answer or raise,    *)
(* and time passes.  Nothing restarts the process by itself.               *)
FairSpec ==
    /\ Spec
    /\ WF_vars(SchedulerStep)
    /\ \A t \in Targets : WF_vars(CheckStep(t)) /\ WF_vars(IntervalElapses(t))
-----------------------------------------------------------------------------
(* Safety, with every kind of failure.                                     *)

SnapshotsOf(e) == {r \in rows : /\ r.kind = "snapshot"
                                /\ r.target = e.target
                                /\ r.number = e.snapshot}

BaselinesOf(e) == {r \in rows : /\ r.kind = "snapshot"
                                /\ r.target = e.target
                                /\ r.number = e.previous}

(* The history explains its events: each stored event refers to a stored   *)
(* snapshot and to the one stored just before it, and the diff of the two  *)
(* fires it.  The baseline is read before several awaits at which other    *)
(* checks flush, and snapshots whose check failed stay in the session:     *)
(* neither may slip in between.                                            *)
EventsExplainSnapshots ==
    \A e \in {r \in rows : r.kind = "event"} :
        \E s \in SnapshotsOf(e) :
            /\ \/ /\ e.previous = 0
                  /\ e.type \in DiffSnapshots(NoSnapshot, s.content)
               \/ \E p \in BaselinesOf(e) : e.type \in DiffSnapshots(p.content, s.content)
            /\ \A between \in Snapshots(rows \cup inflight \cup pending, e.target) :
                  ~(e.previous < between.number /\ between.number < e.snapshot)

(* What Redis and the workers are told about a stored snapshot is itself   *)
(* stored: no failure lets an announcement overtake its own rows.          *)
AnnouncedIsStored ==
    \A e \in published \cup jobs : SnapshotsOf(e) # {} => e \in rows

(* The jobs sent for a snapshot are the first ones of its diff: whatever   *)
(* fails in the loop, no event is skipped in favour of a later one.        *)
JobsAreInOrder ==
    \A e \in jobs : \A s \in SnapshotsOf(e) :
        LET diff == IF e.previous = 0 THEN DiffSnapshots(NoSnapshot, s.content)
                    ELSE UNION {DiffSnapshots(p.content, s.content) : p \in BaselinesOf(e)}
        IN  \A type \in diff :
                Rank(type) < Rank(e.type) => [e EXCEPT !.type = type] \in jobs

(* A target is marked as checked only once every event of its diff was     *)
(* published and sent to the workers: an event given up by a failure       *)
(* leaves the target due.                                                  *)
MarkedOnlyWhenAnnounced ==
    \A t \in Targets :
        pc[t] \in {"mark", "markFlushing"} /\ result[t] # NoSnapshot =>
            \A type \in DiffSnapshots(ContentOf(previous[t]), result[t]) :
                EventOf(t, type) \in jobs \cap published
-----------------------------------------------------------------------------
(* What holds only while nothing fails and one check runs at a time.       *)

(* Every change stored in the history is announced: once its check is      *)
(* over, all events of the diff between a snapshot and the one before it   *)
(* have a job.                                                             *)
EveryChangeAnnounced ==
    \A s \in {r \in rows : r.kind = "snapshot"} :
        pc[s.target] \in {"idle", "queued", "done"} =>
            LET before == LatestSnapshot(
                              {r \in Snapshots(rows, s.target) : r.number < s.number},
                              s.target)
            IN  \A type \in DiffSnapshots(ContentOf(before), s.content) :
                    \E e \in jobs : /\ e.target = s.target
                                    /\ e.snapshot = s.number
                                    /\ e.type = type

(* The newest stored snapshot of t, how many there are before the next one,*)
(* the events of it that have no job yet, and the jobs as their readers see*)
(* them.                                                                   *)
LatestContent == [t \in Targets |-> ContentOf(LatestSnapshot(rows, t))]
LatestNumber ==
    [t \in Targets |-> IF LatestSnapshot(rows, t) = NoSnapshot THEN 0
                       ELSE LatestSnapshot(rows, t).number]
Unannounced ==
    [t \in Targets |-> IF pc[t] \in {"event", "eventFlushing", "announce"}
                       THEN todo[t] ELSE {}]
ToldEvents == {[target |-> e.target, change |-> e.snapshot, type |-> e.type] : e \in jobs}

Feed == INSTANCE ChangeFeed WITH latest <- LatestContent, number <- LatestNumber,
                                 untold <- Unannounced, told <- ToldEvents

(* The checks implement the abstract change feed: no change is stored that *)
(* is not announced, nothing is announced twice, out of order, or after a  *)
(* later change of its target, and no number is skipped.                   *)
ImplementsChangeFeed == Feed!Spec

(* A mark is written: it leaves the session only into the database, so     *)
(* that list_due stops returning the target until its interval elapses.    *)
MarksAreKept ==
    [][ \A m \in Marks(pending \cup inflight) :
            \/ m \in pending' \cup inflight'
            \/ ~due'[m.target] ]_vars
-----------------------------------------------------------------------------
(* The rows of the history are never taken back (design section 5:         *)
(* "append-only; this is the 'History' table").                            *)
HistoryIsAppendOnly == [][rows \subseteq rows']_vars

(* Every target is checked again and again, also when checks fail.         *)
EveryTargetIsChecked == \A t \in Targets : []<>(pc[t] = "scrape")
=============================================================================
