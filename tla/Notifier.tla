------------------------------ MODULE Notifier ------------------------------
(***************************************************************************)
(* The notification workers: the Celery task process_detection_event       *)
(* (backend/app/tasks/notifications.py) and NotificationService            *)
(* (backend/app/application/notification_service.py).                      *)
(*                                                                         *)
(* A worker takes one job at a time and runs it in ONE transaction: the    *)
(* messages go out one by one, but the rows of notification_logs become    *)
(* visible to other workers only at the commit that ends the job.  Each    *)
(* statement sees what is committed when it runs, and the worker's own     *)
(* rows.  Celery acknowledges a job when it is taken and does not retry it.*)
(***************************************************************************)
EXTENDS Integers, FiniteSets

CONSTANTS
    Workers, Users, Watches, Channels, Events,
    OwnerOf,         \* the user of a watch or of a channel
    WatchedBy,       \* the watch target of a watch
    TargetOf,        \* the watch target of an event
    TypeOf,          \* the event type of an event
    Supported,       \* the channels whose type has a sender
    Cooldown,        \* cooldown_seconds
    MaxTime,         \* bound: the last tick of the clock
    Deletable,       \* bound: the channels that may be deleted
    Faults,          \* the kinds of failure that may happen
    Nothing          \* no job, no user, no channel

ASSUME NotifierAssumption ==
    /\ OwnerOf \in [Watches \cup Channels -> Users]
    /\ Supported \subseteq Channels
    /\ Cooldown \in Nat /\ MaxTime \in Nat
    /\ Faults \subseteq {"send", "crash", "uncommitted"}
    /\ Nothing \notin Events \cup Users \cup Channels

VARIABLES
    now,        \* the clock
    channels,   \* the channels that exist
    job,        \* what became of the job of each event
    logs,       \* committed rows of notification_logs
    sent,       \* messages that left for a channel
    pc,         \* where each worker is
    event,      \* the event whose job it runs
    subscribed, \* the watches list_by_watch_target returned
    left,       \* those of users not seen yet
    user,       \* the user whose channels it goes through
    targets,    \* the channels still to send to
    result,     \* the channel just sent to, and with which status
    written,    \* log rows of its open transaction
    started,    \* observer: when its job was taken
    earlier     \* observer: the jobs committed before that of an event was taken

jobVars == <<event, subscribed, left, user, targets, result, written, started>>
worldVars == <<now, channels>>
vars == <<worldVars, job, logs, sent, pc, jobVars, earlier>>

LogRow == [event : Events, user : Users, channel : Channels,
           status : {"sent", "failed"}, at : Nat]
Message == [event : Events, channel : Channels]
Result == [channel : Channels, status : {"sent", "failed"}]

TypeOK ==
    /\ now \in Nat
    /\ channels \subseteq Channels
    /\ job \in [Events -> {"queued", "running", "done", "dropped", "failed"}]
    /\ logs \subseteq LogRow
    /\ sent \subseteq Message
    /\ pc \in [Workers -> {"idle", "load", "users", "channels", "send", "log"}]
    /\ event \in [Workers -> Events \cup {Nothing}]
    /\ subscribed \in [Workers -> SUBSET Watches]
    /\ left \in [Workers -> SUBSET Watches]
    /\ user \in [Workers -> Users \cup {Nothing}]
    /\ targets \in [Workers -> SUBSET Channels]
    /\ result \in [Workers -> Result \cup {Nothing}]
    /\ written \in [Workers -> SUBSET LogRow]
    /\ started \in [Workers -> Nat]
    /\ earlier \in [Events -> SUBSET Events]

Init ==
    /\ now = 0
    /\ channels = Channels
    /\ job = [e \in Events |-> "queued"]
    /\ logs = {} /\ sent = {}
    /\ pc = [w \in Workers |-> "idle"]
    /\ event = [w \in Workers |-> Nothing]
    /\ subscribed = [w \in Workers |-> {}] /\ left = [w \in Workers |-> {}]
    /\ user = [w \in Workers |-> Nothing]
    /\ targets = [w \in Workers |-> {}]
    /\ result = [w \in Workers |-> Nothing]
    /\ written = [w \in Workers |-> {}]
    /\ started = [w \in Workers |-> 0]
    /\ earlier = [e \in Events |-> {}]
-----------------------------------------------------------------------------
(* One job.                                                                *)

Goto(w, where) == pc' = [pc EXCEPT ![w] = where]

(* The job is over, and the session closed.                                *)
Finish(w, outcome) ==
    /\ job' = [job EXCEPT ![event[w]] = outcome]
    /\ Goto(w, "idle")
    /\ event' = [event EXCEPT ![w] = Nothing]
    /\ subscribed' = [subscribed EXCEPT ![w] = {}]
    /\ left' = [left EXCEPT ![w] = {}]
    /\ user' = [user EXCEPT ![w] = Nothing]
    /\ targets' = [targets EXCEPT ![w] = {}]
    /\ result' = [result EXCEPT ![w] = Nothing]
    /\ written' = [written EXCEPT ![w] = {}]
    /\ started' = [started EXCEPT ![w] = 0]

(* An exception leaves process_event: no commit, and the job is not retried.*)
Abort(w) == Finish(w, "failed") /\ UNCHANGED logs

(* A pool of processes takes the jobs, and acknowledges each when taken.   *)
Take(w, e) ==
    /\ pc[w] = "idle"
    /\ job[e] = "queued"
    /\ job' = [job EXCEPT ![e] = "running"]
    /\ Goto(w, "load")
    /\ event' = [event EXCEPT ![w] = e]
    /\ started' = [started EXCEPT ![w] = now]
    /\ earlier' = [earlier EXCEPT ![e] = {f \in Events : job[f] = "done"}]
    /\ UNCHANGED <<worldVars, logs, sent, subscribed, left, user, targets, result, written>>

(* get_by_id returns None: the monitor has not committed the event.        *)
EventMissing(w) ==
    /\ "uncommitted" \in Faults
    /\ pc[w] = "load"
    /\ Finish(w, "dropped")
    /\ UNCHANGED <<worldVars, logs, sent, earlier>>

(* list_by_watch_target: any of the watches of the target may be active by *)
(* now, since users create and deactivate them at any time.                *)
ListWatches(w) ==
    /\ pc[w] = "load"
    /\ \E active \in SUBSET {x \in Watches : WatchedBy[x] = TargetOf[event[w]]} :
          /\ subscribed' = [subscribed EXCEPT ![w] = active]
          /\ left' = [left EXCEPT ![w] = active]
    /\ Goto(w, "users")
    /\ UNCHANGED <<worldVars, job, logs, sent, event, user, targets, result, written,
                   started, earlier>>

(* The dedup key of a log row is its user with the target and the type.    *)
SameKey(row, u, e) ==
    /\ row.user = u
    /\ TargetOf[row.event] = TargetOf[e]
    /\ TypeOf[row.event] = TypeOf[e]

IsRecentStrictly(row) == row.at > now - Cooldown   \* mutant: > for >=

IsRecent(row) == row.at >= now - Cooldown

Recent(w, u) == {row \in logs \cup written[w] : SameKey(row, u, event[w]) /\ IsRecent(row)}

LeftWithoutSeen(w, x) == left[w] \ {x}   \* mutant: no seen_users
LeftUntilSkipped(w, x) ==   \* mutant: return instead of continue
    IF Recent(w, OwnerOf[x]) = {} THEN {y \in left[w] : OwnerOf[y] # OwnerOf[x]} ELSE {}

(* seen_users: a user is visited once, with whichever watch comes first.   *)
LeftAfter(w, x) == {y \in left[w] : OwnerOf[y] # OwnerOf[x]}

(* The next user, and exists_recent: one row skips the user, two rows make *)
(* scalar_one_or_none raise.                                               *)
NextUser(w) ==
    /\ pc[w] = "users"
    /\ \E x \in left[w] :
         LET recent == Recent(w, OwnerOf[x])
         IN \/ /\ recent = {}
               /\ left' = [left EXCEPT ![w] = LeftAfter(w, x)]
               /\ user' = [user EXCEPT ![w] = OwnerOf[x]]
               /\ Goto(w, "channels")
               /\ UNCHANGED <<job, logs, event, subscribed, targets, result, written, started>>
            \/ /\ \E row \in recent : recent = {row}
               /\ left' = [left EXCEPT ![w] = LeftAfter(w, x)]
               /\ UNCHANGED <<job, logs, pc, event, subscribed, user, targets, result,
                              written, started>>
            \/ /\ \E row1, row2 \in recent : row1 # row2
               /\ Abort(w)
    /\ UNCHANGED <<worldVars, sent, earlier>>

AfterChannel(rest) == IF rest = {} THEN "users" ELSE "send"

(* Channels whose type has no sender are passed over.                      *)
ListChannels(w) ==
    LET usable == {c \in channels \cap Supported : OwnerOf[c] = user[w]}
    IN  /\ pc[w] = "channels"
        /\ targets' = [targets EXCEPT ![w] = usable]
        /\ Goto(w, AfterChannel(usable))
        /\ UNCHANGED <<worldVars, job, logs, sent, event, subscribed, left, user, result,
                       written, started, earlier>>

Deliver(w, c) == sent' = sent \cup {[event |-> event[w], channel |-> c]}

SendResults == IF "send" \in Faults THEN {"sent", "failed"} ELSE {"sent"}

(* send returns.  A message may leave and send still return False: SMTP can*)
(* fail after the message was accepted.                                    *)
Send(w) ==
    /\ pc[w] = "send"
    /\ \E c \in targets[w], status \in SendResults :
          /\ \/ Deliver(w, c)
             \/ status = "failed" /\ UNCHANGED sent
          /\ result' = [result EXCEPT ![w] = [channel |-> c, status |-> status]]
          /\ targets' = [targets EXCEPT ![w] = @ \ {c}]
    /\ Goto(w, "log")
    /\ UNCHANGED <<worldVars, job, logs, event, subscribed, left, user, written, started,
                   earlier>>

(* The HTTP client raises, before the message left or after.               *)
SendRaises(w) ==
    /\ "send" \in Faults
    /\ pc[w] = "send"
    /\ UNCHANGED sent \/ \E c \in targets[w] : Deliver(w, c)
    /\ Abort(w)
    /\ UNCHANGED <<worldVars, earlier>>

RowSuccess(r) == IF r.status = "sent" THEN "success" ELSE "failed"   \* mutant

RowStatus(r) == r.status

LogSend(w) ==
    LET row == [event |-> event[w], user |-> user[w], channel |-> result[w].channel,
                status |-> RowStatus(result[w]), at |-> now]
    IN  /\ pc[w] = "log"
        /\ row.channel \in channels
        /\ written' = [written EXCEPT ![w] = @ \cup {row}]
        /\ result' = [result EXCEPT ![w] = Nothing]
        /\ Goto(w, AfterChannel(targets[w]))
        /\ UNCHANGED <<worldVars, job, logs, sent, event, subscribed, left, user, targets,
                       started, earlier>>

(* The channel was deleted in the meantime: its foreign key fails.         *)
LogFails(w) ==
    /\ pc[w] = "log"
    /\ result[w].channel \notin channels
    /\ Abort(w)
    /\ UNCHANGED <<worldVars, sent, earlier>>

Uncommitted(w) == logs   \* mutant: no session.commit

Committed(w) == logs \cup written[w]

Commit(w) ==
    /\ pc[w] = "users"
    /\ left[w] = {}
    /\ logs' = Committed(w)
    /\ Finish(w, "done")
    /\ UNCHANGED <<worldVars, sent, earlier>>

(* The worker dies, or the database fails, anywhere in a job.              *)
Crash(w) ==
    /\ "crash" \in Faults
    /\ pc[w] # "idle"
    /\ Abort(w)
    /\ UNCHANGED <<worldVars, sent, earlier>>

WorkerStep(w) ==
    \/ \E e \in Events : Take(w, e)
    \/ EventMissing(w) \/ ListWatches(w)
    \/ NextUser(w) \/ ListChannels(w)
    \/ Send(w) \/ SendRaises(w)
    \/ LogSend(w) \/ LogFails(w)
    \/ Commit(w)
    \/ Crash(w)
-----------------------------------------------------------------------------
(* Around the workers: the API and time.                                   *)

workerVars == <<logs, sent, pc, jobVars, earlier>>

(* delete_channel: log rows, also of open transactions, refer to the       *)
(* channel and keep it alive.                                              *)
DeleteChannel(c) ==
    /\ c \in channels \cap Deletable
    /\ \A row \in logs \cup UNION {written[w] : w \in Workers} : row.channel # c
    /\ channels' = channels \ {c}
    /\ UNCHANGED <<now, job, workerVars>>

Tick ==
    /\ now < MaxTime
    /\ now' = now + 1
    /\ UNCHANGED <<channels, job, workerVars>>

Next ==
    \/ \E w \in Workers : WorkerStep(w)
    \/ \E c \in Channels : DeleteChannel(c)
    \/ Tick

Spec == Init /\ [][Next]_vars
-----------------------------------------------------------------------------
(* Properties.                                                             *)

(* A message of an event goes to a channel once, although a user may have  *)
(* several watches of the target and the clock moves while a job runs.     *)
SentOnce ==
    [][ \A w \in Workers : result[w] = Nothing /\ result'[w] # Nothing =>
          [event |-> event[w], channel |-> result'[w].channel] \notin sent ]_vars

(* The cooldown holds between jobs that do not overlap: once a job has     *)
(* committed, no job taken later tells the same user of the same kind of   *)
(* event of the same target within the cooldown.                           *)
CooldownBetweenJobs ==
    \A row1, row2 \in logs \cup UNION {written[w] : w \in Workers} :
        row1.event \in earlier[row2.event] /\ SameKey(row1, row2.user, row2.event)
        => row2.at > row1.at + Cooldown

(* The log is a true account of the jobs that ended normally: every message*)
(* of theirs has a row, a row that says "sent" has a message, and no row of*)
(* any other job is visible.                                               *)
LogIsTrue ==
    /\ \A m \in sent : job[m.event] = "done" =>
           \E row \in logs : row.event = m.event /\ row.channel = m.channel
    /\ \A row \in logs :
           /\ job[row.event] = "done"
           /\ row.status = "sent" =>
                  \E m \in sent : m.event = row.event /\ m.channel = row.channel

Usable(u) == {c \in channels \cap Supported : OwnerOf[c] = u}

Ends(w, outcome) == event[w] # Nothing /\ job'[event[w]] = outcome

(* The user was told of the same kind of event before this job, or by      *)
(* another job, within the cooldown.                                       *)
WasTold(w, u) ==
    \E row \in logs : SameKey(row, u, event[w]) /\ row.at >= started[w] - Cooldown

(* A job that commits passed nobody over: each subscriber it listed had    *)
(* all remaining channels tried, or was told of the same kind of event     *)
(* within the cooldown, whatever happened to the users before.             *)
NobodyPassedOver ==
    [][ \A w \in Workers : Ends(w, "done") =>
          \A x \in subscribed[w] :
             \/ \A c \in Usable(OwnerOf[x]) :
                   \E row \in logs' : row.event = event[w] /\ row.channel = c
             \/ WasTold(w, OwnerOf[x]) ]_vars

(* process_event "sends notifications to all subscribed users through their*)
(* configured channels" (notification_service.py:54): when a job ends,     *)
(* however it ends, each subscriber was sent the event, or was told of the *)
(* same kind of event within the cooldown.                                 *)
EverySubscriberIsTold ==
    [][ \A w \in Workers : Ends(w, "done") \/ Ends(w, "failed") =>
          \A x \in subscribed[w] :
             \/ \A c \in Usable(OwnerOf[x]) :
                   \E m \in sent : m.event = event[w] /\ m.channel = c
             \/ WasTold(w, OwnerOf[x]) ]_vars
=============================================================================
