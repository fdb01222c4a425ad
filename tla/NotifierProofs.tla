--------------------------- MODULE NotifierProofs ---------------------------
(***************************************************************************)
(* Theorems about Notifier, for any workers, users, watches, channels and  *)
(* events, any cooldown, any length of time and every combination of       *)
(* failures.                                                               *)
(***************************************************************************)
EXTENDS Notifier, TLAPS

-----------------------------------------------------------------------------
(* The inductive invariant, in five parts.                                 *)

(* What a worker holds at each point of a job, and that a running job has  *)
(* one worker.                                                             *)
Working(w) == pc[w] # "idle"
AtAUser(w) == pc[w] \in {"channels", "send", "log"}

WorkersHoldValues ==
    \A w \in Workers :
        /\ Working(w) => event[w] \in Events /\ job[event[w]] = "running"
        /\ ~Working(w) => event[w] = Nothing
        /\ pc[w] \in {"idle", "load"} => left[w] = {} /\ subscribed[w] = {} /\ written[w] = {}
        /\ AtAUser(w) => user[w] \in Users
        /\ pc[w] \notin {"send", "log"} => targets[w] = {}
        /\ pc[w] = "log" => result[w] \in Result
        /\ pc[w] # "log" => result[w] = Nothing
        /\ left[w] \subseteq subscribed[w]
        /\ started[w] <= now

OneWorkerPerJob ==
    \A v, w \in Workers : Working(v) /\ event[v] = event[w] => v = w

Control == TypeOK /\ WorkersHoldValues /\ OneWorkerPerJob

(* Rows belong to running jobs until they are committed, and a row or a    *)
(* message says that its job was taken.                                    *)
RowsAreOfJobs ==
    /\ \A row \in logs : job[row.event] = "done"
    /\ \A w \in Workers : \A row \in written[w] : row.event = event[w]
    /\ \A m \in sent : job[m.event] # "queued"
    /\ \A e \in Events : \A f \in earlier[e] : job[f] = "done"
    /\ \A e \in Events : job[e] = "queued" => earlier[e] = {}

(* What a job has sent, it will not send again: neither to the user it is  *)
(* at nor to one still to come.                                            *)
SentIsBehind ==
    \A w \in Workers :
        /\ AtAUser(w) => \A x \in left[w] : OwnerOf[x] # user[w]
        /\ \A c \in targets[w] : OwnerOf[c] = user[w]
        /\ \A m \in sent : m.event = event[w] =>
              /\ pc[w] # "load"
              /\ m.channel \notin targets[w]
              /\ \A x \in left[w] : OwnerOf[x] # OwnerOf[m.channel]
              /\ pc[w] = "channels" => OwnerOf[m.channel] # user[w]

(* A row and its message go together, but for the send in hand.            *)
RowsMatchMessages ==
    \A w \in Workers :
        /\ \A m \in sent : m.event = event[w] =>
              \/ pc[w] = "log" /\ result[w].channel = m.channel
              \/ \E row \in written[w] : row.channel = m.channel
        /\ \A row \in written[w] : row.status = "sent" =>
              \E m \in sent : m.event = row.event /\ m.channel = row.channel
        /\ pc[w] = "log" /\ result[w].status = "sent" =>
              \E m \in sent : m.event = event[w] /\ m.channel = result[w].channel

(* The user a job is at was not told lately by the jobs before it.         *)
UserWasQuiet ==
    \A w \in Workers : AtAUser(w) =>
        \A row \in logs : row.event \in earlier[event[w]] /\ SameKey(row, user[w], event[w])
                          => now > row.at + Cooldown

(* Each subscriber of a job is still to come, or in hand, or had all his   *)
(* channels tried, or was told by another job.                             *)
Tried(w, c) == \E row \in written[w] : row.channel = c
InHand(w, c) == c \in targets[w] \/ (pc[w] = "log" /\ result[w].channel = c)

SubscribersAreTracked ==
    \A w \in Workers :
        /\ \A row \in written[w], x \in left[w] : row.user # OwnerOf[x]
        /\ \A x \in subscribed[w] \ left[w] :
              \/ WasTold(w, OwnerOf[x])
              \/ pc[w] = "channels" /\ OwnerOf[x] = user[w]
              \/ \A c \in Usable(OwnerOf[x]) : Tried(w, c) \/ InHand(w, c)

NotifierInv ==
    /\ Control /\ RowsAreOfJobs /\ SentIsBehind /\ RowsMatchMessages
    /\ UserWasQuiet /\ SubscribersAreTracked /\ CooldownBetweenJobs /\ LogIsTrue

-----------------------------------------------------------------------------
LEMMA InitIsSound == Init => NotifierInv
  <1> SUFFICES ASSUME Init PROVE NotifierInv
    OBVIOUS
  <1>1. TypeOK
    BY NotifierAssumption DEF Init, TypeOK
  <1>2. WorkersHoldValues /\ OneWorkerPerJob
    BY DEF Init, WorkersHoldValues, OneWorkerPerJob, Working, AtAUser
  <1>3. RowsAreOfJobs /\ SentIsBehind /\ RowsMatchMessages
    BY DEF Init, RowsAreOfJobs, SentIsBehind, RowsMatchMessages, AtAUser
  <1>4. UserWasQuiet /\ SubscribersAreTracked
    BY DEF Init, UserWasQuiet, SubscribersAreTracked, AtAUser
  <1>5. CooldownBetweenJobs /\ LogIsTrue
    BY DEF Init, CooldownBetweenJobs, LogIsTrue
  <1> QED BY <1>1, <1>2, <1>3, <1>4, <1>5 DEF NotifierInv, Control

(* A job that ends leaves its worker as it was before the first job.       *)
LEMMA FinishKeepsControl ==
    ASSUME Control, NEW w \in Workers, Working(w),
           NEW outcome \in {"done", "dropped", "failed"}, Finish(w, outcome),
           UNCHANGED <<worldVars, earlier>>, logs' \subseteq LogRow, sent' \subseteq Message
    PROVE  Control'
  <1>1. TypeOK'
    BY DEF Control, TypeOK, Finish, Goto, WorkersHoldValues, Working, worldVars
  <1>2. WorkersHoldValues'
    <2> SUFFICES ASSUME NEW v \in Workers
                 PROVE  /\ Working(v)' => event'[v] \in Events /\ job'[event'[v]] = "running"
                        /\ ~Working(v)' => event'[v] = Nothing
                        /\ pc'[v] \in {"idle", "load"} =>
                              left'[v] = {} /\ subscribed'[v] = {} /\ written'[v] = {}
                        /\ AtAUser(v)' => user'[v] \in Users
                        /\ pc'[v] \notin {"send", "log"} => targets'[v] = {}
                        /\ pc'[v] = "log" => result'[v] \in Result
                        /\ pc'[v] # "log" => result'[v] = Nothing
                        /\ left'[v] \subseteq subscribed'[v]
                        /\ started'[v] <= now'
      BY DEF WorkersHoldValues
    <2>1. CASE v = w
      BY <2>1, <1>1 DEF Control, TypeOK, Finish, Goto, Working, AtAUser, worldVars
    <2>2. CASE v # w
      BY <2>2 DEF Control, TypeOK, WorkersHoldValues, OneWorkerPerJob, Finish, Goto,
                  Working, AtAUser, worldVars
    <2> QED BY <2>1, <2>2
  <1>3. OneWorkerPerJob'
    BY NotifierAssumption
    DEF Control, TypeOK, WorkersHoldValues, OneWorkerPerJob, Finish, Goto, Working, worldVars
  <1> QED BY <1>1, <1>2, <1>3 DEF Control

LEMMA TakeKeepsControl ==
    ASSUME Control, NEW w \in Workers, NEW e \in Events, Take(w, e)
    PROVE  Control'
  <1> USE DEF worldVars
  <1>1. TypeOK'
    BY DEF Control, TypeOK, Take, Goto
  <1>2. WorkersHoldValues'
    BY DEF Control, TypeOK, WorkersHoldValues, Take, Goto, Working, AtAUser
  <1>3. OneWorkerPerJob'
    BY NotifierAssumption
    DEF Control, TypeOK, WorkersHoldValues, OneWorkerPerJob, Take, Goto, Working
  <1> QED BY <1>1, <1>2, <1>3 DEF Control

LEMMA ListWatchesKeepsControl ==
    ASSUME Control, NEW w \in Workers, ListWatches(w)
    PROVE  Control'
  <1> USE DEF worldVars
  <1> PICK active \in SUBSET Watches : /\ subscribed' = [subscribed EXCEPT ![w] = active]
                                       /\ left' = [left EXCEPT ![w] = active]
    BY DEF ListWatches
  <1>1. TypeOK'
    BY DEF Control, TypeOK, ListWatches, Goto
  <1>2. WorkersHoldValues'
    BY DEF Control, TypeOK, WorkersHoldValues, ListWatches, Goto, Working, AtAUser
  <1>3. OneWorkerPerJob'
    BY DEF Control, TypeOK, OneWorkerPerJob, ListWatches, Goto, Working
  <1> QED BY <1>1, <1>2, <1>3 DEF Control

(* The three outcomes of exists_recent for the next user.                  *)
Visit(w, x) ==
    /\ Recent(w, OwnerOf[x]) = {}
    /\ left' = [left EXCEPT ![w] = LeftAfter(w, x)]
    /\ user' = [user EXCEPT ![w] = OwnerOf[x]]
    /\ Goto(w, "channels")
    /\ UNCHANGED <<worldVars, sent, earlier, job, logs, event, subscribed, targets, result,
                   written, started>>

Skip(w, x) ==
    /\ \E row \in Recent(w, OwnerOf[x]) : Recent(w, OwnerOf[x]) = {row}
    /\ left' = [left EXCEPT ![w] = LeftAfter(w, x)]
    /\ UNCHANGED <<worldVars, sent, earlier, job, logs, pc, event, subscribed, user, targets,
                   result, written, started>>

LEMMA NextUserOutcomes ==
    ASSUME NEW w \in Workers, NextUser(w)
    PROVE  /\ pc[w] = "users"
           /\ \/ \E x \in left[w] : Visit(w, x)
              \/ \E x \in left[w] : Skip(w, x)
              \/ Abort(w) /\ UNCHANGED <<worldVars, sent, earlier>>
  BY DEF NextUser, Visit, Skip

LEMMA VisitKeepsControl ==
    ASSUME Control, NEW w \in Workers, pc[w] = "users", NEW x \in left[w], Visit(w, x)
    PROVE  Control'
  <1> USE DEF worldVars
  <1>1. OwnerOf[x] \in Users
    BY NotifierAssumption DEF Control, TypeOK
  <1>2. TypeOK'
    BY <1>1 DEF Control, TypeOK, Visit, Goto, LeftAfter
  <1>3. WorkersHoldValues'
    BY <1>1 DEF Control, TypeOK, WorkersHoldValues, Visit, Goto, Working, AtAUser, LeftAfter
  <1>4. OneWorkerPerJob'
    BY DEF Control, TypeOK, OneWorkerPerJob, Visit, Goto, Working
  <1> QED BY <1>2, <1>3, <1>4 DEF Control

LEMMA SkipKeepsControl ==
    ASSUME Control, NEW w \in Workers, pc[w] = "users", NEW x \in left[w], Skip(w, x)
    PROVE  Control'
  <1> USE DEF worldVars
  <1>1. TypeOK'
    BY DEF Control, TypeOK, Skip, LeftAfter
  <1>2. WorkersHoldValues'
    BY DEF Control, TypeOK, WorkersHoldValues, Skip, Working, AtAUser, LeftAfter
  <1>3. OneWorkerPerJob'
    BY DEF Control, OneWorkerPerJob, Skip, Working
  <1> QED BY <1>1, <1>2, <1>3 DEF Control

LEMMA ListChannelsKeepsControl ==
    ASSUME Control, NEW w \in Workers, ListChannels(w)
    PROVE  Control'
  <1> USE DEF worldVars
  <1>1. TypeOK'
    BY DEF Control, TypeOK, ListChannels, Goto, AfterChannel
  <1>2. WorkersHoldValues'
    BY DEF Control, TypeOK, WorkersHoldValues, ListChannels, Goto, AfterChannel, Working, AtAUser
  <1>3. OneWorkerPerJob'
    BY DEF Control, TypeOK, OneWorkerPerJob, ListChannels, Goto, AfterChannel, Working
  <1> QED BY <1>1, <1>2, <1>3 DEF Control

LEMMA SendKeepsControl ==
    ASSUME Control, NEW w \in Workers, Send(w)
    PROVE  Control'
  <1> USE DEF worldVars
  <1> PICK c \in targets[w], status \in SendResults :
          /\ \/ Deliver(w, c)
             \/ status = "failed" /\ UNCHANGED sent
          /\ result' = [result EXCEPT ![w] = [channel |-> c, status |-> status]]
          /\ targets' = [targets EXCEPT ![w] = @ \ {c}]
    BY DEF Send
  <1>1. [channel |-> c, status |-> status] \in Result
    BY DEF Control, TypeOK, Result, SendResults
  <1>2. event[w] \in Events /\ c \in Channels
    BY DEF Control, TypeOK, WorkersHoldValues, Send, Working
  <1>3. sent' \subseteq Message
    BY <1>2 DEF Control, TypeOK, Deliver, Message
  <1> HIDE DEF Result, Message
  <1>4. TypeOK'
    BY <1>1, <1>3 DEF Control, TypeOK, Send, Goto
  <1>5. WorkersHoldValues'
    BY <1>1 DEF Control, TypeOK, WorkersHoldValues, Send, Goto, Working, AtAUser
  <1>6. OneWorkerPerJob'
    BY DEF Control, TypeOK, OneWorkerPerJob, Send, Goto, Working
  <1> QED BY <1>4, <1>5, <1>6 DEF Control

LEMMA LogSendKeepsControl ==
    ASSUME Control, NEW w \in Workers, LogSend(w)
    PROVE  Control'
  <1> USE DEF worldVars
  <1> DEFINE row == [event |-> event[w], user |-> user[w], channel |-> result[w].channel,
                     status |-> RowStatus(result[w]), at |-> now]
  <1>1. /\ pc[w] = "log"
        /\ written' = [written EXCEPT ![w] = @ \cup {row}]
        /\ result' = [result EXCEPT ![w] = Nothing]
        /\ Goto(w, AfterChannel(targets[w]))
    BY DEF LogSend
  <1>2. row \in LogRow
    BY <1>1 DEF Control, TypeOK, WorkersHoldValues, Working, AtAUser, Result, LogRow, RowStatus
  <1> HIDE DEF row
  <1>3. TypeOK'
    BY <1>1, <1>2 DEF Control, TypeOK, LogSend, Goto, AfterChannel
  <1>4. WorkersHoldValues'
    BY <1>1 DEF Control, TypeOK, WorkersHoldValues, LogSend, Goto, AfterChannel, Working, AtAUser
  <1>5. OneWorkerPerJob'
    BY <1>1 DEF Control, TypeOK, OneWorkerPerJob, LogSend, Goto, AfterChannel, Working
  <1> QED BY <1>3, <1>4, <1>5 DEF Control

(* A job that ends without a commit, at whatever point.                    *)
GivesUp(w) ==
    /\ Working(w)
    /\ \E outcome \in {"dropped", "failed"} : Finish(w, outcome)
    /\ UNCHANGED <<worldVars, logs, earlier>>
    /\ \/ UNCHANGED sent
       \/ pc[w] = "send" /\ \E c \in targets[w] : Deliver(w, c)

(* Every step of the system, with the steps that end a job taken together. *)
LEMMA StepKinds ==
    ASSUME [Next]_vars
    PROVE  \/ UNCHANGED vars
           \/ \E w \in Workers :
                 \/ \E e \in Events : Take(w, e)
                 \/ ListWatches(w) \/ ListChannels(w) \/ Send(w) \/ LogSend(w) \/ Commit(w)
                 \/ \E x \in left[w] : pc[w] = "users" /\ (Visit(w, x) \/ Skip(w, x))
                 \/ GivesUp(w)
           \/ \E c \in Channels : DeleteChannel(c)
           \/ Tick
  <1>1. ASSUME NEW w \in Workers, NextUser(w)
        PROVE  \/ \E x \in left[w] : pc[w] = "users" /\ (Visit(w, x) \/ Skip(w, x))
               \/ GivesUp(w)
    BY <1>1, NextUserOutcomes DEF Abort, GivesUp, Working
  <1>2. ASSUME NEW w \in Workers,
               EventMissing(w) \/ SendRaises(w) \/ LogFails(w) \/ Crash(w)
        PROVE  GivesUp(w)
    BY <1>2 DEF EventMissing, SendRaises, LogFails, Crash, Abort, GivesUp, Working
  <1> QED BY <1>1, <1>2 DEF Next, WorkerStep

LEMMA GivesUpKeepsControl ==
    ASSUME Control, NEW w \in Workers, GivesUp(w)
    PROVE  Control'
  <1>1. logs' \subseteq LogRow
    BY DEF GivesUp, Control, TypeOK
  <1>2. sent' \subseteq Message
    BY DEF GivesUp, Control, TypeOK, WorkersHoldValues, Deliver, Message
  <1> QED BY <1>1, <1>2, FinishKeepsControl DEF GivesUp

LEMMA ControlStep ==
    ASSUME Control, [Next]_vars
    PROVE  Control'
  <1>1. ASSUME NEW w \in Workers, Commit(w) PROVE Control'
    <2>1. logs' \subseteq LogRow /\ sent' \subseteq Message
      BY <1>1 DEF Commit, Committed, Control, TypeOK
    <2> QED BY <1>1, <2>1, FinishKeepsControl DEF Commit, Working
  <1>2. ASSUME NEW c \in Channels, DeleteChannel(c) PROVE Control'
    BY <1>2 DEF DeleteChannel, workerVars, jobVars, Control, TypeOK, WorkersHoldValues,
                OneWorkerPerJob, Working, AtAUser
  <1>3. CASE Tick
    <2>1. now' = now + 1 /\ now \in Nat
      BY <1>3 DEF Tick, Control, TypeOK
    <2>2. TypeOK'
      BY <1>3, <2>1 DEF Tick, workerVars, jobVars, Control, TypeOK
    <2>3. \A w \in Workers : started'[w] <= now'
      BY <1>3, <2>1 DEF Tick, workerVars, jobVars, Control, TypeOK, WorkersHoldValues
    <2> QED BY <1>3, <2>2, <2>3 DEF Tick, workerVars, jobVars, Control, WorkersHoldValues,
                OneWorkerPerJob, Working, AtAUser
  <1>4. CASE UNCHANGED vars
    BY <1>4 DEF vars, worldVars, jobVars, Control, TypeOK, WorkersHoldValues,
                OneWorkerPerJob, Working, AtAUser
  <1> QED BY <1>1, <1>2, <1>3, <1>4, StepKinds, TakeKeepsControl, ListWatchesKeepsControl,
             VisitKeepsControl, SkipKeepsControl, ListChannelsKeepsControl, SendKeepsControl,
             LogSendKeepsControl, GivesUpKeepsControl

(* The values stay in their sets.                                          *)
THEOREM NotifierTypeCorrect == Spec => []TypeOK
<1>1. Init => Control
  BY InitIsSound DEF NotifierInv
<1>2. Control /\ [Next]_vars => Control'
  BY ControlStep
<1>3. Control => TypeOK
  BY DEF Control
<1> QED BY <1>1, <1>2, <1>3, PTL DEF Spec

-----------------------------------------------------------------------------
(* Rows, messages and the jobs they belong to.                             *)

LEMMA RowsAreOfJobsStep ==
    ASSUME Control, RowsAreOfJobs, [Next]_vars
    PROVE  RowsAreOfJobs'
  <1> USE DEF worldVars
  <1>1. ASSUME NEW w \in Workers, NEW e \in Events, Take(w, e) PROVE RowsAreOfJobs'
    BY <1>1 DEF Take, RowsAreOfJobs, Control, TypeOK, WorkersHoldValues, Working, LogRow, Message
  <1>2. ASSUME NEW w \in Workers, ListWatches(w) \/ ListChannels(w) PROVE RowsAreOfJobs'
    BY <1>2 DEF ListWatches, ListChannels, RowsAreOfJobs
  <1>3. ASSUME NEW w \in Workers, NEW x \in left[w], Visit(w, x) \/ Skip(w, x)
        PROVE  RowsAreOfJobs'
    BY <1>3 DEF Visit, Skip, RowsAreOfJobs
  <1>4. ASSUME NEW w \in Workers, Send(w) PROVE RowsAreOfJobs'
    BY <1>4 DEF Send, Deliver, RowsAreOfJobs, Control, TypeOK, WorkersHoldValues, Working
  <1>5. ASSUME NEW w \in Workers, LogSend(w) PROVE RowsAreOfJobs'
    BY <1>5 DEF LogSend, RowsAreOfJobs, Control, TypeOK
  <1>6. ASSUME NEW w \in Workers, Commit(w) PROVE RowsAreOfJobs'
    BY <1>6 DEF Commit, Committed, Finish, RowsAreOfJobs, Control, TypeOK, WorkersHoldValues,
                Working, LogRow, Message
  <1>7. ASSUME NEW w \in Workers, GivesUp(w) PROVE RowsAreOfJobs'
    BY <1>7 DEF GivesUp, Finish, Deliver, RowsAreOfJobs, Control, TypeOK, WorkersHoldValues,
                LogRow, Message
  <1>8. CASE Tick \/ (\E c \in Channels : DeleteChannel(c)) \/ UNCHANGED vars
    BY <1>8 DEF Tick, DeleteChannel, vars, workerVars, jobVars, RowsAreOfJobs
  <1> QED BY <1>1, <1>2, <1>3, <1>4, <1>5, <1>6, <1>7, <1>8, StepKinds

(* Only the worker of a job changes what the job holds.                    *)
LEMMA SentIsBehindStep ==
    ASSUME Control, RowsAreOfJobs, SentIsBehind, [Next]_vars
    PROVE  SentIsBehind'
  <1> USE DEF worldVars
  <1>1. ASSUME NEW w \in Workers, NEW e \in Events, Take(w, e) PROVE SentIsBehind'
    BY <1>1, NotifierAssumption
    DEF Take, Goto, SentIsBehind, RowsAreOfJobs, Control, TypeOK, WorkersHoldValues,
        Working, AtAUser
  <1>2. ASSUME NEW w \in Workers, ListWatches(w) PROVE SentIsBehind'
    BY <1>2 DEF ListWatches, Goto, SentIsBehind, Control, TypeOK, WorkersHoldValues, AtAUser
  <1>3. ASSUME NEW w \in Workers, pc[w] = "users", NEW x \in left[w], Visit(w, x)
        PROVE  SentIsBehind'
    BY <1>3 DEF Visit, LeftAfter, Goto, SentIsBehind, Control, TypeOK, WorkersHoldValues, AtAUser
  <1>4. ASSUME NEW w \in Workers, pc[w] = "users", NEW x \in left[w], Skip(w, x)
        PROVE  SentIsBehind'
    BY <1>4 DEF Skip, LeftAfter, SentIsBehind, Control, TypeOK, AtAUser
  <1>5. ASSUME NEW w \in Workers, ListChannels(w) PROVE SentIsBehind'
    BY <1>5 DEF ListChannels, Goto, AfterChannel, SentIsBehind, Control, TypeOK, AtAUser
  <1>6. ASSUME NEW w \in Workers, Send(w) PROVE SentIsBehind'
    BY <1>6 DEF Send, Deliver, Goto, SentIsBehind, Control, TypeOK, OneWorkerPerJob, Working,
                AtAUser
  <1>7. ASSUME NEW w \in Workers, LogSend(w) PROVE SentIsBehind'
    BY <1>7 DEF LogSend, Goto, AfterChannel, SentIsBehind, Control, TypeOK, AtAUser
  <1>8. ASSUME NEW w \in Workers, Commit(w) PROVE SentIsBehind'
    BY <1>8 DEF Commit, Finish, Goto, SentIsBehind, Control, TypeOK, AtAUser
  <1>9. ASSUME NEW w \in Workers, GivesUp(w) PROVE SentIsBehind'
    BY <1>9 DEF GivesUp, Finish, Goto, Deliver, SentIsBehind, Control, TypeOK,
                OneWorkerPerJob, Working, AtAUser
  <1>10. CASE Tick \/ (\E c \in Channels : DeleteChannel(c)) \/ UNCHANGED vars
    BY <1>10 DEF Tick, DeleteChannel, vars, workerVars, jobVars, SentIsBehind, AtAUser
  <1> QED BY <1>1, <1>2, <1>3, <1>4, <1>5, <1>6, <1>7, <1>8, <1>9, <1>10, StepKinds

LEMMA RowsMatchMessagesStep ==
    ASSUME Control, RowsAreOfJobs, SentIsBehind, RowsMatchMessages, [Next]_vars
    PROVE  RowsMatchMessages'
  <1> USE DEF worldVars
  <1>1. ASSUME NEW w \in Workers, NEW e \in Events, Take(w, e) PROVE RowsMatchMessages'
    BY <1>1 DEF Take, Goto, RowsMatchMessages, RowsAreOfJobs, Control, TypeOK, WorkersHoldValues
  <1>2. ASSUME NEW w \in Workers, ListWatches(w) \/ ListChannels(w) PROVE RowsMatchMessages'
    BY <1>2 DEF ListWatches, ListChannels, Goto, AfterChannel, RowsMatchMessages, Control, TypeOK
  <1>3. ASSUME NEW w \in Workers, pc[w] = "users", NEW x \in left[w], Visit(w, x) \/ Skip(w, x)
        PROVE  RowsMatchMessages'
    BY <1>3 DEF Visit, Skip, Goto, RowsMatchMessages, Control, TypeOK
  <1>4. ASSUME NEW w \in Workers, Send(w) PROVE RowsMatchMessages'
    <2> DEFINE message(c) == [event |-> event[w], channel |-> c]
    <2>1. PICK c \in targets[w], status \in {"sent", "failed"} :
             /\ sent' = sent \cup {message(c)} \/ (status = "failed" /\ sent' = sent)
             /\ result' = [result EXCEPT ![w] = [channel |-> c, status |-> status]]
      BY <1>4 DEF Send, SendResults, Deliver
    <2>2. /\ pc[w] = "send" /\ pc' = [pc EXCEPT ![w] = "log"]
          /\ event' = event /\ written' = written
      BY <1>4 DEF Send, Goto
    <2>3. /\ message(c).event = event[w] /\ message(c).channel = c
          /\ result'[w].channel = c /\ result'[w].status = status
      BY <2>1 DEF Control, TypeOK
    <2> HIDE DEF message
    <2>4. ASSUME NEW v \in Workers, v # w, NEW m \in sent', m.event = event[v]
          PROVE  m \in sent
      BY <2>1, <2>2, <2>3, <2>4 DEF Control, OneWorkerPerJob, Working
    <2> QED BY <2>1, <2>2, <2>3, <2>4 DEF RowsMatchMessages, Control, TypeOK
  <1>5. ASSUME NEW w \in Workers, LogSend(w) PROVE RowsMatchMessages'
    <2> DEFINE row == [event |-> event[w], user |-> user[w], channel |-> result[w].channel,
                       status |-> result[w].status, at |-> now]
    <2>1. /\ pc[w] = "log" /\ written' = [written EXCEPT ![w] = @ \cup {row}]
          /\ \E where \in {"users", "send"} : pc' = [pc EXCEPT ![w] = where]
          /\ result' = [result EXCEPT ![w] = Nothing]
          /\ event' = event /\ sent' = sent
      BY <1>5 DEF LogSend, RowStatus, Goto, AfterChannel
    <2>2. row.event = event[w] /\ row.channel = result[w].channel /\ row.status = result[w].status
      OBVIOUS
    <2> HIDE DEF row
    <2> QED BY <2>1, <2>2 DEF RowsMatchMessages, Control, TypeOK
  <1>6. ASSUME NEW w \in Workers, Commit(w) PROVE RowsMatchMessages'
    BY <1>6, NotifierAssumption
    DEF Commit, Finish, Goto, RowsMatchMessages, Control, TypeOK, Message
  <1>7. ASSUME NEW w \in Workers, GivesUp(w) PROVE RowsMatchMessages'
    BY <1>7, NotifierAssumption
    DEF GivesUp, Finish, Deliver, Goto, RowsMatchMessages, Control, TypeOK, Message,
        OneWorkerPerJob, WorkersHoldValues, Working
  <1>8. CASE Tick \/ (\E c \in Channels : DeleteChannel(c)) \/ UNCHANGED vars
    BY <1>8 DEF Tick, DeleteChannel, vars, workerVars, jobVars, RowsMatchMessages
  <1> QED BY <1>1, <1>2, <1>3, <1>4, <1>5, <1>6, <1>7, <1>8, StepKinds

LEMMA LogIsTrueStep ==
    ASSUME Control, RowsAreOfJobs, RowsMatchMessages, LogIsTrue, [Next]_vars
    PROVE  LogIsTrue'
  <1> USE DEF worldVars
  <1>1. ASSUME NEW w \in Workers, NEW e \in Events, Take(w, e) PROVE LogIsTrue'
    BY <1>1 DEF Take, LogIsTrue, Control, TypeOK, LogRow, Message
  <1>2. ASSUME NEW w \in Workers, ListWatches(w) \/ ListChannels(w) \/ LogSend(w)
        PROVE  LogIsTrue'
    BY <1>2 DEF ListWatches, ListChannels, LogSend, LogIsTrue
  <1>3. ASSUME NEW w \in Workers, NEW x \in left[w], Visit(w, x) \/ Skip(w, x)
        PROVE  LogIsTrue'
    BY <1>3 DEF Visit, Skip, LogIsTrue
  <1>4. ASSUME NEW w \in Workers, Send(w) PROVE LogIsTrue'
    BY <1>4 DEF Send, Deliver, LogIsTrue, Control, WorkersHoldValues, Working
  <1>5. ASSUME NEW w \in Workers, Commit(w) PROVE LogIsTrue'
    <2>1. /\ pc[w] = "users" /\ logs' = logs \cup written[w] /\ sent' = sent
          /\ job' = [job EXCEPT ![event[w]] = "done"]
      BY <1>5 DEF Commit, Committed, Finish
    <2>2. ASSUME NEW m \in sent', job'[m.event] = "done"
          PROVE  \E row \in logs' : row.event = m.event /\ row.channel = m.channel
      <3>1. CASE m.event = event[w]
        BY <2>1, <2>2, <3>1 DEF RowsMatchMessages, RowsAreOfJobs
      <3>2. CASE m.event # event[w]
        BY <2>1, <2>2, <3>2 DEF LogIsTrue, Control, TypeOK, Message
      <3> QED BY <3>1, <3>2
    <2>3. ASSUME NEW row \in logs'
          PROVE  /\ job'[row.event] = "done"
                 /\ row.status = "sent" =>
                        \E m \in sent' : m.event = row.event /\ m.channel = row.channel
      <3>1. CASE row \in logs
        BY <2>1, <3>1 DEF LogIsTrue, Control, TypeOK, LogRow
      <3>2. CASE row \in written[w]
        BY <2>1, <3>2 DEF RowsMatchMessages, RowsAreOfJobs, Control, TypeOK, WorkersHoldValues,
                          Working
      <3> QED BY <2>1, <2>3, <3>1, <3>2
    <2> QED BY <2>2, <2>3 DEF LogIsTrue
  <1>6. ASSUME NEW w \in Workers, GivesUp(w) PROVE LogIsTrue'
    BY <1>6 DEF GivesUp, Finish, Deliver, LogIsTrue, RowsAreOfJobs, Control, TypeOK,
                WorkersHoldValues, Working, LogRow, Message
  <1>7. CASE Tick \/ (\E c \in Channels : DeleteChannel(c)) \/ UNCHANGED vars
    BY <1>7 DEF Tick, DeleteChannel, vars, workerVars, jobVars, LogIsTrue
  <1> QED BY <1>1, <1>2, <1>3, <1>4, <1>5, <1>6, <1>7, StepKinds

-----------------------------------------------------------------------------
(* The cooldown.                                                           *)

LEMMA UserWasQuietStep ==
    ASSUME Control, RowsAreOfJobs, UserWasQuiet, [Next]_vars
    PROVE  UserWasQuiet'
  <1> USE DEF worldVars
  <1>1. ASSUME NEW w \in Workers, NEW e \in Events, Take(w, e) PROVE UserWasQuiet'
    BY <1>1 DEF Take, Goto, UserWasQuiet, Control, TypeOK, WorkersHoldValues, Working, AtAUser,
                SameKey
  <1>2. ASSUME NEW w \in Workers, ListWatches(w) PROVE UserWasQuiet'
    BY <1>2 DEF ListWatches, Goto, UserWasQuiet, Control, TypeOK, AtAUser, SameKey
  <1>3. ASSUME NEW w \in Workers, pc[w] = "users", NEW x \in left[w], Visit(w, x)
        PROVE  UserWasQuiet'
    <2>1. ASSUME NEW row \in logs, SameKey(row, OwnerOf[x], event[w])
          PROVE  now > row.at + Cooldown
      <3>1. row \notin Recent(w, OwnerOf[x])
        BY <1>3 DEF Visit
      <3>2. row.at \in Nat /\ now \in Nat /\ Cooldown \in Nat
        BY NotifierAssumption DEF Control, TypeOK, LogRow
      <3> QED BY <2>1, <3>1, <3>2 DEF Recent, IsRecent
    <2> QED BY <1>3, <2>1 DEF Visit, Goto, UserWasQuiet, Control, TypeOK, AtAUser, SameKey
  <1>4. ASSUME NEW w \in Workers, NEW x \in left[w], Skip(w, x) PROVE UserWasQuiet'
    BY <1>4 DEF Skip, UserWasQuiet, AtAUser, SameKey
  <1>5. ASSUME NEW w \in Workers, ListChannels(w) \/ Send(w) \/ LogSend(w) PROVE UserWasQuiet'
    BY <1>5 DEF ListChannels, Send, LogSend, Goto, AfterChannel, UserWasQuiet, Control, TypeOK,
                AtAUser, SameKey
  <1>6. ASSUME NEW w \in Workers, Commit(w) PROVE UserWasQuiet'
    <2>1. /\ logs' = logs \cup written[w] /\ earlier' = earlier /\ now' = now
          /\ pc' = [pc EXCEPT ![w] = "idle"] /\ event' = [event EXCEPT ![w] = Nothing]
          /\ user' = [user EXCEPT ![w] = Nothing]
      BY <1>6 DEF Commit, Committed, Finish, Goto
    <2>2. ASSUME NEW v \in Workers, AtAUser(v), NEW row \in written[w]
          PROVE  row.event \notin earlier[event[v]]
      BY <1>6, <2>2 DEF Commit, RowsAreOfJobs, Control, TypeOK, WorkersHoldValues, Working, AtAUser
    <2> QED BY <2>1, <2>2 DEF UserWasQuiet, Control, TypeOK, AtAUser, SameKey
  <1>7. ASSUME NEW w \in Workers, GivesUp(w) PROVE UserWasQuiet'
    BY <1>7 DEF GivesUp, Finish, Goto, UserWasQuiet, Control, TypeOK, AtAUser, SameKey
  <1>8. CASE Tick
    <2>1. now' = now + 1 /\ now \in Nat /\ \A row \in logs : row.at \in Nat
      BY <1>8 DEF Tick, Control, TypeOK, LogRow
    <2> QED BY <1>8, <2>1, NotifierAssumption
            DEF Tick, workerVars, jobVars, UserWasQuiet, AtAUser, SameKey
  <1>9. CASE (\E c \in Channels : DeleteChannel(c)) \/ UNCHANGED vars
    BY <1>9 DEF DeleteChannel, vars, workerVars, jobVars, UserWasQuiet, AtAUser, SameKey
  <1> QED BY <1>1, <1>2, <1>3, <1>4, <1>5, <1>6, <1>7, <1>8, <1>9, StepKinds

(* The rows of the log, and of the open transactions.                      *)
Rows == logs \cup UNION {written[w] : w \in Workers}

LEMMA CooldownStep ==
    ASSUME Control, RowsAreOfJobs, UserWasQuiet, CooldownBetweenJobs, [Next]_vars
    PROVE  CooldownBetweenJobs'
  <1> USE DEF worldVars
  <1>1. \A row1, row2 \in Rows :
           row1.event \in earlier[row2.event] /\ SameKey(row1, row2.user, row2.event)
           => row2.at > row1.at + Cooldown
    BY DEF CooldownBetweenJobs, Rows
  <1>2. ASSUME \A row1, row2 \in Rows' :
                  row1.event \in earlier'[row2.event] /\ SameKey(row1, row2.user, row2.event)
                  => row2.at > row1.at + Cooldown
        PROVE  CooldownBetweenJobs'
    BY <1>2 DEF CooldownBetweenJobs, Rows, SameKey
  <1>3. ASSUME Rows' \subseteq Rows, earlier' = earlier PROVE CooldownBetweenJobs'
    BY <1>1, <1>2, <1>3
  <1>4. ASSUME NEW w \in Workers, NEW e \in Events, Take(w, e) PROVE CooldownBetweenJobs'
    <2>1. Rows' = Rows /\ \A f \in Events \ {e} : earlier'[f] = earlier[f]
      BY <1>4 DEF Take, Rows, Control, TypeOK
    <2>2. ASSUME NEW row \in Rows PROVE row.event \in Events \ {e}
      BY <1>4 DEF Take, Rows, RowsAreOfJobs, Control, TypeOK, WorkersHoldValues, Working, LogRow
    <2> QED BY <1>1, <1>2, <2>1, <2>2
  <1>5. ASSUME NEW w \in Workers, LogSend(w) PROVE CooldownBetweenJobs'
    <2> DEFINE row == [event |-> event[w], user |-> user[w], channel |-> result[w].channel,
                       status |-> result[w].status, at |-> now]
    <2>1. /\ pc[w] = "log" /\ written' = [written EXCEPT ![w] = @ \cup {row}]
          /\ logs' = logs /\ earlier' = earlier
      BY <1>5 DEF LogSend, RowStatus
    <2>2. row.event = event[w] /\ row.user = user[w] /\ row.at = now
      OBVIOUS
    <2> HIDE DEF row
    <2>3. Rows' \subseteq Rows \cup {row}
      BY <2>1 DEF Rows, Control, TypeOK
    <2>4. event[w] \in Events /\ job[event[w]] = "running"
      BY <2>1 DEF Control, WorkersHoldValues, Working
    <2>5. ASSUME NEW row1 \in Rows, row1.event \in earlier[row.event],
                 SameKey(row1, row.user, row.event)
          PROVE  row.at > row1.at + Cooldown
      <3>1. job[row1.event] = "done"
        BY <2>2, <2>4, <2>5 DEF RowsAreOfJobs
      <3>2. row1 \in logs
        BY <3>1 DEF Rows, RowsAreOfJobs, Control, WorkersHoldValues, Working, TypeOK
      <3> QED BY <2>1, <2>2, <2>5, <3>2 DEF UserWasQuiet, AtAUser
    <2>6. ASSUME NEW row2 \in Rows \cup {row} PROVE row.event \notin earlier[row2.event]
      BY <2>2, <2>4 DEF Rows, RowsAreOfJobs, Control, TypeOK, LogRow
    <2> QED BY <1>1, <1>2, <2>1, <2>3, <2>5, <2>6
  <1>6. ASSUME NEW w \in Workers, Commit(w) PROVE CooldownBetweenJobs'
    BY <1>3, <1>6 DEF Commit, Committed, Finish, Rows, Control, TypeOK
  <1>7. ASSUME NEW w \in Workers, GivesUp(w) PROVE CooldownBetweenJobs'
    BY <1>3, <1>7 DEF GivesUp, Finish, Rows, Control, TypeOK
  <1>8. ASSUME NEW w \in Workers,
               \/ ListWatches(w) \/ ListChannels(w) \/ Send(w)
               \/ \E x \in left[w] : Visit(w, x) \/ Skip(w, x)
        PROVE  CooldownBetweenJobs'
    BY <1>3, <1>8 DEF ListWatches, ListChannels, Send, Visit, Skip, Rows
  <1>9. CASE Tick \/ (\E c \in Channels : DeleteChannel(c)) \/ UNCHANGED vars
    BY <1>3, <1>9 DEF Tick, DeleteChannel, vars, workerVars, jobVars, Rows
  <1> QED BY <1>4, <1>5, <1>6, <1>7, <1>8, <1>9, StepKinds

-----------------------------------------------------------------------------
(* Every subscriber is seen.                                               *)

(* The subscribers of another worker's job are tracked as before, when the *)
(* log only grows and channels only disappear.                             *)
Tracked(w) ==
    /\ \A row \in written[w], x \in left[w] : row.user # OwnerOf[x]
    /\ \A x \in subscribed[w] \ left[w] :
          \/ WasTold(w, OwnerOf[x])
          \/ pc[w] = "channels" /\ OwnerOf[x] = user[w]
          \/ \A c \in Usable(OwnerOf[x]) : Tried(w, c) \/ InHand(w, c)

Undisturbed(w) ==
    /\ left'[w] = left[w] /\ subscribed'[w] = subscribed[w] /\ written'[w] = written[w]
    /\ pc'[w] = pc[w] /\ user'[w] = user[w] /\ targets'[w] = targets[w]
    /\ result'[w] = result[w] /\ event'[w] = event[w] /\ started'[w] = started[w]

Monotone == logs \subseteq logs' /\ channels' \subseteq channels

LEMMA WasToldStays ==
    ASSUME NEW w \in Workers, NEW u, WasTold(w, u), logs \subseteq logs',
           event'[w] = event[w], started'[w] = started[w]
    PROVE  WasTold(w, u)'
  BY DEF WasTold, SameKey

LEMMA UndisturbedIsTracked ==
    ASSUME NEW w \in Workers, Tracked(w), Undisturbed(w), Monotone
    PROVE  Tracked(w)'
  BY WasToldStays DEF Tracked, Undisturbed, Monotone, Usable, Tried, InHand

LEMMA OthersAreUndisturbed ==
    ASSUME Control, [Next]_vars
    PROVE  /\ Monotone
           /\ \/ \A v \in Workers : Undisturbed(v)
              \/ \E w \in Workers :
                    /\ \A v \in Workers \ {w} : Undisturbed(v)
                    /\ \/ \E e \in Events : Take(w, e)
                       \/ ListWatches(w) \/ ListChannels(w) \/ Send(w) \/ LogSend(w) \/ Commit(w)
                       \/ \E x \in left[w] : pc[w] = "users" /\ (Visit(w, x) \/ Skip(w, x))
                       \/ GivesUp(w)
  <1> USE DEF worldVars, Monotone, Undisturbed, Control, TypeOK
  <1>1. ASSUME NEW w \in Workers, NEW e \in Events, Take(w, e)
        PROVE  Monotone /\ \A v \in Workers \ {w} : Undisturbed(v)
    BY <1>1 DEF Take, Goto
  <1>2. ASSUME NEW w \in Workers, ListWatches(w) \/ ListChannels(w)
        PROVE  Monotone /\ \A v \in Workers \ {w} : Undisturbed(v)
    BY <1>2 DEF ListWatches, ListChannels, Goto
  <1>3. ASSUME NEW w \in Workers, Send(w) \/ LogSend(w)
        PROVE  Monotone /\ \A v \in Workers \ {w} : Undisturbed(v)
    BY <1>3 DEF Send, LogSend, Goto
  <1>4. ASSUME NEW w \in Workers, Commit(w) \/ GivesUp(w)
        PROVE  Monotone /\ \A v \in Workers \ {w} : Undisturbed(v)
    BY <1>4 DEF Commit, Committed, GivesUp, Finish, Goto
  <1>5. ASSUME NEW w \in Workers, NEW x \in left[w], Visit(w, x) \/ Skip(w, x)
        PROVE  Monotone /\ \A v \in Workers \ {w} : Undisturbed(v)
    BY <1>5 DEF Visit, Skip, Goto
  <1>6. CASE Tick \/ (\E c \in Channels : DeleteChannel(c)) \/ UNCHANGED vars
    BY <1>6 DEF Tick, DeleteChannel, vars, workerVars, jobVars
  <1> QED BY <1>1, <1>2, <1>3, <1>4, <1>5, <1>6, StepKinds

(* A row that makes a job skip a user is of another job, and is recent     *)
(* enough for this one: the job's own rows are of users it has seen.       *)
LEMMA SkippedWasTold ==
    ASSUME Control, NEW w \in Workers, Tracked(w), NEW x \in left[w], Skip(w, x)
    PROVE  WasTold(w, OwnerOf[x])
  <1>1. PICK row \in Recent(w, OwnerOf[x]) : TRUE
    BY DEF Skip
  <1>2. row \in logs \cup written[w] /\ SameKey(row, OwnerOf[x], event[w])
        /\ row.at >= now - Cooldown
    BY DEF Recent, IsRecent
  <1>3. row \in logs
    BY <1>2 DEF Tracked, SameKey
  <1>4. row.at \in Nat /\ now \in Nat /\ started[w] \in Nat /\ started[w] <= now /\ Cooldown \in Nat
    BY <1>3, NotifierAssumption DEF Control, TypeOK, WorkersHoldValues, LogRow
  <1>5. row.at >= started[w] - Cooldown
    BY <1>2, <1>4
  <1> QED BY <1>2, <1>3, <1>5 DEF WasTold

LEMMA SubscribersAreTrackedStep ==
    ASSUME Control, RowsAreOfJobs, SentIsBehind, SubscribersAreTracked, [Next]_vars
    PROVE  SubscribersAreTracked'
  <1> USE DEF worldVars
  <1>1. \A w \in Workers : Tracked(w)
    BY DEF SubscribersAreTracked, Tracked
  <1>2. ASSUME NEW w \in Workers, NEW e \in Events, Take(w, e) PROVE Tracked(w)'
    BY <1>2 DEF Take, Tracked, Control, TypeOK, WorkersHoldValues
  <1>3. ASSUME NEW w \in Workers, ListWatches(w) PROVE Tracked(w)'
    BY <1>3 DEF ListWatches, Tracked, Control, TypeOK, WorkersHoldValues
  <1>4. ASSUME NEW w \in Workers, pc[w] = "users", NEW x \in left[w], Visit(w, x)
        PROVE  Tracked(w)'
    <2>1. /\ left'[w] = {y \in left[w] : OwnerOf[y] # OwnerOf[x]}
          /\ user'[w] = OwnerOf[x] /\ pc'[w] = "channels"
          /\ UNCHANGED <<channels, logs, event, subscribed, targets, result, written, started>>
      BY <1>4 DEF Visit, LeftAfter, Goto, Control, TypeOK
    <2>2. ASSUME NEW y \in subscribed[w] \ left[w]
          PROVE  WasTold(w, OwnerOf[y])' \/ \A c \in Usable(OwnerOf[y])' : Tried(w, c)'
      BY <1>1, <1>4, <2>1, <2>2, WasToldStays
      DEF Tracked, Usable, Tried, InHand, Control, WorkersHoldValues
    <2> QED BY <1>1, <2>1, <2>2 DEF Tracked, Usable, Tried, InHand
  <1>5. ASSUME NEW w \in Workers, pc[w] = "users", NEW x \in left[w], Skip(w, x)
        PROVE  Tracked(w)'
    <2>1. WasTold(w, OwnerOf[x])
      BY <1>1, <1>5, SkippedWasTold
    <2>2. /\ left'[w] = {y \in left[w] : OwnerOf[y] # OwnerOf[x]}
          /\ UNCHANGED <<channels, logs, event, subscribed, pc, user, targets, result, written,
                         started>>
      BY <1>5 DEF Skip, LeftAfter, Control, TypeOK
    <2> QED BY <1>1, <2>1, <2>2, WasToldStays DEF Tracked, Usable, Tried, InHand
  <1>6. ASSUME NEW w \in Workers, ListChannels(w) PROVE Tracked(w)'
    <2>1. /\ pc[w] = "channels" /\ pc'[w] \in {"users", "send"}
          /\ targets'[w] = Usable(user[w])
          /\ UNCHANGED <<channels, logs, event, subscribed, left, user, result, written, started>>
      BY <1>6 DEF ListChannels, Goto, AfterChannel, Usable, Control, TypeOK
    <2> QED BY <1>1, <2>1, WasToldStays
            DEF Tracked, Usable, Tried, InHand, Control, WorkersHoldValues
  <1>7. ASSUME NEW w \in Workers, Send(w) PROVE Tracked(w)'
    <2>1. PICK c \in targets[w] : result'[w].channel = c /\ targets'[w] = targets[w] \ {c}
      BY <1>7 DEF Send, Control, TypeOK
    <2>2. /\ pc[w] = "send" /\ pc'[w] = "log"
          /\ UNCHANGED <<channels, logs, event, subscribed, left, user, written, started>>
      BY <1>7 DEF Send, Goto, Control, TypeOK
    <2> QED BY <1>1, <2>1, <2>2, WasToldStays DEF Tracked, Usable, Tried, InHand
  <1>8. ASSUME NEW w \in Workers, LogSend(w) PROVE Tracked(w)'
    <2> DEFINE row == [event |-> event[w], user |-> user[w], channel |-> result[w].channel,
                       status |-> result[w].status, at |-> now]
    <2>1. /\ pc[w] = "log" /\ pc'[w] \in {"users", "send"} /\ written'[w] = written[w] \cup {row}
          /\ UNCHANGED <<channels, logs, event, subscribed, left, user, targets, started>>
      BY <1>8 DEF LogSend, RowStatus, Goto, AfterChannel, Control, TypeOK
    <2>2. row.user = user[w] /\ row.channel = result[w].channel
      OBVIOUS
    <2> HIDE DEF row
    <2>3. \A x \in left[w] : OwnerOf[x] # user[w]
      BY <2>1 DEF SentIsBehind, AtAUser
    <2>4. \A c \in Channels : Tried(w, c) \/ InHand(w, c) => Tried(w, c)' \/ InHand(w, c)'
      BY <2>1, <2>2 DEF Tried, InHand
    <2>5. \A u \in Users : Usable(u)' = Usable(u) /\ Usable(u) \subseteq Channels
      BY <2>1 DEF Usable, Control, TypeOK
    <2>6. \A x \in subscribed[w] : OwnerOf[x] \in Users
      BY NotifierAssumption DEF Control, TypeOK
    <2> QED BY <1>1, <2>1, <2>2, <2>3, <2>4, <2>5, <2>6, WasToldStays DEF Tracked
  <1>9. ASSUME NEW w \in Workers, Commit(w) \/ GivesUp(w) PROVE Tracked(w)'
    <2>1. left'[w] = {} /\ subscribed'[w] = {} /\ written'[w] = {}
      BY <1>9 DEF Commit, GivesUp, Finish, Control, TypeOK
    <2> QED BY <2>1 DEF Tracked
  <1>10. \A w \in Workers : Tracked(w)'
    BY <1>1, <1>2, <1>3, <1>4, <1>5, <1>6, <1>7, <1>8, <1>9, OthersAreUndisturbed,
       UndisturbedIsTracked
  <1> QED BY <1>10 DEF SubscribersAreTracked, Tracked, WasTold, SameKey, Usable, Tried, InHand

-----------------------------------------------------------------------------
(* The theorems.                                                           *)

LEMMA NotifierInvStep ==
    ASSUME NotifierInv, [Next]_vars
    PROVE  NotifierInv'
  BY ControlStep, RowsAreOfJobsStep, SentIsBehindStep, RowsMatchMessagesStep, UserWasQuietStep,
     SubscribersAreTrackedStep, CooldownStep, LogIsTrueStep
  DEF NotifierInv

LEMMA NotifierInvHolds == Spec => []NotifierInv
<1>1. NotifierInv /\ [Next]_vars => NotifierInv'
  BY NotifierInvStep
<1> QED BY <1>1, InitIsSound, PTL DEF Spec

(* The log is a true account of the jobs that ended normally, although the *)
(* messages leave one by one and the rows appear together.                 *)
THEOREM TheLogIsTrue == Spec => []LogIsTrue
<1>1. NotifierInv => LogIsTrue
  BY DEF NotifierInv
<1> QED BY <1>1, NotifierInvHolds, PTL

(* The cooldown holds between jobs that do not overlap.                    *)
THEOREM CooldownIsKept == Spec => []CooldownBetweenJobs
<1>1. NotifierInv => CooldownBetweenJobs
  BY DEF NotifierInv
<1> QED BY <1>1, NotifierInvHolds, PTL

(* A job sends to a channel once, and no other job sends the same event.   *)
THEOREM EachChannelIsSentOnce == Spec => SentOnce
<1> DEFINE Once == \A w \in Workers : result[w] = Nothing /\ result'[w] # Nothing =>
                      [event |-> event[w], channel |-> result'[w].channel] \notin sent
<1>1. NotifierInv /\ [Next]_vars => Once
  <2> SUFFICES ASSUME NotifierInv, [Next]_vars, NEW w \in Workers,
                      result[w] = Nothing, result'[w] # Nothing
               PROVE  [event |-> event[w], channel |-> result'[w].channel] \notin sent
    OBVIOUS
  <2>1. \/ Undisturbed(w)
        \/ \E e \in Events : Take(w, e)
        \/ ListWatches(w) \/ ListChannels(w) \/ Send(w) \/ LogSend(w) \/ Commit(w)
        \/ \E x \in left[w] : pc[w] = "users" /\ (Visit(w, x) \/ Skip(w, x))
        \/ GivesUp(w)
    BY OthersAreUndisturbed DEF NotifierInv
  <2>2. Send(w)
    BY <2>1 DEF Undisturbed, Take, ListWatches, ListChannels, LogSend, Commit, GivesUp, Finish,
                Visit, Skip, NotifierInv, Control, TypeOK
  <2>3. PICK c \in targets[w] : result'[w].channel = c
    BY <2>2 DEF Send, NotifierInv, Control, TypeOK
  <2>4. \A m \in sent : m.event = event[w] => m.channel # c
    BY <2>3 DEF NotifierInv, SentIsBehind
  <2> QED BY <2>3, <2>4
<1>2. NotifierInv /\ [Next]_vars => [Once]_vars
  BY <1>1
<1> QED BY <1>2, NotifierInvHolds, PTL DEF Spec, SentOnce

(* A job that commits passed nobody over.                                  *)
THEOREM NobodyIsPassedOver == Spec => NobodyPassedOver
<1> DEFINE Served == \A w \in Workers : Ends(w, "done") =>
                        \A x \in subscribed[w] :
                           \/ \A c \in Usable(OwnerOf[x]) :
                                 \E row \in logs' : row.event = event[w] /\ row.channel = c
                           \/ WasTold(w, OwnerOf[x])
<1>1. NotifierInv /\ [Next]_vars => Served
  <2> SUFFICES ASSUME NotifierInv, [Next]_vars, NEW w \in Workers, Ends(w, "done"),
                      NEW x \in subscribed[w], ~WasTold(w, OwnerOf[x]),
                      NEW c \in Usable(OwnerOf[x])
               PROVE  \E row \in logs' : row.event = event[w] /\ row.channel = c
    OBVIOUS
  <2>1. Working(w) /\ event[w] \in Events /\ job[event[w]] = "running"
    BY DEF Ends, NotifierInv, Control, WorkersHoldValues
  <2>2. ASSUME NEW v \in Workers, NEW outcome, Finish(v, outcome) PROVE v = w
    <3>1. job' = [job EXCEPT ![event[v]] = outcome]
      BY <2>2 DEF Finish
    <3>2. event[v] = event[w]
      BY <2>1, <3>1 DEF Ends, NotifierInv, Control, TypeOK
    <3> QED BY <2>1, <3>2 DEF NotifierInv, Control, OneWorkerPerJob, Working, WorkersHoldValues
  <2>3. Commit(w)
    <3>1. \E v \in Workers : Commit(v) \/ GivesUp(v)
      BY <2>1, StepKinds
      DEF Ends, Take, ListWatches, ListChannels, Send, LogSend, Visit, Skip, DeleteChannel, Tick,
          vars, jobVars, workerVars, NotifierInv, Control, TypeOK
    <3>2. ~GivesUp(w)
      BY <2>1 DEF GivesUp, Finish, Ends, NotifierInv, Control, TypeOK
    <3> QED BY <2>2, <3>1, <3>2 DEF Commit, GivesUp
  <2>4. /\ pc[w] = "users" /\ left[w] = {} /\ targets[w] = {}
        /\ logs' = logs \cup written[w]
    BY <2>3 DEF Commit, Committed, NotifierInv, Control, WorkersHoldValues
  <2>5. Tried(w, c)
    BY <2>4 DEF NotifierInv, SubscribersAreTracked, InHand
  <2> QED BY <2>4, <2>5 DEF Tried, NotifierInv, RowsAreOfJobs
<1>2. NotifierInv /\ [Next]_vars => [Served]_vars
  BY <1>1
<1> QED BY <1>2, NotifierInvHolds, PTL DEF Spec, NobodyPassedOver
=============================================================================
