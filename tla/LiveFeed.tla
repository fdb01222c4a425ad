------------------------------ MODULE LiveFeed ------------------------------
(***************************************************************************)
(* The live events of the dashboard: the effect that opens a WebSocket     *)
(* with the access token of the tab and opens it again three seconds after *)
(* it closed, the route that accepts it and forwards what Redis publishes  *)
(* on the channels of the user's watches, and the list the tab shows.  An  *)
(* effect runs after the render its change caused; each run has its own    *)
(* socket, timer and cancelled flag.                                       *)
(***************************************************************************)
EXTENDS Session

CONSTANTS
    MaxRuns,    \* bound: runs of the effect that open a socket
    MaxEvents,  \* bound: events published
    MaxShown,   \* MAX_EVENTS: 100 in the code
    FeedUsers, FeedPairs, FeedCalls   \* bound: in a behaviour that follows the feed

ASSUME LiveFeedAssumption ==
    /\ MaxRuns \in Nat /\ MaxEvents \in Nat /\ MaxShown \in Nat
    /\ FeedUsers \subseteq Users /\ FeedPairs \in Nat /\ FeedCalls \subseteq Calls

VARIABLES
    focus,     \* bound: a behaviour follows the calls of the tab or its feed
    wired,     \* the route's dependencies resolve: not as shipped (get_session wants
               \* a Request), only where get_auth_service is overridden, as in its test
    watching,  \* users with a watch row, active or not
    run, ran,  \* runs so far; the token of the run that is not cancelled, 0 if all are
    token,     \* the token each run took from the store
    socket,    \* the socket of each run
    timers,    \* runs whose reconnect timer is set
    streams,   \* what the server holds: the handlers that accepted a socket
    wire,      \* events sent on each socket
    published, \* events published so far
    events     \* the list of the tab, newest first

feedVars == <<focus, wired, watching, run, ran, token, socket, timers, streams, wire, published, events>>
vars == <<sessionVars, feedVars>>
server == <<focus, wired, watching, streams, published>>

Runs == 1 .. MaxRuns
Live(r) == r = run /\ ran # 0
UserOf(r) == issued[token[r]]

TypeOK ==
    /\ SessionTypeOK
    /\ focus \in {"calls", "feed"} /\ wired \in BOOLEAN /\ watching \subseteq Users
    /\ run \in 0 .. MaxRuns /\ ran \in 0 .. Len(issued)
    /\ token \in [Runs -> 0 .. Len(issued)]
    /\ socket \in [Runs -> {"none", "connecting", "open", "closing"}]
    /\ timers \subseteq Runs
    /\ \A r \in timers : socket[r] = "none"
    /\ streams \subseteq [run : Runs, linked : BOOLEAN, subscribed : BOOLEAN]
    /\ \A s, t \in streams : s.run = t.run /\ s.linked /\ t.linked => s = t
    /\ wire \in [Runs -> Seq(1 .. published)] /\ published \in 0 .. MaxEvents
    /\ events \in Seq(1 .. published) /\ Len(events) <= MaxShown

Init ==
    /\ InitSession
    /\ \/ focus = "calls" /\ wired = FALSE
       \/ focus = "feed" /\ wired \in BOOLEAN
    /\ watching = {}
    /\ run = 0 /\ ran = 0 /\ token = [r \in Runs |-> 0]
    /\ socket = [r \in Runs |-> "none"] /\ timers = {}
    /\ streams = {} /\ wire = [r \in Runs |-> <<>>]
    /\ published = 0 /\ events = <<>>

------------------------------------------------------------------------------
(* The effect of the dashboard page                                        *)

Wanted == IF page = "dashboard" THEN access ELSE 0

MountedOnly == (Wanted = 0) # (ran = 0)
DepsChanged == Wanted # ran

\* The cleanup of the last run cancels it, clears its timer and closes its socket.
LeaveSocketOpen(sockets) == sockets
CloseSocket(sockets) ==
    [r \in Runs |-> IF Live(r) /\ sockets[r] \in {"connecting", "open"} THEN "closing" ELSE sockets[r]]

RunEffect ==
    /\ DepsChanged
    /\ timers' = timers \ {run}
    /\ ran' = Wanted
    /\ IF Wanted = 0
       THEN socket' = CloseSocket(socket) /\ UNCHANGED <<run, token>>
       ELSE /\ run < MaxRuns /\ run' = run + 1
            /\ token' = [token EXCEPT ![run'] = Wanted]
            /\ socket' = [CloseSocket(socket) EXCEPT ![run'] = "connecting"]
    /\ UNCHANGED <<sessionVars, server, wire, events>>

ReconnectAlways(r) == timers \union {r}
AfterClose(r) == IF Live(r) THEN timers \union {r} ELSE timers

\* onclose: the server refused, the connection broke, or the cleanup closed it.
Closes(r) ==
    /\ socket[r] # "none"
    /\ socket' = [socket EXCEPT ![r] = "none"] /\ wire' = [wire EXCEPT ![r] = <<>>]
    /\ timers' = AfterClose(r)
    /\ streams' = {IF s.run = r THEN [s EXCEPT !.linked = FALSE] ELSE s : s \in streams}
    /\ UNCHANGED <<sessionVars, focus, wired, watching, run, ran, token, published, events>>

Reconnects(r) ==
    /\ r \in timers
    /\ timers' = timers \ {r} /\ socket' = [socket EXCEPT ![r] = "connecting"]
    /\ UNCHANGED <<sessionVars, server, run, ran, token, wire, events>>

\* onmessage; a socket that is being closed drops what still comes.
Shown(e) == SubSeq(<<e>> \o events, 1, IF Len(events) < MaxShown THEN Len(events) + 1 ELSE MaxShown)

Receives(r) ==
    /\ socket[r] \in {"open", "closing"} /\ wire[r] # <<>>
    /\ wire' = [wire EXCEPT ![r] = Tail(@)]
    /\ events' = IF socket[r] = "open" THEN Shown(Head(wire[r])) ELSE events
    /\ UNCHANGED <<sessionVars, server, run, ran, token, socket, timers>>

------------------------------------------------------------------------------
(* The route and the subscriber                                            *)

\* Anything else closes the socket: 4401 for the token, 4404 without watches.
MayStream(r) == wired /\ stage[token[r]] = "fresh" /\ UserOf(r) \in watching

Accepts(r) ==
    /\ socket[r] = "connecting" /\ MayStream(r)
    /\ socket' = [socket EXCEPT ![r] = "open"]
    /\ streams' = streams \union {[run |-> r, linked |-> TRUE, subscribed |-> FALSE]}
    /\ UNCHANGED <<sessionVars, focus, wired, watching, run, ran, token, timers, wire, published, events>>

Subscribes(s) ==
    /\ s \in streams /\ ~ s.subscribed
    /\ streams' = (streams \ {s}) \union {[s EXCEPT !.subscribed = TRUE]}
    /\ UNCHANGED <<sessionVars, focus, wired, watching, run, ran, token, socket, timers, wire, published, events>>

\* An event of one user's watch target; one that no handler hears changes nothing.  A handler
\* whose client is gone learns it from the send.
Publish(user) ==
    /\ published < MaxEvents /\ published' = published + 1
    /\ LET reached == {s \in streams : s.subscribed /\ UserOf(s.run) = user}
           linked  == {s.run : s \in {t \in reached : t.linked}}
       IN  /\ reached # {}
           /\ wire' = [r \in Runs |-> IF r \in linked THEN Append(wire[r], published') ELSE wire[r]]
           /\ streams' = {s \in streams : s \in reached => s.linked}
    /\ UNCHANGED <<sessionVars, focus, wired, watching, run, ran, token, socket, timers, events>>

\* Watches are never removed, and list_for_user does not ask whether they are active.
Watches(user) ==
    /\ user \notin watching /\ watching' = watching \union {user}
    /\ UNCHANGED <<sessionVars, focus, wired, run, ran, token, socket, timers, streams, wire, published, events>>

\* A reload keeps the persisted store and nothing else of the tab.
Reload ==
    /\ call' = [c \in Calls |-> NoCall]
    /\ ran' = 0 /\ timers' = {} /\ socket' = [r \in Runs |-> "none"]
    /\ wire' = [r \in Runs |-> <<>>] /\ events' = <<>>
    /\ streams' = {[s EXCEPT !.linked = FALSE] : s \in streams}
    /\ UNCHANGED <<store, issued, stage, page, focus, wired, watching, run, token, published>>

------------------------------------------------------------------------------
FeedBound ==
    /\ issued' \in Seq(FeedUsers) /\ Len(issued') <= FeedPairs /\ page' # "other"
    /\ \A n \in 1 .. MaxPairs : stage'[n] # "dead"
    /\ \A c \in Calls \ FeedCalls : call'[c] = NoCall

FeedStep ==
    \/ RunEffect \/ Reload
    \/ \E r \in Runs : Closes(r) \/ Reconnects(r) \/ Receives(r) \/ Accepts(r)
    \/ \E s \in streams : Subscribes(s)
    \/ \E user \in FeedUsers : Publish(user) \/ Watches(user)

Next ==
    \/ SessionStep /\ (focus = "feed" => FeedBound) /\ UNCHANGED feedVars
    \/ focus = "feed" /\ FeedStep

Spec == Init /\ [][Next]_vars

\* Effects and timers run, an attempt to connect ends, and one repeated for ever gets
\* through.  Nobody has to make a call or to publish an event.
FairSpec ==
    /\ Spec
    /\ WF_vars(focus = "feed" /\ RunEffect)
    /\ \A r \in Runs : WF_vars(Reconnects(r)) /\ SF_vars(Accepts(r))
    /\ \A r \in Runs : WF_vars(socket[r] = "connecting" /\ Closes(r))

------------------------------------------------------------------------------
(* Through reconnects, new tokens, reloads, logouts and logins no event is *)
(* listed twice and none after a later one: at no time do two sockets of   *)
(* the tab deliver.                                                        *)
FeedIsInOrder == \A i, j \in 1 .. Len(events) : i < j => events[i] > events[j]

(* While the dashboard is shown to a user who has a watch and whose access *)
(* token is fresh, the feed is opened, also after the token before it had  *)
(* expired and its socket was refused: provided the route can be opened at *)
(* all, which as shipped it cannot.                                        *)
Entitled ==
    /\ focus = "feed" /\ wired /\ page = "dashboard" /\ access # 0
    /\ run < MaxRuns \/ ran = access
    /\ stage[access] = "fresh" /\ issued[access] \in watching
Streams == \E r \in Runs : Live(r) /\ token[r] = access /\ socket[r] = "open"
FeedComesBack == Entitled ~> Streams \/ ~ Entitled
==============================================================================
