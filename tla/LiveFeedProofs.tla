--------------------------- MODULE LiveFeedProofs ---------------------------
(***************************************************************************)
(* Theorems about the login of a dashboard tab, for any users and any      *)
(* number of calls and token pairs, with the feed of the tab beside them.  *)
(***************************************************************************)
EXTENDS LiveFeed, SequenceTheorems, TLAPS

(* The two tokens are stored and removed together, and with them the phone *)
(* number: no 401 finds a login that has nothing to ask again with.        *)
Stored ==
    /\ issued \in Seq(Users)
    /\ access \in 0 .. Len(issued) /\ refresh = access
    /\ access = 0 <=> phone = NoPhone
    /\ phone \in Users \union {NoPhone, NoName}
    /\ call \in [Calls -> [at : {"idle", "sent", "refreshing"}, token : Nat, retried : BOOLEAN]]
    /\ \A c \in Calls : call[c].at # "idle" => call[c].token \in 1 .. Len(issued)

LEMMA StoredInit == Init => Stored
  BY SessionAssumption DEF Init, InitSession, Stored, NoCall, SessionAssumption

\* A new pair is the last one issued.
LEMMA Issued ==
    ASSUME issued \in Seq(Users), NEW user \in Users, Issue(user)
    PROVE  /\ issued' \in Seq(Users) /\ Len(issued') = Len(issued) + 1
           /\ Len(issued) \in Nat /\ Len(issued') # 0 /\ issued'[Len(issued')] = user
  <1>1. issued' = Append(issued, user)
    BY DEF Issue
  <1> QED BY <1>1, AppendProperties

LEMMA StoredStep == Stored /\ [Next]_vars => Stored'
  <1> SUFFICES ASSUME Stored, [Next]_vars PROVE Stored'
    OBVIOUS
  <1> USE SessionAssumption DEF SessionAssumption
  <1>1. ASSUME NEW user \in Users, LogIn(user) PROVE Stored'
    <2>1. Issue(user) /\ StorePair(Len(issued'), user) /\ UNCHANGED call
      BY <1>1 DEF LogIn
    <2> QED BY <2>1, Issued DEF Stored, StorePair
  <1>2. ASSUME NEW c \in Calls, Refreshed(c) PROVE Stored'
    <2>1. /\ Issue(issued[call[c].token]) /\ Becomes(c, "sent", Len(issued'), TRUE)
          /\ StorePair(Len(issued'), IF phone = NoPhone THEN NoName ELSE phone)
      BY <1>2 DEF Refreshed
    <2>2. issued[call[c].token] \in Users
      BY <1>2 DEF Stored, Refreshed
    <2>3. /\ issued' \in Seq(Users) /\ Len(issued') = Len(issued) + 1
          /\ Len(issued) \in Nat /\ Len(issued') # 0
      BY <2>1, <2>2, Issued DEF Stored
    <2>4. access' = Len(issued') /\ refresh' = access' /\ phone' \in Users \union {NoName}
      BY <2>1 DEF Stored, StorePair
    <2>5. call' = [call EXCEPT ![c] = [at |-> "sent", token |-> Len(issued'), retried |-> TRUE]]
      BY <2>1 DEF Becomes
    <2>6. /\ call' \in [Calls -> [at : {"idle", "sent", "refreshing"}, token : Nat, retried : BOOLEAN]]
          /\ \A d \in Calls : call'[d].at # "idle" => call'[d].token \in 1 .. Len(issued')
      BY <2>3, <2>5 DEF Stored
    <2> QED BY <2>3, <2>4, <2>6 DEF Stored
  <1>3. ASSUME NEW c \in Calls, Send(c) PROVE Stored'
    <2>1. /\ UNCHANGED <<access, refresh, phone, issued>> /\ access # 0
          /\ call' = [call EXCEPT ![c] = [at |-> "sent", token |-> access, retried |-> FALSE]]
      BY <1>3 DEF Send, Becomes, store
    <2> QED BY <2>1 DEF Stored
  <1>4. ASSUME NEW c \in Calls, AsksAgain(c) PROVE Stored'
    <2>1. /\ UNCHANGED <<access, refresh, phone, issued>> /\ refresh # 0
          /\ call' = [call EXCEPT ![c] = [at |-> "refreshing", token |-> refresh, retried |-> TRUE]]
      BY <1>4 DEF AsksAgain, Becomes, store
    <2> QED BY <2>1 DEF Stored
  <1>5. ASSUME NEW c \in Calls, Ends(c), UNCHANGED issued, LogOut \/ UNCHANGED store PROVE Stored'
    <2>1. call' = [call EXCEPT ![c] = [at |-> "idle", token |-> 0, retried |-> FALSE]]
      BY <1>5 DEF Ends, NoCall
    <2> QED BY <1>5, <2>1 DEF Stored, LogOut, store
  <1>6. ASSUME UNCHANGED store, UNCHANGED issued,
               call' = call \/ call' = [c \in Calls |-> NoCall]
        PROVE  Stored'
    <2>1. CASE call' = call
      BY <1>6, <2>1 DEF Stored, store
    <2>2. CASE call' = [c \in Calls |-> NoCall]
      <3>1. /\ call' \in [Calls -> [at : {"idle", "sent", "refreshing"}, token : Nat, retried : BOOLEAN]]
            /\ \A c \in Calls : call'[c].at = "idle"
        BY <2>2 DEF NoCall
      <3> QED BY <1>6, <3>1 DEF Stored, store
    <2> QED BY <1>6, <2>1, <2>2
  <1>7. ASSUME SessionStep PROVE Stored'
    <2>1. ASSUME NEW c \in Calls, \/ Settles(c) \/ HasNothingToAskWith(c) \/ RefusedAgain(c)
                                  \/ RefreshFails(c)
          PROVE  Stored'
      BY <1>5, <2>1 DEF Settles, HasNothingToAskWith, RefusedAgain, RefreshFails, PassOn, store
    <2> QED BY <1>1, <1>2, <1>3, <1>4, <1>6, <1>7, <2>1 DEF SessionStep, Expires, Navigate
  <1>8. ASSUME FeedStep PROVE Stored'
    BY <1>6, <1>8 DEF FeedStep, RunEffect, Reload, Closes, Reconnects, Receives, Accepts, Subscribes,
                      Publish, Watches, sessionVars, store
  <1>9. CASE UNCHANGED vars
    BY <1>6, <1>9 DEF vars, sessionVars, store
  <1> QED BY <1>7, <1>8, <1>9 DEF Next

------------------------------------------------------------------------------
(* What a step does to the store.                                          *)
LEMMA StoreSteps ==
    ASSUME Stored, [Next]_vars
    PROVE  \/ UNCHANGED <<store, issued>>
           \/ \E user \in Users : LogIn(user)
           \/ \E c \in Calls : Refreshed(c) \/ RefreshFails(c)
           \/ access = 0 /\ LogOut
  <1>1. ASSUME NEW c \in Calls, HasNothingToAskWith(c) PROVE access = 0 /\ LogOut
    BY <1>1 DEF HasNothingToAskWith, Stored
  <1> QED BY <1>1 DEF Next, SessionStep, Send, Settles, AsksAgain, RefusedAgain, PassOn, Expires,
                   Navigate, FeedStep, RunEffect, Reload, Closes, Reconnects, Receives, Accepts,
                   Subscribes, Publish, Watches, sessionVars, store, vars

(* Whatever calls fail, in any order, a login is ended by a refresh that   *)
(* fails and by nothing else.                                              *)
THEOREM OnlyAFailedRefreshLogsOut == Spec => LoggedOutOnlyByAFailedRefresh
  <1>1. Stored /\ [Next]_vars
          => [access # 0 /\ access' = 0 =>
                 \E c \in Calls : call[c].at = "refreshing" /\ call'[c].at = "idle"]_sessionVars
    <2> SUFFICES ASSUME Stored, [Next]_vars, access # 0, access' = 0
                 PROVE  \E c \in Calls : call[c].at = "refreshing" /\ call'[c].at = "idle"
      OBVIOUS
    <2>1. ASSUME NEW user \in Users, LogIn(user) PROVE FALSE
      BY <2>1, Issued DEF LogIn, StorePair, Stored
    <2>2. ASSUME NEW c \in Calls, Refreshed(c) PROVE FALSE
      <3>1. Issue(issued[call[c].token]) /\ access' = Len(issued')
        BY <2>2 DEF Refreshed, StorePair
      <3>2. issued[call[c].token] \in Users
        BY <2>2 DEF Stored, Refreshed
      <3> QED BY <3>1, <3>2, Issued DEF Stored
    <2>3. ASSUME NEW c \in Calls, RefreshFails(c)
          PROVE  call[c].at = "refreshing" /\ call'[c].at = "idle"
      BY <2>3 DEF RefreshFails, Ends, NoCall, Stored
    <2> QED BY <2>1, <2>2, <2>3, StoreSteps DEF store
  <1> QED BY <1>1, StoredInit, StoredStep, PTL DEF Spec, LoggedOutOnlyByAFailedRefresh

(* The tab comes to show another user's number in no other way than by the *)
(* answer to a refresh that an earlier login asked for.                    *)
THEOREM OnlyALateRefreshMixesUsers == Spec => TheUserIsWhoLoggedIn
  <1>1. Stored /\ [Next]_vars
          => [ShowsItsUser /\ ~ ShowsItsUser' =>
                 \E c \in Calls : /\ call[c].at = "refreshing" /\ call'[c].at = "sent"
                                  /\ access = 0 \/ issued[call[c].token] # issued[access]]_sessionVars
    <2> SUFFICES ASSUME Stored, [Next]_vars, ShowsItsUser, ~ ShowsItsUser'
                 PROVE  \E c \in Calls : /\ call[c].at = "refreshing" /\ call'[c].at = "sent"
                                         /\ access = 0 \/ issued[call[c].token] # issued[access]
      OBVIOUS
    <2>1. ASSUME NEW user \in Users, LogIn(user) PROVE FALSE
      BY <2>1, Issued DEF LogIn, StorePair, Stored, ShowsItsUser
    <2>2. ASSUME NEW c \in Calls, Refreshed(c)
          PROVE  /\ call[c].at = "refreshing" /\ call'[c].at = "sent"
                 /\ access = 0 \/ issued[call[c].token] # issued[access]
      <3>1. /\ Issue(issued[call[c].token]) /\ access' = Len(issued')
            /\ phone' = IF phone = NoPhone THEN NoName ELSE phone
        BY <2>2 DEF Refreshed, StorePair
      <3>2. issued[call[c].token] \in Users
        BY <2>2 DEF Stored, Refreshed
      <3>3. issued'[Len(issued')] = issued[call[c].token]
        BY <3>1, <3>2, Issued DEF Stored
      <3>4. call[c].at = "refreshing" /\ call'[c].at = "sent"
        BY <2>2 DEF Refreshed, Becomes, Stored
      <3> QED BY <3>1, <3>3, <3>4 DEF Stored, ShowsItsUser
    <2>3. ASSUME LogOut PROVE FALSE
      BY <2>3 DEF LogOut, ShowsItsUser
    <2> QED BY <2>1, <2>2, <2>3, StoreSteps DEF store, ShowsItsUser, RefreshFails
  <1> QED BY <1>1, StoredInit, StoredStep, PTL DEF Spec, TheUserIsWhoLoggedIn

------------------------------------------------------------------------------
(* At no time is more than one socket of the tab connecting or open: it is *)
(* that of the run that is not cancelled.  A timer is only set for that    *)
(* run, and while it has no socket.                                        *)
SocketStates == {"none", "connecting", "open", "closing"}
Stream == [run : Runs, linked : BOOLEAN, subscribed : BOOLEAN]

Sockets ==
    /\ run \in Nat /\ socket \in [Runs -> SocketStates] /\ timers \subseteq Runs
    /\ \A r \in Runs : socket[r] \in {"connecting", "open"} => Live(r)
    /\ \A r \in Runs : r > run => socket[r] = "none"
    /\ \A r \in timers : Live(r) /\ socket[r] = "none"
    /\ streams \subseteq Stream
    /\ \A s \in streams : s.linked => socket[s.run] \in {"open", "closing"}

(* What is on the way to the open socket is newer than what is listed.     *)
Rising(q) == \A i, j \in 1 .. Len(q) : i < j => q[i] < q[j]
Upto(q, n) == \A i \in 1 .. Len(q) : q[i] <= n
Newer(q, p) == \A i \in 1 .. Len(q), j \in 1 .. Len(p) : q[i] > p[j]

Delivered ==
    /\ published \in Nat /\ wire \in [Runs -> Seq(Nat)] /\ events \in Seq(Nat)
    /\ \A r \in Runs : socket[r] \in {"none", "connecting"} => wire[r] = <<>>
    /\ \A r \in Runs : Rising(wire[r]) /\ Upto(wire[r], published)
    /\ \A r \in Runs : socket[r] = "open" => Newer(wire[r], events)
    /\ Upto(events, published)
    /\ FeedIsInOrder

Feed == Sockets /\ Delivered

LEMMA FeedInit == Init => Feed
  <1> SUFFICES ASSUME Init PROVE Feed
    OBVIOUS
  <1>1. Sockets
    BY DEF Init, Sockets, SocketStates
  <1>2. Delivered
    BY DEF Init, Delivered, Rising, Upto, Newer, FeedIsInOrder
  <1> QED BY <1>1, <1>2 DEF Feed

LEMMA Nothing == Rising(<<>>) /\ (\A n : Upto(<<>>, n)) /\ (\A q : Newer(<<>>, q) /\ Newer(q, <<>>))
  BY DEF Rising, Upto, Newer

LEMMA RunEffectKeeps == ASSUME Feed, RunEffect PROVE Feed'
  <1> USE LiveFeedAssumption DEF LiveFeedAssumption
  <1>1. UNCHANGED <<streams, published, wire, events>> /\ timers' = timers \ {run} /\ ran' = Wanted
    BY DEF RunEffect, server
  <1>2. timers' = {}
    BY <1>1 DEF Feed, Sockets, Live
  <1>3. \A r \in Runs : /\ CloseSocket(socket)[r] \in {"none", "closing"}
                        /\ CloseSocket(socket)[r] = "none" <=> socket[r] = "none"
                        /\ socket[r] \in {"open", "closing"} => CloseSocket(socket)[r] = "closing"
    BY DEF Feed, Sockets, CloseSocket, SocketStates
  <1>4. CASE Wanted = 0
    <2>1. socket' = CloseSocket(socket) /\ UNCHANGED run
      BY <1>4 DEF RunEffect
    <2>2. socket' \in [Runs -> SocketStates]
      BY <2>1, <1>3 DEF CloseSocket, SocketStates
    <2>3. Sockets'
      BY <1>1, <1>2, <1>3, <2>1, <2>2 DEF Feed, Sockets, Stream
    <2>4. Delivered'
      BY <1>1, <1>3, <2>1 DEF Feed, Delivered, FeedIsInOrder
    <2> QED BY <2>3, <2>4 DEF Feed
  <1>5. CASE Wanted # 0
    <2>1. /\ run < MaxRuns /\ run' = run + 1
          /\ socket' = [CloseSocket(socket) EXCEPT ![run'] = "connecting"]
      BY <1>5 DEF RunEffect
    <2>2. run \in Nat /\ run' \in Runs /\ run' > run /\ socket[run'] = "none"
      BY <2>1 DEF Feed, Sockets, Runs
    <2>3. /\ socket' \in [Runs -> SocketStates] /\ socket'[run'] = "connecting"
          /\ \A r \in Runs \ {run'} : socket'[r] = CloseSocket(socket)[r]
      BY <2>1, <2>2, <1>3 DEF CloseSocket, SocketStates
    <2>4. \A s \in streams : s.linked => s.run # run'
      BY <2>2 DEF Feed, Sockets
    <2>5. \A r \in Runs : r > run' => socket'[r] = "none"
      BY <1>3, <2>1, <2>2, <2>3 DEF Feed, Sockets, Runs
    <2>6. Sockets'
      <3>1. \A r \in Runs : socket'[r] \in {"connecting", "open"} => Live(r)'
        BY <1>1, <1>3, <1>5, <2>3 DEF Live
      <3>2. ASSUME NEW s \in streams, s.linked PROVE socket'[s.run] \in {"open", "closing"}
        <4>1. s.run \in Runs /\ s.run # run' /\ socket[s.run] \in {"open", "closing"}
          BY <2>4, <3>2 DEF Feed, Sockets, Stream
        <4> QED BY <1>3, <2>3, <4>1
      <3>3. run' \in Nat
        BY <2>1, <2>2
      <3>4. streams' \subseteq Stream /\ timers' \subseteq Runs
        BY <1>1, <1>2 DEF Feed, Sockets
      <3> QED BY <1>1, <1>2, <2>3, <2>5, <3>1, <3>2, <3>3, <3>4 DEF Sockets
    <2>7. Delivered'
      BY <1>1, <1>3, <2>2, <2>3 DEF Feed, Delivered, FeedIsInOrder
    <2> QED BY <2>6, <2>7 DEF Feed
  <1> QED BY <1>4, <1>5

LEMMA ClosesKeeps == ASSUME Feed, NEW r \in Runs, Closes(r) PROVE Feed'
  <1>1. /\ socket' = [socket EXCEPT ![r] = "none"] /\ wire' = [wire EXCEPT ![r] = <<>>]
        /\ timers' = AfterClose(r) /\ UNCHANGED <<run, ran, published, events>>
        /\ streams' = {IF s.run = r THEN [s EXCEPT !.linked = FALSE] ELSE s : s \in streams}
    BY DEF Closes
  <1>2. /\ socket'[r] = "none" /\ \A q \in Runs \ {r} : socket'[q] = socket[q]
        /\ socket' \in [Runs -> SocketStates]
    BY <1>1 DEF Feed, Sockets, SocketStates
  <1>3. /\ wire'[r] = <<>> /\ \A q \in Runs \ {r} : wire'[q] = wire[q]
        /\ wire' \in [Runs -> Seq(Nat)]
    BY <1>1 DEF Feed, Delivered
  <1>4. streams' \subseteq Stream /\ \A s \in streams' : s.linked => s \in streams /\ s.run # r
    BY <1>1 DEF Feed, Sockets, Stream
  <1>5. Sockets'
    BY <1>1, <1>2, <1>4 DEF Feed, Sockets, AfterClose, Live, Stream
  <1>6. Delivered'
    BY <1>1, <1>2, <1>3, Nothing DEF Feed, Delivered, FeedIsInOrder
  <1> QED BY <1>5, <1>6 DEF Feed

LEMMA ReconnectsKeeps == ASSUME Feed, NEW r \in Runs, Reconnects(r) PROVE Feed'
  <1>1. /\ r \in timers /\ timers' = timers \ {r} /\ socket' = [socket EXCEPT ![r] = "connecting"]
        /\ UNCHANGED <<run, ran, streams, wire, published, events>>
    BY DEF Reconnects, server
  <1>2. /\ socket'[r] = "connecting" /\ \A q \in Runs \ {r} : socket'[q] = socket[q]
        /\ socket' \in [Runs -> SocketStates] /\ socket[r] = "none" /\ Live(r)
    BY <1>1 DEF Feed, Sockets, SocketStates
  <1>3. Sockets'
    BY <1>1, <1>2 DEF Feed, Sockets, Live, Stream
  <1>4. Delivered'
    BY <1>1, <1>2 DEF Feed, Delivered, FeedIsInOrder
  <1> QED BY <1>3, <1>4 DEF Feed

LEMMA AcceptsKeeps == ASSUME Feed, NEW r \in Runs, Accepts(r) PROVE Feed'
  <1>1. /\ socket[r] = "connecting" /\ socket' = [socket EXCEPT ![r] = "open"]
        /\ streams' = streams \union {[run |-> r, linked |-> TRUE, subscribed |-> FALSE]}
        /\ UNCHANGED <<run, ran, timers, wire, published, events>>
    BY DEF Accepts
  <1>2. /\ socket'[r] = "open" /\ \A q \in Runs \ {r} : socket'[q] = socket[q]
        /\ socket' \in [Runs -> SocketStates]
    BY <1>1 DEF Feed, Sockets, SocketStates
  <1>3. streams' \subseteq Stream /\ \A s \in streams' : s \in streams \/ s.run = r
    <2>1. /\ [run |-> r, linked |-> TRUE, subscribed |-> FALSE] \in Stream
          /\ [run |-> r, linked |-> TRUE, subscribed |-> FALSE].run = r
      BY DEF Stream
    <2>2. streams \subseteq Stream
      BY DEF Feed, Sockets
    <2> QED BY <1>1, <2>1, <2>2
  <1>4. Sockets'
    BY <1>1, <1>2, <1>3 DEF Feed, Sockets, Live, Stream
  <1>5. Delivered'
    BY <1>1, <1>2, Nothing DEF Feed, Delivered, FeedIsInOrder
  <1> QED BY <1>4, <1>5 DEF Feed

\* The handler goes on to subscribe; the tab does not notice.
LEMMA SubscribesKeeps == ASSUME Feed, NEW s \in streams, Subscribes(s) PROVE Feed'
  <1>1. /\ streams' = (streams \ {s}) \union {[s EXCEPT !.subscribed = TRUE]}
        /\ UNCHANGED <<run, ran, timers, socket, wire, published, events>>
    BY DEF Subscribes
  <1>2. streams' \subseteq Stream /\ \A t \in streams' : \E u \in streams : t.run = u.run /\ t.linked = u.linked
    BY <1>1 DEF Feed, Sockets, Stream
  <1>3. Sockets'
    BY <1>1, <1>2 DEF Feed, Sockets, Live
  <1>4. Delivered'
    BY <1>1 DEF Feed, Delivered, FeedIsInOrder
  <1> QED BY <1>3, <1>4 DEF Feed

LEMMA UptoLater ==
    ASSUME NEW q \in Seq(Nat), NEW n \in Nat, Upto(q, n)
    PROVE  Upto(q, n + 1) /\ \A i \in 1 .. Len(q) : q[i] \in Nat /\ q[i] < n + 1
  <1> SUFFICES ASSUME NEW i \in 1 .. Len(q) PROVE q[i] \in Nat /\ q[i] <= n + 1 /\ q[i] < n + 1
    BY DEF Upto
  <1>1. q[i] \in Nat /\ q[i] <= n
    BY DEF Upto
  <1> QED BY <1>1

LEMMA AppendRises ==
    ASSUME NEW q \in Seq(Nat), NEW n \in Nat, Rising(q), Upto(q, n)
    PROVE  LET longer == Append(q, n + 1)
           IN  /\ longer \in Seq(Nat) /\ Rising(longer) /\ Upto(longer, n + 1)
               /\ \A i \in 1 .. Len(longer) : \/ i \in 1 .. Len(q) /\ longer[i] = q[i]
                                              \/ longer[i] = n + 1
  <1> DEFINE longer == Append(q, n + 1)
  <1>1. /\ longer \in Seq(Nat) /\ Len(longer) = Len(q) + 1 /\ Len(q) \in Nat
        /\ longer[Len(q) + 1] = n + 1 /\ \A i \in 1 .. Len(q) : longer[i] = q[i]
    BY AppendProperties
  <1> HIDE DEF longer
  <1>2. \A i \in 1 .. Len(longer) : i \in 1 .. Len(q) \/ i = Len(q) + 1
    BY <1>1
  <1>3. \A i \in 1 .. Len(q) : q[i] \in Nat /\ q[i] < n + 1
    BY UptoLater
  <1>4. ASSUME NEW i \in 1 .. Len(longer), NEW j \in 1 .. Len(longer), i < j
        PROVE  longer[i] < longer[j]
    <2>1. i \in 1 .. Len(q) /\ longer[i] = q[i]
      BY <1>1, <1>2, <1>4
    <2>2. CASE j \in 1 .. Len(q)
      BY <1>1, <1>4, <2>1, <2>2 DEF Rising
    <2>3. CASE j = Len(q) + 1
      BY <1>1, <1>3, <2>1, <2>3
    <2> QED BY <1>2, <2>2, <2>3
  <1>5. ASSUME NEW i \in 1 .. Len(longer) PROVE longer[i] <= n + 1
    <2>1. CASE i \in 1 .. Len(q)
      BY <1>1, <1>3, <2>1
    <2>2. CASE i = Len(q) + 1
      BY <1>1, <2>2
    <2> QED BY <1>2, <2>1, <2>2
  <1>6. Rising(longer) /\ Upto(longer, n + 1)
    BY <1>4, <1>5 DEF Rising, Upto
  <1> QED BY <1>1, <1>2, <1>6 DEF longer

LEMMA PublishKeeps == ASSUME Feed, NEW user, Publish(user) PROVE Feed'
  <1> DEFINE reached == {s \in streams : s.subscribed /\ UserOf(s.run) = user}
             linked  == {s.run : s \in {t \in reached : t.linked}}
  <1>1. /\ published' = published + 1 /\ UNCHANGED <<run, ran, timers, socket, events>>
        /\ wire' = [r \in Runs |-> IF r \in linked THEN Append(wire[r], published') ELSE wire[r]]
        /\ streams' = {s \in streams : s \in reached => s.linked}
    BY DEF Publish
  <1>2. \A r \in linked : r \in Runs /\ socket[r] \in {"open", "closing"}
    BY DEF Feed, Sockets, Stream
  <1> HIDE DEF linked, reached
  <1>3. Sockets'
    BY <1>1 DEF Feed, Sockets, Live
  <1>4. published' \in Nat /\ published \in Nat /\ published < published'
    BY <1>1 DEF Feed, Delivered
  <1>5. ASSUME NEW r \in Runs
        PROVE  /\ wire'[r] \in Seq(Nat) /\ Rising(wire'[r]) /\ Upto(wire'[r], published')
               /\ socket[r] = "open" => Newer(wire'[r], events)
               /\ socket[r] \in {"none", "connecting"} => wire'[r] = <<>>
    <2>0. /\ wire[r] \in Seq(Nat) /\ Rising(wire[r]) /\ Upto(wire[r], published)
          /\ socket[r] = "open" => Newer(wire[r], events)
          /\ events \in Seq(Nat) /\ Upto(events, published)
      BY DEF Feed, Delivered
    <2>1. CASE r \notin linked
      <3>1. wire'[r] = wire[r]
        BY <1>1, <2>1
      <3>2. Upto(wire[r], published')
        BY <1>1, <1>4, <2>0, UptoLater
      <3> QED BY <2>0, <3>1, <3>2 DEF Feed, Delivered
    <2>2. CASE r \in linked
      <3>1. wire'[r] = Append(wire[r], published')
        BY <1>1, <2>2
      <3>2. /\ wire'[r] \in Seq(Nat) /\ Rising(wire'[r]) /\ Upto(wire'[r], published')
            /\ \A i \in 1 .. Len(wire'[r]) :
                  \/ i \in 1 .. Len(wire[r]) /\ wire'[r][i] = wire[r][i]
                  \/ wire'[r][i] = published'
        BY <1>1, <1>4, <2>0, <3>1, AppendRises
      <3>6. socket[r] = "open" => Newer(wire'[r], events)
        <4>1. \A j \in 1 .. Len(events) : events[j] \in Nat /\ events[j] < published'
          BY <1>1, <1>4, <2>0, UptoLater
        <4>2. ASSUME socket[r] = "open", NEW i \in 1 .. Len(wire'[r]), NEW j \in 1 .. Len(events)
              PROVE  wire'[r][i] > events[j]
          <5>1. CASE i \in 1 .. Len(wire[r]) /\ wire'[r][i] = wire[r][i]
            BY <2>0, <4>2, <5>1 DEF Newer
          <5>2. CASE wire'[r][i] = published'
            BY <1>4, <4>1, <5>2
          <5> QED BY <3>2, <5>1, <5>2
        <4> QED BY <4>2 DEF Newer
      <3> QED BY <1>2, <2>2, <3>2, <3>6
    <2> QED BY <2>1, <2>2
  <1>6. wire' \in [Runs -> Seq(Nat)]
    BY <1>1, <1>5
  <1>7. Upto(events, published')
    BY <1>1, <1>4, UptoLater DEF Feed, Delivered
  <1>8. Delivered'
    BY <1>1, <1>4, <1>5, <1>6, <1>7 DEF Feed, Delivered, FeedIsInOrder
  <1> QED BY <1>3, <1>8 DEF Feed

(* The next event of the open socket goes before those that are listed.    *)
LEMMA ShownKeeps ==
    ASSUME NEW e \in Nat, events \in Seq(Nat), FeedIsInOrder, Newer(<<e>>, events)
    PROVE  /\ Shown(e) \in Seq(Nat)
           /\ \A i, j \in 1 .. Len(Shown(e)) : i < j => Shown(e)[i] > Shown(e)[j]
           /\ \A i \in 1 .. Len(Shown(e)) :
                 \/ Shown(e)[i] = e
                 \/ \E j \in 1 .. Len(events) : Shown(e)[i] = events[j]
  <1> DEFINE all == <<e>> \o events
             n == IF Len(events) < MaxShown THEN Len(events) + 1 ELSE MaxShown
  <1>1. Len(events) \in Nat /\ n \in Nat /\ n <= Len(events) + 1
    BY LiveFeedAssumption DEF LiveFeedAssumption
  <1>2. /\ all \in Seq(Nat) /\ Len(all) = Len(events) + 1 /\ all[1] = e
        /\ \A i \in 2 .. Len(events) + 1 : all[i] = events[i - 1] /\ i - 1 \in 1 .. Len(events)
    BY <1>1
  <1>3. Shown(e) = SubSeq(all, 1, n)
    BY DEF Shown
  <1> HIDE DEF n, all
  <1>4. /\ Shown(e) \in Seq(Nat) /\ Len(Shown(e)) = n
        /\ \A i \in 1 .. n : Shown(e)[i] = all[i]
    BY <1>1, <1>2, <1>3
  <1>5. \A j \in 1 .. Len(events) : e > events[j] /\ events[j] \in Nat
    BY DEF Newer
  <1>6. \A i \in 1 .. n : i = 1 \/ i \in 2 .. Len(events) + 1
    BY <1>1
  <1>7. ASSUME NEW i \in 1 .. n, NEW j \in 1 .. n, i < j PROVE all[i] > all[j]
    <2>1. j \in 2 .. Len(events) + 1 /\ all[j] = events[j - 1] /\ j - 1 \in 1 .. Len(events)
      BY <1>1, <1>2, <1>7
    <2>2. CASE i = 1
      BY <1>2, <1>5, <2>1, <2>2
    <2>3. CASE i \in 2 .. Len(events) + 1
      <3>1. all[i] = events[i - 1] /\ i - 1 \in 1 .. Len(events) /\ i - 1 < j - 1
        BY <1>1, <1>2, <1>7, <2>3
      <3> QED BY <2>1, <3>1 DEF FeedIsInOrder
    <2> QED BY <1>6, <2>2, <2>3
  <1> QED BY <1>1, <1>2, <1>4, <1>6, <1>7

LEMMA TailRises ==
    ASSUME NEW q \in Seq(Nat), q # <<>>, NEW n \in Nat, Rising(q), Upto(q, n)
    PROVE  /\ Tail(q) \in Seq(Nat) /\ Rising(Tail(q)) /\ Upto(Tail(q), n)
           /\ Head(q) \in Nat /\ Head(q) = q[1] /\ 1 \in 1 .. Len(q)
           /\ \A i \in 1 .. Len(Tail(q)) : /\ i + 1 \in 1 .. Len(q) /\ Tail(q)[i] = q[i + 1]
                                          /\ Tail(q)[i] > Head(q)
  <1>1. /\ Tail(q) \in Seq(Nat) /\ Len(Tail(q)) = Len(q) - 1 /\ Len(q) \in Nat /\ Len(q) # 0
        /\ Head(q) = q[1] /\ Head(q) \in Nat
        /\ \A i \in 1 .. Len(Tail(q)) : Tail(q)[i] = q[i + 1]
    BY HeadTailProperties
  <1>2. 1 \in 1 .. Len(q) /\ \A i \in 1 .. Len(Tail(q)) : i + 1 \in 1 .. Len(q) /\ q[i + 1] \in Nat
    BY <1>1
  <1>3. ASSUME NEW i \in 1 .. Len(Tail(q)) PROVE Tail(q)[i] > Head(q) /\ Tail(q)[i] <= n
    BY <1>1, <1>2 DEF Rising, Upto
  <1>4. ASSUME NEW i \in 1 .. Len(Tail(q)), NEW j \in 1 .. Len(Tail(q)), i < j
        PROVE  Tail(q)[i] < Tail(q)[j]
    <2>1. i + 1 < j + 1
      BY <1>1, <1>4
    <2> QED BY <1>1, <1>2, <2>1 DEF Rising
  <1>5. Rising(Tail(q)) /\ Upto(Tail(q), n)
    BY <1>3, <1>4 DEF Rising, Upto
  <1> QED BY <1>1, <1>2, <1>3, <1>5

LEMMA ReceivesKeeps == ASSUME Feed, NEW r \in Runs, Receives(r) PROVE Feed'
  <1> DEFINE e == Head(wire[r])
  <1>1. /\ socket[r] \in {"open", "closing"} /\ wire[r] # <<>>
        /\ wire' = [wire EXCEPT ![r] = Tail(wire[r])]
        /\ events' = IF socket[r] = "open" THEN Shown(e) ELSE events
        /\ UNCHANGED <<run, ran, socket, timers, streams, published>>
    BY DEF Receives, server
  <1>2. Sockets'
    BY <1>1 DEF Feed, Sockets, Live
  <1>3. /\ published \in Nat /\ wire[r] \in Seq(Nat) /\ Rising(wire[r]) /\ Upto(wire[r], published)
        /\ events \in Seq(Nat) /\ Upto(events, published) /\ FeedIsInOrder
        /\ socket[r] = "open" => Newer(wire[r], events)
    BY DEF Feed, Delivered
  <1>4. /\ wire'[r] = Tail(wire[r]) /\ \A q \in Runs \ {r} : wire'[q] = wire[q]
        /\ wire' \in [Runs -> Seq(Nat)]
    BY <1>1, <1>3, TailRises DEF Feed, Delivered
  <1>5. Rising(wire'[r]) /\ Upto(wire'[r], published)
    BY <1>1, <1>3, <1>4, TailRises
  <1>6. CASE socket[r] = "closing"
    BY <1>1, <1>2, <1>4, <1>5, <1>6 DEF Feed, Delivered, FeedIsInOrder
  <1>7. CASE socket[r] = "open"
    <2>1. \A q \in Runs \ {r} : socket[q] # "open"
      BY <1>7 DEF Feed, Sockets, Live
    <2>2. e \in Nat /\ e = wire[r][1] /\ 1 \in 1 .. Len(wire[r])
      BY <1>1, <1>3, TailRises
    <2> HIDE DEF e
    <2>3. Newer(<<e>>, events)
      BY <1>3, <1>7, <2>2 DEF Newer
    <2>4. /\ events' = Shown(e) /\ events' \in Seq(Nat) /\ FeedIsInOrder'
          /\ \A i \in 1 .. Len(events') : events'[i] = e \/ \E j \in 1 .. Len(events) : events'[i] = events[j]
      <3>1. events' = Shown(e)
        BY <1>1, <1>7
      <3> QED BY <1>3, <2>2, <2>3, <3>1, ShownKeeps DEF FeedIsInOrder
    <2>5. Upto(events', published)
      BY <1>3, <2>2, <2>4 DEF Upto
    <2>6. Newer(wire'[r], events')
      <3>1. ASSUME NEW i \in 1 .. Len(Tail(wire[r])), NEW j \in 1 .. Len(events')
            PROVE  Tail(wire[r])[i] > events'[j]
        <4>1. /\ i + 1 \in 1 .. Len(wire[r]) /\ Tail(wire[r])[i] = wire[r][i + 1]
              /\ Tail(wire[r])[i] > e
          BY <1>1, <1>3, TailRises DEF e
        <4>2. CASE events'[j] = e
          BY <4>1, <4>2
        <4>3. ASSUME NEW k \in 1 .. Len(events), events'[j] = events[k]
              PROVE  Tail(wire[r])[i] > events'[j]
          BY <1>3, <1>7, <4>1, <4>3 DEF Newer
        <4> QED BY <2>4, <4>2, <4>3
      <3> QED BY <1>4, <3>1 DEF Newer
    <2>7. Delivered'
      BY <1>1, <1>4, <1>5, <1>7, <2>1, <2>4, <2>5, <2>6 DEF Feed, Delivered
    <2> QED BY <1>2, <2>7 DEF Feed
  <1> QED BY <1>1, <1>6, <1>7

LEMMA ReloadKeeps == ASSUME Feed, Reload PROVE Feed'
  <1>1. /\ timers' = {} /\ socket' = [r \in Runs |-> "none"]
        /\ wire' = [r \in Runs |-> <<>>] /\ events' = <<>> /\ UNCHANGED <<run, published>>
        /\ streams' = {[s EXCEPT !.linked = FALSE] : s \in streams}
    BY DEF Reload
  <1>2. streams' \subseteq Stream /\ \A s \in streams' : ~ s.linked
    BY <1>1 DEF Feed, Sockets, Stream
  <1>3. Sockets'
    BY <1>1, <1>2 DEF Feed, Sockets, SocketStates
  <1>4. Delivered'
    BY <1>1, Nothing DEF Feed, Delivered, FeedIsInOrder
  <1> QED BY <1>3, <1>4 DEF Feed

LEMMA FeedSteps == Feed /\ [Next]_vars => Feed'
  <1> SUFFICES ASSUME Feed, [Next]_vars PROVE Feed'
    OBVIOUS
  <1>1. ASSUME UNCHANGED <<run, ran, socket, timers, streams, wire, published, events>> PROVE Feed'
    BY <1>1 DEF Feed, Sockets, Live, Delivered, FeedIsInOrder
  <1>2. CASE UNCHANGED feedVars
    BY <1>1, <1>2 DEF feedVars
  <1>3. ASSUME NEW user, Watches(user) PROVE Feed'
    BY <1>1, <1>3 DEF Watches
  <1>4. CASE FeedStep
    BY <1>3, <1>4, RunEffectKeeps, ReloadKeeps, ClosesKeeps, ReconnectsKeeps, ReceivesKeeps,
       AcceptsKeeps, SubscribesKeeps, PublishKeeps DEF FeedStep
  <1> QED BY <1>2, <1>4 DEF Next, vars

(* Whatever connects, closes, expires and is reloaded in whatever order,   *)
(* the tab lists no event twice and none after a later one.                *)
THEOREM TheFeedIsInOrder == Spec => []FeedIsInOrder
  <1>1. Feed => FeedIsInOrder
    BY DEF Feed, Delivered
  <1> QED BY <1>1, FeedInit, FeedSteps, PTL DEF Spec

------------------------------------------------------------------------------
(* The types of the tab, of its feed and of what the server holds of it.   *)
LEMMA TypeInit == Init => TypeOK
  <1> SUFFICES ASSUME Init PROVE TypeOK
    OBVIOUS
  <1> USE SessionAssumption, LiveFeedAssumption DEF SessionAssumption, LiveFeedAssumption
  <1>1. SessionTypeOK
    BY DEF Init, InitSession, SessionTypeOK, NoCall
  <1>2. run = 0 /\ ran = 0 /\ token \in [Runs -> 0 .. Len(issued)]
    BY DEF Init, InitSession
  <1>3. published = 0 /\ wire \in [Runs -> Seq(1 .. published)] /\ events = <<>>
    BY DEF Init
  <1>4. events \in Seq(1 .. published) /\ Len(events) = 0
    BY <1>3
  <1>5. focus \in {"calls", "feed"} /\ wired \in BOOLEAN
    BY DEF Init
  <1>6. socket \in [Runs -> {"none", "connecting", "open", "closing"}]
    BY DEF Init
  <1>7. watching = {} /\ timers = {} /\ streams = {}
    BY DEF Init
  <1> QED BY <1>1, <1>2, <1>3, <1>4, <1>5, <1>6, <1>7 DEF TypeOK

CallType(pairs) ==
    [Calls -> [at : {"idle", "sent", "refreshing"}, token : 0 .. pairs, retried : BOOLEAN]]

LEMMA NoCallType ==
    ASSUME NEW pairs \in Nat, NEW calls \in CallType(pairs)
    PROVE  /\ [c \in Calls |-> NoCall] \in CallType(pairs)
           /\ \A c \in Calls : [calls EXCEPT ![c] = NoCall] \in CallType(pairs)
  <1>1. NoCall \in [at : {"idle", "sent", "refreshing"}, token : 0 .. pairs, retried : BOOLEAN]
    BY DEF NoCall
  <1> QED BY <1>1 DEF CallType

\* A step that leaves the pairs alone and leaves or ends the login.
LEMMA NoNewPair ==
    ASSUME SessionTypeOK, UNCHANGED issued, call' \in CallType(Len(issued)),
           \/ UNCHANGED <<access, refresh, phone>> /\ page' \in {"login", "dashboard", "other"}
              /\ (access = 0 => page' = "login")
           \/ LogOut,
           stage' \in [1 .. MaxPairs -> {"fresh", "stale", "dead"}]
    PROVE  SessionTypeOK'
  BY DEF SessionTypeOK, LogOut, CallType

\* A step that stores a new pair.
LEMMA NewPair ==
    ASSUME SessionTypeOK, NEW user \in Users, Issue(user), NEW name \in Users \union {NoName},
           StorePair(Len(issued'), name), call' \in CallType(Len(issued')),
           UNCHANGED stage, page' \in {"login", "dashboard", "other"}
    PROVE  SessionTypeOK'
  <1>1. /\ issued' \in Seq(Users) /\ Len(issued') = Len(issued) + 1
        /\ Len(issued) \in Nat /\ Len(issued') # 0 /\ Len(issued) < MaxPairs
    BY Issued DEF SessionTypeOK, Issue
  <1>2. access' = Len(issued') /\ refresh' = Len(issued') /\ phone' = name
    BY DEF StorePair
  <1> QED BY <1>1, <1>2, SessionAssumption DEF SessionTypeOK, CallType, SessionAssumption

LEMMA SessionTypeStep ==
    ASSUME Stored, SessionTypeOK, SessionStep
    PROVE  SessionTypeOK' /\ Len(issued) <= Len(issued')
  <1>0. /\ call \in CallType(Len(issued)) /\ issued \in Seq(Users) /\ Len(issued) \in Nat
        /\ stage \in [1 .. MaxPairs -> {"fresh", "stale", "dead"}]
        /\ page \in {"login", "dashboard", "other"} /\ (access = 0 => page = "login")
    BY DEF SessionTypeOK, CallType
  <1>1. ASSUME NEW user \in Users, LogIn(user) PROVE SessionTypeOK' /\ Len(issued) <= Len(issued')
    <2>1. /\ Issue(user) /\ StorePair(Len(issued'), user) /\ UNCHANGED <<stage, call>>
          /\ page' = "dashboard"
      BY <1>1 DEF LogIn
    <2>2. Len(issued') = Len(issued) + 1
      BY <1>0, <2>1, Issued
    <2>3. call' \in CallType(Len(issued'))
      BY <1>0, <2>1, <2>2 DEF CallType
    <2> QED BY <1>0, <2>1, <2>2, <2>3, NewPair
  <1>2. ASSUME NEW c \in Calls, Refreshed(c) PROVE SessionTypeOK' /\ Len(issued) <= Len(issued')
    <2> DEFINE name == IF phone = NoPhone THEN NoName ELSE phone
    <2>1. /\ Issue(issued[call[c].token]) /\ StorePair(Len(issued'), name)
          /\ UNCHANGED <<stage, page>>
          /\ call' = [call EXCEPT ![c] = [at |-> "sent", token |-> Len(issued'), retried |-> TRUE]]
      BY <1>2 DEF Refreshed, Becomes
    <2>2. issued[call[c].token] \in Users
      BY <1>2 DEF Refreshed, Stored
    <2>3. Len(issued') = Len(issued) + 1
      BY <1>0, <2>1, <2>2, Issued
    <2>4. call' \in CallType(Len(issued'))
      BY <1>0, <2>1, <2>3 DEF CallType
    <2>5. name \in Users \union {NoName}
      BY DEF SessionTypeOK
    <2> HIDE DEF name
    <2>6. page' \in {"login", "dashboard", "other"}
      BY <1>0, <2>1
    <2>7. SessionTypeOK'
      BY <2>1, <2>2, <2>4, <2>5, <2>6, NewPair
    <2> QED BY <1>0, <2>3, <2>7
  <1>3. ASSUME NEW c \in Calls, Send(c) \/ AsksAgain(c)
        PROVE  SessionTypeOK' /\ Len(issued) <= Len(issued')
    <2>1. /\ UNCHANGED <<access, refresh, phone, issued, stage, page>>
          /\ \/ call' = [call EXCEPT ![c] = [at |-> "sent", token |-> access, retried |-> FALSE]]
             \/ call' = [call EXCEPT ![c] = [at |-> "refreshing", token |-> refresh, retried |-> TRUE]]
      BY <1>3 DEF Send, AsksAgain, Becomes, store
    <2>2. access \in 0 .. Len(issued) /\ refresh \in 0 .. Len(issued)
      BY DEF SessionTypeOK
    <2>3. call' \in CallType(Len(issued))
      <3>1. ASSUME NEW at \in {"sent", "refreshing"}, NEW pair \in 0 .. Len(issued), NEW retried \in BOOLEAN,
                   call' = [call EXCEPT ![c] = [at |-> at, token |-> pair, retried |-> retried]]
            PROVE  call' \in CallType(Len(issued))
        BY <1>0, <3>1 DEF CallType
      <3> QED BY <2>1, <2>2, <3>1
    <2>4. /\ UNCHANGED issued /\ stage' \in [1 .. MaxPairs -> {"fresh", "stale", "dead"}]
          /\ UNCHANGED <<access, refresh, phone>> /\ page' \in {"login", "dashboard", "other"}
          /\ (access = 0 => page' = "login")
      BY <1>0, <2>1
    <2>5. SessionTypeOK'
      BY <2>3, <2>4, NoNewPair
    <2> QED BY <1>0, <2>4, <2>5
  <1>4. ASSUME NEW c \in Calls, \/ Settles(c) \/ HasNothingToAskWith(c) \/ RefusedAgain(c)
                                \/ RefreshFails(c)
        PROVE  SessionTypeOK' /\ Len(issued) <= Len(issued')
    <2>1. /\ UNCHANGED <<issued, stage>> /\ (LogOut \/ UNCHANGED <<access, refresh, phone, page>>)
          /\ call' = [call EXCEPT ![c] = NoCall]
      BY <1>4 DEF Settles, HasNothingToAskWith, RefusedAgain, RefreshFails, PassOn, Ends, store
    <2>2. call' \in CallType(Len(issued))
      BY <1>0, <2>1, NoCallType
    <2> QED BY <1>0, <2>1, <2>2, NoNewPair
  <1>5. ASSUME NEW n \in 1 .. MaxPairs, Expires(n)
        PROVE  SessionTypeOK' /\ Len(issued) <= Len(issued')
    <2>1. /\ UNCHANGED <<access, refresh, phone, issued, call, page>>
          /\ stage' = [stage EXCEPT ![n] = IF @ = "fresh" THEN "stale" ELSE "dead"]
      BY <1>5 DEF Expires, store
    <2>2. stage' \in [1 .. MaxPairs -> {"fresh", "stale", "dead"}]
      BY <1>0, <2>1
    <2> QED BY <1>0, <2>1, <2>2, NoNewPair
  <1>6. CASE Navigate
    <2>1. /\ UNCHANGED <<access, refresh, phone, issued, stage, call>> /\ access # 0
          /\ page' \in {"login", "dashboard", "other"}
      BY <1>6 DEF Navigate, store
    <2> QED BY <1>0, <2>1, NoNewPair
  <1> QED BY <1>1, <1>2, <1>3, <1>4, <1>5, <1>6 DEF SessionStep

LEMMA FeedStepsKeepTheSession ==
    ASSUME SessionTypeOK, FeedStep
    PROVE  SessionTypeOK' /\ UNCHANGED <<issued, stage, access, page>>
  <1>1. UNCHANGED <<access, refresh, phone, issued, stage, page>>
        /\ (call' = call \/ call' = [c \in Calls |-> NoCall])
    BY DEF FeedStep, RunEffect, Reload, Closes, Reconnects, Receives, Accepts, Subscribes,
           Publish, Watches, sessionVars, store
  <1>2. call' \in CallType(Len(issued))
    <2>1. Len(issued) \in Nat /\ call \in CallType(Len(issued))
      BY DEF SessionTypeOK, CallType
    <2> QED BY <1>1, <2>1, NoCallType
  <1>3. SessionTypeOK'
    BY <1>1, <1>2, NoNewPair DEF SessionTypeOK
  <1> QED BY <1>1, <1>3

\* What the type invariant says of the feed beyond Feed.
Held ==
    /\ focus \in {"calls", "feed"} /\ wired \in BOOLEAN /\ watching \subseteq Users
    /\ run \in 0 .. MaxRuns /\ ran \in 0 .. Len(issued)
    /\ token \in [Runs -> 0 .. Len(issued)]
    /\ \A s, t \in streams : s.run = t.run /\ s.linked /\ t.linked => s = t
    /\ published \in 0 .. MaxEvents /\ wire \in [Runs -> Seq(1 .. published)]
    /\ events \in Seq(1 .. published) /\ Len(events) <= MaxShown

LEMMA TypeParts == TypeOK => SessionTypeOK /\ Held
  BY DEF TypeOK, Held

LEMMA SessionStepsHold ==
    ASSUME Held, UNCHANGED feedVars, Len(issued) \in Nat, Len(issued') \in Nat,
           Len(issued) <= Len(issued')
    PROVE  Held'
  <1>1. \A n \in 0 .. Len(issued) : n \in 0 .. Len(issued')
    OBVIOUS
  <1>2. ran' \in 0 .. Len(issued') /\ token' \in [Runs -> 0 .. Len(issued')]
    BY <1>1 DEF Held, feedVars
  <1> QED BY <1>2 DEF Held, feedVars

LEMMA RunEffectHolds == ASSUME SessionTypeOK, Held, RunEffect, UNCHANGED issued PROVE Held'
  <1> USE LiveFeedAssumption DEF LiveFeedAssumption
  <1>1. /\ UNCHANGED <<focus, wired, watching, streams, published, wire, events>>
        /\ ran' = Wanted
    BY DEF RunEffect, server
  <1>2. Wanted \in 0 .. Len(issued)
    BY DEF Wanted, SessionTypeOK
  <1>3. run' \in 0 .. MaxRuns /\ token' \in [Runs -> 0 .. Len(issued)]
    <2>1. CASE Wanted = 0
      BY <2>1 DEF RunEffect, Held
    <2>2. CASE Wanted # 0
      <3>1. run < MaxRuns /\ run' = run + 1 /\ token' = [token EXCEPT ![run'] = Wanted]
        BY <2>2 DEF RunEffect
      <3>2. run' \in 0 .. MaxRuns
        BY <3>1 DEF Held
      <3>3. token' \in [Runs -> 0 .. Len(issued)]
        BY <1>2, <3>1 DEF Held
      <3> QED BY <3>2, <3>3
    <2> QED BY <2>1, <2>2
  <1> QED BY <1>1, <1>2, <1>3 DEF Held

LEMMA ClosesHolds == ASSUME Feed, Held, NEW r \in Runs, Closes(r), UNCHANGED issued PROVE Held'
  <1>1. /\ UNCHANGED <<focus, wired, watching, run, ran, token, published, events>>
        /\ wire' = [wire EXCEPT ![r] = <<>>]
        /\ streams' = {IF s.run = r THEN [s EXCEPT !.linked = FALSE] ELSE s : s \in streams}
    BY DEF Closes
  <1>2. wire' \in [Runs -> Seq(1 .. published)]
    BY <1>1 DEF Held
  <1>3. \A s, t \in streams' : s.run = t.run /\ s.linked /\ t.linked => s = t
    <2>1. \A s \in streams' : s.linked => s \in streams
      BY <1>1 DEF Feed, Sockets, Stream
    <2> QED BY <2>1 DEF Held
  <1> QED BY <1>1, <1>2, <1>3 DEF Held

LEMMA ReceivesHolds == ASSUME Held, NEW r \in Runs, Receives(r), UNCHANGED issued PROVE Held'
  <1> USE LiveFeedAssumption DEF LiveFeedAssumption
  <1>1. /\ UNCHANGED <<focus, wired, watching, streams, published, run, ran, token>>
        /\ wire[r] # <<>> /\ wire' = [wire EXCEPT ![r] = Tail(wire[r])]
        /\ events' = Shown(Head(wire[r])) \/ UNCHANGED events
    BY DEF Receives, server
  <1>2. wire[r] \in Seq(1 .. published)
    BY DEF Held
  <1>3. Head(wire[r]) \in 1 .. published /\ Tail(wire[r]) \in Seq(1 .. published)
    BY <1>1, <1>2, HeadTailProperties
  <1>4. wire' \in [Runs -> Seq(1 .. published)]
    BY <1>1, <1>3 DEF Held
  <1>5. ASSUME NEW e \in 1 .. published
        PROVE  Shown(e) \in Seq(1 .. published) /\ Len(Shown(e)) <= MaxShown
    <2> DEFINE all == <<e>> \o events
               n == IF Len(events) < MaxShown THEN Len(events) + 1 ELSE MaxShown
    <2>1. events \in Seq(1 .. published) /\ Len(events) \in Nat /\ Len(events) <= MaxShown
      BY DEF Held
    <2>2. all \in Seq(1 .. published) /\ Len(all) = Len(events) + 1
      BY <2>1
    <2>3. n \in Nat /\ n <= Len(events) + 1 /\ n <= MaxShown
      BY <2>1
    <2>4. Shown(e) = SubSeq(all, 1, n)
      BY DEF Shown
    <2> HIDE DEF all, n
    <2>5. \A i \in 1 .. n : all[i] \in 1 .. published
      <3>1. \A i \in 1 .. n : i \in 1 .. Len(all)
        BY <2>1, <2>2, <2>3
      <3> QED BY <2>2, <3>1, ElementOfSeq
    <2>6. Shown(e) \in Seq(1 .. published) /\ Len(Shown(e)) = n
      BY <2>3, <2>4, <2>5, SubSeqProperties
    <2> QED BY <2>3, <2>6
  <1>6. events' \in Seq(1 .. published) /\ Len(events') <= MaxShown
    BY <1>1, <1>3, <1>5 DEF Held
  <1> QED BY <1>1, <1>4, <1>6 DEF Held

LEMMA AcceptsHolds == ASSUME Feed, Held, NEW r \in Runs, Accepts(r), UNCHANGED issued PROVE Held'
  <1> DEFINE handler == [run |-> r, linked |-> TRUE, subscribed |-> FALSE]
  <1>1. /\ UNCHANGED <<focus, wired, watching, run, ran, token, wire, published, events>>
        /\ socket[r] = "connecting" /\ streams' = streams \union {handler}
    BY DEF Accepts
  <1>2. handler.run = r
    OBVIOUS
  <1> HIDE DEF handler
  <1>3. \A s \in streams : s.linked => s.run # r
    BY <1>1 DEF Feed, Sockets
  <1>4. \A s, t \in streams' : s.run = t.run /\ s.linked /\ t.linked => s = t
    BY <1>1, <1>2, <1>3 DEF Held
  <1> QED BY <1>1, <1>4 DEF Held

LEMMA SubscribesHolds ==
    ASSUME Feed, Held, NEW s \in streams, Subscribes(s), UNCHANGED issued PROVE Held'
  <1> DEFINE handler == [s EXCEPT !.subscribed = TRUE]
  <1>1. /\ UNCHANGED <<focus, wired, watching, run, ran, token, wire, published, events>>
        /\ streams' = (streams \ {s}) \union {handler}
    BY DEF Subscribes
  <1>2. handler.run = s.run /\ handler.linked = s.linked
    BY DEF Feed, Sockets, Stream
  <1> HIDE DEF handler
  <1>3. \A t, u \in streams' : t.run = u.run /\ t.linked /\ u.linked => t = u
    BY <1>1, <1>2 DEF Held
  <1> QED BY <1>1, <1>3 DEF Held

LEMMA PublishHolds == ASSUME Held, NEW user, Publish(user), UNCHANGED issued PROVE Held'
  <1> USE LiveFeedAssumption DEF LiveFeedAssumption
  <1> DEFINE reached == {s \in streams : s.subscribed /\ UserOf(s.run) = user}
             linked  == {s.run : s \in {t \in reached : t.linked}}
  <1>1. /\ UNCHANGED <<focus, wired, watching, run, ran, token, events>>
        /\ published < MaxEvents /\ published' = published + 1
        /\ wire' = [r \in Runs |-> IF r \in linked THEN Append(wire[r], published') ELSE wire[r]]
        /\ streams' \subseteq streams
    BY DEF Publish
  <1> HIDE DEF linked, reached
  <1>2. published' \in 0 .. MaxEvents /\ published' \in 1 .. published'
        /\ 1 .. published \subseteq 1 .. published'
    BY <1>1 DEF Held
  <1>3. ASSUME NEW q \in Seq(1 .. published)
        PROVE  q \in Seq(1 .. published') /\ Append(q, published') \in Seq(1 .. published')
    <2>1. q \in Seq(1 .. published')
      BY <1>2, SeqMonotonic
    <2> QED BY <1>2, <2>1
  <1>4. wire' \in [Runs -> Seq(1 .. published')]
    BY <1>1, <1>3 DEF Held
  <1>5. events' \in Seq(1 .. published') /\ Len(events') <= MaxShown
    BY <1>1, <1>3 DEF Held
  <1> QED BY <1>1, <1>2, <1>4, <1>5 DEF Held

LEMMA ReloadHolds == ASSUME Feed, Held, Reload, UNCHANGED issued PROVE Held'
  <1> USE LiveFeedAssumption DEF LiveFeedAssumption
  <1>1. /\ UNCHANGED <<focus, wired, watching, run, token, published>> /\ ran' = 0
        /\ wire' = [r \in Runs |-> <<>>] /\ events' = <<>>
        /\ streams' = {[s EXCEPT !.linked = FALSE] : s \in streams}
    BY DEF Reload
  <1>2. wire' \in [Runs -> Seq(1 .. published)] /\ events' \in Seq(1 .. published) /\ Len(events') = 0
    BY <1>1
  <1>3. ran' \in 0 .. Len(issued)
    BY <1>1 DEF Held
  <1>4. \A s \in streams' : ~ s.linked
    BY <1>1 DEF Feed, Sockets, Stream
  <1> QED BY <1>1, <1>2, <1>3, <1>4 DEF Held

\* No state between two steps of the tab and of the server has another shape.
LEMMA TypeStep == Stored /\ Feed /\ TypeOK /\ [Next]_vars => TypeOK'
  <1> SUFFICES ASSUME Stored, Feed, TypeOK, [Next]_vars PROVE TypeOK'
    OBVIOUS
  <1>1. SessionTypeOK /\ Held
    BY TypeParts
  <1>2. Feed'
    BY FeedSteps
  <1>3. SessionTypeOK' /\ Held' => TypeOK'
    BY <1>2 DEF TypeOK, Held, Feed, Sockets, SocketStates, Stream
  <1>4. ASSUME SessionStep, UNCHANGED feedVars PROVE TypeOK'
    <2>1. SessionTypeOK' /\ Len(issued) <= Len(issued')
      BY <1>1, <1>4, SessionTypeStep
    <2>2. Len(issued) \in Nat /\ Len(issued') \in Nat
      BY <1>1, <2>1 DEF SessionTypeOK
    <2> QED BY <1>1, <1>3, <1>4, <2>1, <2>2, SessionStepsHold
  <1>5. ASSUME FeedStep PROVE TypeOK'
    <2>1. SessionTypeOK' /\ UNCHANGED issued
      BY <1>1, <1>5, FeedStepsKeepTheSession
    <2>2. ASSUME NEW r \in Runs, Reconnects(r) PROVE Held'
      BY <1>1, <2>1, <2>2 DEF Reconnects, Held, server
    <2>3. ASSUME NEW user \in FeedUsers, Watches(user) PROVE Held'
      BY <1>1, <2>1, <2>3, LiveFeedAssumption DEF Watches, Held, LiveFeedAssumption
    <2>4. Held'
      BY <1>1, <1>5, <2>1, <2>2, <2>3, RunEffectHolds, ReloadHolds, ClosesHolds, ReceivesHolds,
         AcceptsHolds, SubscribesHolds, PublishHolds DEF FeedStep
    <2> QED BY <1>3, <2>1, <2>4
  <1>6. CASE UNCHANGED vars
    BY <1>1, <1>3, <1>6 DEF vars, sessionVars, feedVars, SessionTypeOK, Held
  <1> QED BY <1>4, <1>5, <1>6 DEF Next

(* The tab keeps a token pair or none, each socket has one handler at most *)
(* that still holds it, and the list is never longer than it may be.       *)
THEOREM LiveFeedTypeCorrect == Spec => []TypeOK
  BY TypeInit, StoredInit, FeedInit, StoredStep, FeedSteps, TypeStep, PTL DEF Spec
=============================================================================
