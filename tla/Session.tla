------------------------------ MODULE Session ------------------------------
(***************************************************************************)
(* The login of one dashboard tab: the token pair it keeps, the calls it   *)
(* makes with it, and the interceptor that answers a 401 by asking for a   *)
(* new pair and sending the call again.  Several calls are out at once and *)
(* their answers come in any order.  Token pairs are numbered as they are  *)
(* issued; the server keeps nothing of them and only looks at their age.   *)
(***************************************************************************)
EXTENDS Naturals, Sequences

CONSTANTS
    Users,
    Calls,     \* the calls that may be out at once
    MaxPairs,  \* bound: token pairs ever issued
    NoPhone,   \* phoneNumber: null
    NoName     \* phoneNumber: ""

ASSUME SessionAssumption ==
    MaxPairs \in Nat /\ NoPhone \notin Users /\ NoName \notin Users /\ NoPhone # NoName

VARIABLES
    access, refresh,  \* the tokens of the store: the number of their pair, 0 for null
    phone,            \* phoneNumber of the store
    issued,           \* whose each pair is
    stage,            \* fresh; stale, its access token expired; dead, the refresh token too
    call,             \* what became of each call, and the token it was sent with
    page              \* the route the tab shows

store == <<access, refresh, phone>>
sessionVars == <<access, refresh, phone, issued, stage, call, page>>

NoCall == [at |-> "idle", token |-> 0, retried |-> FALSE]

SessionTypeOK ==
    /\ issued \in Seq(Users) /\ Len(issued) <= MaxPairs
    /\ {access, refresh} \subseteq 0 .. Len(issued)
    /\ phone \in Users \union {NoPhone, NoName}
    /\ access = 0 <=> phone = NoPhone
    /\ stage \in [1 .. MaxPairs -> {"fresh", "stale", "dead"}]
    /\ call \in [Calls -> [at : {"idle", "sent", "refreshing"}, token : 0 .. Len(issued), retried : BOOLEAN]]
    /\ page \in {"login", "dashboard", "other"} /\ (access = 0 => page = "login")

InitSession ==
    /\ access = 0 /\ refresh = 0 /\ phone = NoPhone
    /\ issued = <<>> /\ stage = [n \in 1 .. MaxPairs |-> "fresh"]
    /\ call = [c \in Calls |-> NoCall]
    /\ page = "login"

------------------------------------------------------------------------------
(* The store                                                               *)

Issue(user) == Len(issued) < MaxPairs /\ issued' = Append(issued, user)

StorePairOnly(pair, name) ==
    access' = pair /\ refresh' = pair /\ phone' = IF phone = NoPhone THEN name ELSE phone
StorePair(pair, name) == access' = pair /\ refresh' = pair /\ phone' = name

\* Without tokens every route but the login page redirects to it.
LogOutNamed == access' = 0 /\ refresh' = 0 /\ phone' = phone /\ page' = "login"
LogOut == access' = 0 /\ refresh' = 0 /\ phone' = NoPhone /\ page' = "login"

\* The code was right: the pair is stored and the dashboard shown.
LogIn(user) ==
    /\ page = "login"
    /\ Issue(user)
    /\ StorePair(Len(issued'), user)
    /\ page' = "dashboard"
    /\ UNCHANGED <<stage, call>>

------------------------------------------------------------------------------
(* Calls and the interceptors                                              *)

Becomes(c, at, token, retried) ==
    call' = [call EXCEPT ![c] = [at |-> at, token |-> token, retried |-> retried]]
Ends(c) == call' = [call EXCEPT ![c] = NoCall]

Send(c) ==
    /\ call[c].at = "idle" /\ access # 0
    /\ Becomes(c, "sent", access, FALSE)
    /\ UNCHANGED <<store, issued, stage, page>>

\* Answered, refused with anything but 401, or not answered at all.
Settles(c) ==
    /\ call[c].at = "sent"
    /\ Ends(c)
    /\ UNCHANGED <<store, issued, stage, page>>

Unauthorized(c) == call[c].at = "sent" /\ stage[call[c].token] # "fresh"

AsksAgain(c) ==
    /\ Unauthorized(c) /\ ~ call[c].retried /\ refresh # 0
    /\ Becomes(c, "refreshing", refresh, TRUE)
    /\ UNCHANGED <<store, issued, stage, page>>

HasNothingToAskWith(c) ==
    /\ Unauthorized(c) /\ ~ call[c].retried /\ refresh = 0
    /\ LogOut /\ Ends(c)
    /\ UNCHANGED <<issued, stage>>

\* The promise of the second call is returned, not awaited: the catch does not see it fail.
LogOutOnRetry == LogOut
PassOn == UNCHANGED <<store, page>>

RefusedAgain(c) ==
    /\ Unauthorized(c) /\ call[c].retried
    /\ PassOn /\ Ends(c)
    /\ UNCHANGED <<issued, stage>>

\* Whoever is logged in by now keeps the phone number of the tab; nobody leaves "".
Refreshed(c) ==
    /\ call[c].at = "refreshing" /\ stage[call[c].token] # "dead"
    /\ Issue(issued[call[c].token])
    /\ StorePair(Len(issued'), IF phone = NoPhone THEN NoName ELSE phone)
    /\ Becomes(c, "sent", Len(issued'), TRUE)
    /\ UNCHANGED <<stage, page>>

\* Refused, or not answered: the catch does not ask which.
RefreshFails(c) ==
    /\ call[c].at = "refreshing"
    /\ LogOut /\ Ends(c)
    /\ UNCHANGED <<issued, stage>>

------------------------------------------------------------------------------
Expires(n) ==
    /\ n \in 1 .. Len(issued) /\ stage[n] # "dead"
    /\ stage' = [stage EXCEPT ![n] = IF @ = "fresh" THEN "stale" ELSE "dead"]
    /\ UNCHANGED <<store, issued, call, page>>

\* The login page is reached by the browser's back button.
Navigate ==
    /\ access # 0
    /\ page' \in {"login", "dashboard", "other"} \ {page}
    /\ UNCHANGED <<store, issued, stage, call>>

SessionStep ==
    \/ \E user \in Users : LogIn(user)
    \/ \E c \in Calls : \/ Send(c) \/ Settles(c)
                        \/ AsksAgain(c) \/ HasNothingToAskWith(c) \/ RefusedAgain(c)
                        \/ Refreshed(c) \/ RefreshFails(c)
    \/ \E n \in 1 .. MaxPairs : Expires(n)
    \/ Navigate

------------------------------------------------------------------------------
(* Whatever 401s and failures the calls of a tab meet, in any order, only  *)
(* a failing refresh ends a login: never a call that fails a second time.  *)
LoggedOutOnlyByAFailedRefresh ==
    [][access # 0 /\ access' = 0 =>
          \E c \in Calls : call[c].at = "refreshing" /\ call'[c].at = "idle"]_sessionVars

(* The tab shows the phone number of another user than the one its tokens  *)
(* are for only when a refresh asked for by one login is answered in the   *)
(* next, or after a logout, which it undoes.                               *)
ShowsItsUser == access = 0 \/ phone = issued[access]
TheUserIsWhoLoggedIn ==
    [][ShowsItsUser /\ ~ ShowsItsUser' =>
          \E c \in Calls : /\ call[c].at = "refreshing" /\ call'[c].at = "sent"
                           /\ access = 0 \/ issued[call[c].token] # issued[access]]_sessionVars
==============================================================================
