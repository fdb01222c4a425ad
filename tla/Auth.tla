-------------------------------- MODULE Auth --------------------------------
(***************************************************************************)
(* Logging in with a one-time code: the challenges of one phone number and *)
(* the requests that create and verify them, several at once.  A code is   *)
(* known by the challenge it was made for.                                 *)
(***************************************************************************)
EXTENDS Requests

CONSTANTS
    MaxPerHour,     \* otp_max_per_hour
    MaxAttempts,    \* otp_max_attempts
    MaxChallenges   \* bound: challenges ever created

ASSUME AuthAssumption ==
    MaxPerHour \in Nat /\ MaxAttempts \in Nat \ {0} /\ MaxChallenges \in Nat

VARIABLES
    stamp,       \* challenges are numbered by their created_at
    challenges,  \* the rows
    accounts,    \* rows of users with this phone number
    logins       \* for each challenge, the token pairs issued on it

authVars == <<stamp, challenges, accounts, logins>>

Fresh(n) == [id |-> n, consumed |-> FALSE, attempts |-> 0, expired |-> FALSE, recent |-> TRUE]

AuthTypeOK ==
    /\ stamp \in 0 .. MaxChallenges /\ accounts \in 0 .. 1   \* uq_users_phone
    /\ challenges \subseteq [id : 1 .. stamp, consumed : BOOLEAN, attempts : 0 .. MaxAttempts,
                             expired : BOOLEAN, recent : BOOLEAN]
    /\ \A c, d \in challenges : c.id = d.id => c = d
    /\ logins \in [1 .. MaxChallenges -> Nat]

InitAuth ==
    /\ stamp = 0 /\ challenges = {} /\ accounts = 0
    /\ logins = [n \in 1 .. MaxChallenges |-> 0]

------------------------------------------------------------------------------
CountRecent == Cardinality({c \in challenges : c.recent})

\* get_latest: the challenge created last, as far as it is committed.
Latest == {c \in challenges : \A d \in challenges : d.id <= c.id}

UnderNoCap == TRUE
UnderCap == CountRecent < MaxPerHour

\* The code is sent before the challenge is committed.
RequestOtp(r) ==
    \/ /\ stamp + Cardinality({q \in Requests : Runs(q, "requestOtp", "act")}) < MaxChallenges
       /\ Receive(r, "requestOtp", "none", "none", 0, "act") /\ UNCHANGED authVars
    \/ Runs(r, "requestOtp", "act") /\ ~ UnderCap /\ Over(r) /\ UNCHANGED authVars
    \/ /\ Runs(r, "requestOtp", "act") /\ UnderCap
       /\ stamp' = stamp + 1
       /\ Remember(r, stamp', "commit")
       /\ UNCHANGED <<challenges, accounts, logins>>
    \/ /\ Runs(r, "requestOtp", "commit")
       /\ challenges' = challenges \union {Fresh(seen[r])}
       /\ Over(r) /\ UNCHANGED <<stamp, accounts, logins>>

Usable(c) == ~ c.consumed /\ ~ c.expired /\ c.attempts < MaxAttempts

\* increment_attempt is undone: the handler raises next, and get_session does not commit.
CountedThenRolledBack(id) == UNCHANGED challenges

ConsumeNothing(id) == challenges
Consume(id) == {IF c.id = id THEN [c EXCEPT !.consumed = TRUE] ELSE c : c \in challenges}

NoAccountYet(r) == accounts = 0

\* A pair of tokens is answered once the commit is through.
LogIn(r) ==
    /\ challenges' = Consume(seen[r])
    /\ logins' = [logins EXCEPT ![seen[r]] = @ + 1]

\* mark_consumed is flushed by the next query; a second request for the row then waits.
Held(r) == \E q \in Requests : /\ q # r /\ call[q].op = "verifyOtp" /\ seen[q] = seen[r]
                              /\ pc[q] \in {"commit", "create"}

\* get_or_create_by_phone: of two first logins, one inserts the user and the other fails.
VerifyOtp(r) ==
    \/ /\ \E n \in 0 .. stamp : Receive(r, "verifyOtp", "none", "none", n, "act")
       /\ UNCHANGED authVars
    \/ \* no challenge, or none that can be used any more
       /\ Runs(r, "verifyOtp", "act") /\ ~ \E c \in Latest : Usable(c)
       /\ Over(r) /\ UNCHANGED authVars
    \/ \E c \in Latest :
          /\ Runs(r, "verifyOtp", "act") /\ Usable(c) /\ call[r].value # c.id
          /\ CountedThenRolledBack(c.id)
          /\ Over(r) /\ UNCHANGED <<stamp, accounts, logins>>
    \/ \E c \in Latest :
          /\ Runs(r, "verifyOtp", "act") /\ Usable(c) /\ call[r].value = c.id
          /\ Remember(r, c.id, "account") /\ UNCHANGED authVars
    \/ /\ Runs(r, "verifyOtp", "account") /\ ~ Held(r)
       /\ GoOn(r, IF accounts = 0 THEN "create" ELSE "commit") /\ UNCHANGED authVars
    \/ /\ Runs(r, "verifyOtp", "commit")
       /\ LogIn(r) /\ Over(r) /\ UNCHANGED <<stamp, accounts>>
    \/ /\ Runs(r, "verifyOtp", "create") /\ NoAccountYet(r)
       /\ accounts' = accounts + 1
       /\ LogIn(r) /\ Over(r) /\ UNCHANGED stamp
    \/ /\ Runs(r, "verifyOtp", "create") /\ ~ NoAccountYet(r)
       /\ Over(r) /\ UNCHANGED authVars

\* Five minutes after its creation a challenge expires; after an hour the cap forgets it.
TimePasses ==
    /\ \E c \in challenges :
          \/ ~ c.expired /\ challenges' = (challenges \ {c}) \union {[c EXCEPT !.expired = TRUE]}
          \/ /\ c.expired /\ c.recent
             /\ challenges' = (challenges \ {c}) \union {[c EXCEPT !.recent = FALSE]}
    /\ UNCHANGED <<stamp, accounts, logins, pc, call, seen>>

AuthRequest(r) == RequestOtp(r) \/ VerifyOtp(r)

------------------------------------------------------------------------------
(* The hourly cap is checked against the committed challenges, so requests *)
(* that run at once may pass it together: there are never more challenges  *)
(* than the cap and the other requests that were running.                  *)
HourlyCap ==
    MaxPerHour > 0 => CountRecent <= MaxPerHour + Cardinality(Requests) - 1

(* A code logs in once, or once for each request that was verifying it     *)
(* when it was consumed: never again after all of them are over.           *)
FewLoginsPerCode == \A n \in 1 .. MaxChallenges : logins[n] <= Cardinality(Requests)
==============================================================================
