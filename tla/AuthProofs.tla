----------------------------- MODULE AuthProofs -----------------------------
(***************************************************************************)
(* What one-time codes are good for, however many requests ask for and     *)
(* verify them at once.                                                    *)
(***************************************************************************)
EXTENDS ApiProofs, FunctionTheorems

Pending == {r \in Requests : Runs(r, "requestOtp", "commit")}
Verifying(n) == {r \in Requests : /\ call[r].op = "verifyOtp" /\ seen[r] = n
                                  /\ pc[r] \in {"account", "commit", "create"}}
Recent == {c \in challenges : c.recent}
Stored(n) == \E c \in challenges : c.id = n
Used(n) == \A c \in challenges : c.id = n => c.consumed

(* Each challenge has a number of its own from the moment it is decided to *)
(* create it; only stored ones are verified.                               *)
Numbered ==
    /\ \A c \in challenges : c.id <= stamp
    /\ \A r \in Pending : seen[r] <= stamp /\ ~ Stored(seen[r])
    /\ \A r, q \in Pending : seen[r] = seen[q] => r = q
    /\ \A n \in Nat : Verifying(n) # {} => Stored(n)

(* A code that logged somebody in is used, and then only the requests that *)
(* had found it usable go on.                                              *)
Counted ==
    /\ logins \in [1 .. MaxChallenges -> Nat]
    /\ \A n \in 1 .. MaxChallenges :
          logins[n] # 0 => /\ Stored(n) /\ Used(n)
                           /\ logins[n] + Cardinality(Verifying(n)) <= Cardinality(Requests)

(* Requests that passed the cap and have not committed are on top of it.   *)
Capped ==
    /\ IsFiniteSet(challenges)
    /\ MaxPerHour > 0 =>
          Cardinality(Recent) + Cardinality(Pending) <= MaxPerHour + Cardinality(Requests) - 1

Ledger == Numbered /\ Counted /\ Capped
Sound == Asked /\ Consistent /\ Codes

------------------------------------------------------------------------------
LEMMA FiniteRecent ==
    ASSUME Capped
    PROVE  IsFiniteSet(Recent) /\ Cardinality(Recent) \in Nat
  <1>1. Recent \in SUBSET challenges
    BY DEF Recent
  <1> QED BY <1>1, FS_Subset, FS_CardinalityType DEF Capped

LEMMA NobodyAsks ==
    ASSUME Asked, group # "otp"
    PROVE  Pending = {} /\ \A n : Verifying(n) = {}
  BY DEF Asked, OpsOfTheGroup, ProductOps, ChannelOps, Pending, Verifying, Runs

LEMMA TablesAreOfOtherGroups ==
    ASSUME Asked, Consistent, NEW r \in Requests, TableRequest(r)
    PROVE  group # "otp"
  BY DEF Asked, Consistent, Rows, OpsOfTheGroup, TableRequest, CreateProduct, DeleteProduct,
         CreateWatch, DeleteWatch, CreateChannel, VerifyChannel, DeleteChannel, UpdateSetting, Runs

\* Steps that leave challenges, logins and those who ask for codes alone.
LEMMA LedgerKept ==
    ASSUME Ledger, UNCHANGED <<stamp, challenges, logins>>, Pending' \subseteq Pending,
           \A r \in Pending' : seen'[r] = seen[r],
           \A n \in Nat : Verifying(n)' \subseteq Verifying(n)
    PROVE  Ledger'
  <1>1. Numbered'
    BY DEF Ledger, Numbered, Stored
  <1>2. \A n \in Nat : /\ Cardinality(Verifying(n)') <= Cardinality(Verifying(n))
                       /\ Cardinality(Verifying(n)) \in Nat /\ Cardinality(Verifying(n)') \in Nat
    <2> TAKE n \in Nat
    <2>1. Verifying(n) \in SUBSET Requests /\ Verifying(n)' \in SUBSET Verifying(n)
      BY DEF Verifying
    <2>2. IsFiniteSet(Verifying(n)) /\ Cardinality(Verifying(n)) \in Nat
      BY <2>1, Finite
    <2> QED BY <2>1, <2>2, FS_Subset, FS_CardinalityType
  <1>3. Counted'
    <2>1. logins' \in [1 .. MaxChallenges -> Nat]
      BY DEF Ledger, Counted
    <2>2. ASSUME NEW n \in 1 .. MaxChallenges, logins'[n] # 0
          PROVE  /\ Stored(n)' /\ Used(n)'
                 /\ logins'[n] + Cardinality(Verifying(n)') <= Cardinality(Requests)
      <3>1. /\ logins[n] \in Nat /\ logins'[n] = logins[n] /\ Stored(n) /\ Used(n)
            /\ logins[n] + Cardinality(Verifying(n)) <= Cardinality(Requests)
        BY <2>2 DEF Ledger, Counted
      <3>2. Stored(n)' /\ Used(n)'
        BY <3>1 DEF Stored, Used
      <3>3. /\ Cardinality(Verifying(n)') <= Cardinality(Verifying(n))
            /\ Cardinality(Verifying(n)) \in Nat /\ Cardinality(Verifying(n)') \in Nat
        BY <1>2
      <3> QED BY <3>1, <3>2, <3>3, Finite
    <2> QED BY <2>1, <2>2 DEF Counted
  <1>4. /\ Cardinality(Pending') <= Cardinality(Pending) /\ Cardinality(Pending) \in Nat
        /\ Cardinality(Pending') \in Nat
    <2>1. Pending \in SUBSET Requests /\ Pending' \in SUBSET Pending
      BY DEF Pending
    <2>2. IsFiniteSet(Pending) /\ Cardinality(Pending) \in Nat
      BY <2>1, Finite
    <2> QED BY <2>1, <2>2, FS_Subset, FS_CardinalityType
  <1>5. Capped'
    <2>1. Recent' = Recent /\ Cardinality(Recent) \in Nat
      BY FiniteRecent DEF Recent, Ledger
    <2> QED BY <1>4, <2>1, Finite, AuthAssumption DEF Ledger, Capped, AuthAssumption
  <1> QED BY <1>1, <1>3, <1>5 DEF Ledger

------------------------------------------------------------------------------
(* Asking for a code.                                                      *)

\* A request that comes in or goes on without a commit.
LEMMA AskKeeps ==
    ASSUME Sound, Ledger, NEW r \in Requests, UNCHANGED <<stamp, challenges, logins>>,
           \/ Over(r)
           \/ \E n : Receive(r, "verifyOtp", "none", "none", n, "act")
           \/ Receive(r, "requestOtp", "none", "none", 0, "act")
           \/ Runs(r, "verifyOtp", "account") /\ (GoOn(r, "create") \/ GoOn(r, "commit"))
    PROVE  Ledger'
  <1>1. /\ pc \in [Requests -> Steps] /\ seen \in [Requests -> Nat]
        /\ call = [q \in Requests |-> call[q]]
    BY DEF Sound, Asked
  <1>2. \A q \in Requests \ {r} : pc'[q] = pc[q] /\ call'[q] = call[q] /\ seen'[q] = seen[q]
    BY <1>1 DEF Over, Receive, GoOn
  <1>3. CASE pc'[r] \in {"idle", "act"}
    <2>1. Pending' \subseteq Pending /\ \A q \in Pending' : seen'[q] = seen[q]
      BY <1>2, <1>3 DEF Pending, Runs
    <2>2. \A n \in Nat : Verifying(n)' \subseteq Verifying(n)
      BY <1>2, <1>3 DEF Verifying
    <2> QED BY <2>1, <2>2, LedgerKept
  <1>4. CASE Runs(r, "verifyOtp", "account") /\ (GoOn(r, "create") \/ GoOn(r, "commit"))
    <2>1. UNCHANGED <<call, seen>> /\ call[r].op = "verifyOtp" /\ pc[r] = "account"
      BY <1>4 DEF GoOn, Runs
    <2>2. Pending' \subseteq Pending /\ \A q \in Pending' : seen'[q] = seen[q]
      BY <1>2, <2>1 DEF Pending, Runs
    <2>3. \A n \in Nat : Verifying(n)' \subseteq Verifying(n)
      BY <1>2, <2>1 DEF Verifying
    <2> QED BY <2>2, <2>3, LedgerKept
  <1> QED BY <1>1, <1>3, <1>4 DEF Over, Receive

(* The cap is passed by a request that read the committed challenges.      *)
LEMMA PassesTheCap ==
    ASSUME Sound, Ledger, NEW r \in Requests, Runs(r, "requestOtp", "act"), UnderCap,
           stamp' = stamp + 1, Remember(r, stamp', "commit"), UNCHANGED <<challenges, logins>>
    PROVE  Ledger'
  <1>1. /\ pc' = [pc EXCEPT ![r] = "commit"] /\ seen' = [seen EXCEPT ![r] = stamp + 1]
        /\ UNCHANGED call /\ stamp \in Nat /\ call[r].op = "requestOtp" /\ pc[r] = "act"
        /\ pc \in [Requests -> Steps] /\ seen \in [Requests -> Nat]
    BY DEF Remember, Sound, Asked, Codes, Runs
  <1>2. Pending' = Pending \union {r} /\ r \notin Pending
    BY <1>1 DEF Pending, Runs
  <1>3. \A n : Verifying(n)' = Verifying(n)
    BY <1>1 DEF Verifying
  <1>4. \A c \in challenges : c.id \in Nat
    BY DEF Sound, Codes, Challenge
  <1>5. \A q \in Pending : seen'[q] = seen[q] /\ seen[q] \in Nat /\ seen[q] <= stamp /\ ~ Stored(seen[q])
    BY <1>1, <1>2 DEF Ledger, Numbered, Pending
  <1>6. seen'[r] = stamp' /\ stamp' = stamp + 1 /\ ~ Stored(stamp')
    BY <1>1, <1>4 DEF Ledger, Numbered, Stored
  <1>7. Numbered'
    <2>1. \A c \in challenges' : c.id <= stamp'
      BY <1>1, <1>4, <1>6 DEF Ledger, Numbered
    <2>2. ASSUME NEW q \in Pending' PROVE seen'[q] <= stamp' /\ ~ Stored(seen'[q])
      BY <1>1, <1>2, <1>5, <1>6
    <2>3. ASSUME NEW p \in Pending', NEW q \in Pending', seen'[p] = seen'[q] PROVE p = q
      BY <1>1, <1>2, <1>5, <1>6, <2>3 DEF Ledger, Numbered
    <2>4. \A n \in Nat : Verifying(n)' # {} => Stored(n)
      BY <1>3 DEF Ledger, Numbered
    <2>5. \A q \in Pending', c \in challenges' : c.id # seen'[q]
      BY <2>2 DEF Stored
    <2> QED BY <2>1, <2>2, <2>3, <2>4, <2>5 DEF Numbered, Stored
  <1>8. Counted'
    BY <1>3 DEF Ledger, Counted, Stored, Used
  <1>9. Capped'
    <2>1. Recent' = Recent /\ Cardinality(Recent) \in Nat
      BY FiniteRecent DEF Recent, Ledger
    <2>2. Cardinality(Recent) < MaxPerHour
      BY DEF UnderCap, CountRecent, Recent
    <2>3. Pending' \in SUBSET Requests
      BY DEF Pending
    <2>4. Cardinality(Pending') \in Nat /\ Cardinality(Pending') <= Cardinality(Requests)
      BY <2>3, Finite
    <2> QED BY <2>1, <2>2, <2>4, Finite, AuthAssumption DEF Ledger, Capped, AuthAssumption
  <1> QED BY <1>7, <1>8, <1>9 DEF Ledger

LEMMA StoresItsChallenge ==
    ASSUME Sound, Ledger, NEW r \in Requests, Runs(r, "requestOtp", "commit"), Over(r),
           challenges' = challenges \union {Fresh(seen[r])}, UNCHANGED <<stamp, logins>>
    PROVE  Ledger'
  <1>1. /\ pc' = [pc EXCEPT ![r] = "idle"] /\ seen' = [seen EXCEPT ![r] = 0]
        /\ call' = [call EXCEPT ![r] = NoCall] /\ r \in Pending
        /\ pc \in [Requests -> Steps] /\ seen \in [Requests -> Nat]
        /\ call = [q \in Requests |-> call[q]]
    BY DEF Over, Sound, Asked, Pending
  <1>2. \A q \in Requests \ {r} : pc'[q] = pc[q] /\ call'[q] = call[q] /\ seen'[q] = seen[q]
    BY <1>1
  <1>3. Pending' = Pending \ {r}
    BY <1>1, <1>2 DEF Pending, Runs
  <1>4. \A n : Verifying(n)' = Verifying(n)
    BY <1>1, <1>2 DEF Verifying, Pending, Runs
  <1>5. /\ Fresh(seen[r]).id = seen[r] /\ Fresh(seen[r]).recent /\ seen[r] <= stamp
        /\ ~ Stored(seen[r]) /\ seen[r] \in Nat
    BY <1>1 DEF Fresh, Ledger, Numbered
  <1>6. \A n : Stored(n)' <=> Stored(n) \/ n = seen[r]
    BY <1>5 DEF Stored
  <1>7. Numbered'
    <2>1. \A c \in challenges' : c.id <= stamp'
      BY <1>5 DEF Ledger, Numbered
    <2>2. ASSUME NEW q \in Pending' PROVE seen'[q] <= stamp' /\ \A c \in challenges' : c.id # seen'[q]
      <3>1. q \in Pending /\ q \in Requests \ {r} /\ seen[q] # seen[r]
        BY <1>1, <1>3, <2>2 DEF Ledger, Numbered, Pending
      <3>2. seen'[q] = seen[q] /\ seen[q] <= stamp /\ ~ Stored(seen[q])
        BY <1>2, <3>1 DEF Ledger, Numbered
      <3> QED BY <1>5, <3>1, <3>2 DEF Stored
    <2>3. \A p, q \in Pending' : seen'[p] = seen'[q] => p = q
      BY <1>2, <1>3 DEF Ledger, Numbered, Pending
    <2>4. \A n \in Nat : Verifying(n)' # {} => Stored(n)'
      BY <1>4, <1>6 DEF Ledger, Numbered
    <2> QED BY <2>1, <2>2, <2>3, <2>4 DEF Numbered, Stored
  <1>8. Counted'
    <2>1. ASSUME NEW n \in 1 .. MaxChallenges, logins[n] # 0 PROVE Stored(n)' /\ Used(n)'
      <3>1. Stored(n) /\ Used(n) /\ n # seen[r]
        BY <1>5, <2>1 DEF Ledger, Counted
      <3> QED BY <1>5, <1>6, <3>1 DEF Used
    <2> QED BY <1>4, <2>1 DEF Ledger, Counted
  <1>9. Capped'
    <2>1. Recent' = Recent \union {Fresh(seen[r])}
      BY <1>5 DEF Recent
    <2>2. IsFiniteSet(challenges')
      BY FS_AddElement DEF Ledger, Capped
    <2>3. /\ IsFiniteSet(Recent) /\ Cardinality(Recent) \in Nat
          /\ Cardinality(Recent') <= Cardinality(Recent) + 1 /\ Cardinality(Recent') \in Nat
      <3>1. IsFiniteSet(Recent) /\ Cardinality(Recent) \in Nat
        BY FiniteRecent DEF Ledger
      <3>2. Cardinality(Recent') = IF Fresh(seen[r]) \in Recent THEN Cardinality(Recent)
                                                               ELSE Cardinality(Recent) + 1
        BY <2>1, <3>1, FS_AddElement
      <3> QED BY <3>1, <3>2
    <2>4. /\ Cardinality(Pending') + 1 = Cardinality(Pending) /\ Cardinality(Pending) \in Nat
          /\ Cardinality(Pending') \in Nat
      <3>1. Pending \in SUBSET Requests /\ Pending' \in SUBSET Requests
        BY DEF Pending
      <3> QED BY <1>1, <1>3, <3>1, OneLess, Finite
    <2> QED BY <2>2, <2>3, <2>4, Finite, AuthAssumption DEF Ledger, Capped, AuthAssumption
  <1> QED BY <1>7, <1>8, <1>9 DEF Ledger

------------------------------------------------------------------------------
(* Verifying a code.                                                       *)

LEMMA Covered ==
    ASSUME NEW S, NEW T, IsFiniteSet(S), NEW f \in [S -> T], \A t \in T : \E s \in S : f[s] = t
    PROVE  /\ IsFiniteSet(T) /\ Cardinality(T) \in Nat
           /\ Cardinality(T) <= Cardinality(S)
  <1>1. f \in Surjection(S, T)
    BY Fun_IsSurj
  <1> QED BY <1>1, FS_Surjection, FS_CardinalityType

\* Rows that are consumed or grow older stay the rows of the same challenges.
LEMMA RowsAge ==
    ASSUME Sound, Ledger, NEW f \in [challenges -> challenges'],
           \A d \in challenges' : \E c \in challenges : f[c] = d,
           \A c \in challenges : /\ f[c].id = c.id
                                 /\ c.consumed => f[c].consumed
                                 /\ f[c].recent => c.recent
    PROVE  /\ \A c \in challenges' : \E d \in challenges : d.id = c.id
           /\ \A n : Stored(n)' <=> Stored(n)
           /\ \A n : Used(n) => Used(n)'
           /\ IsFiniteSet(challenges')
           /\ Cardinality(Recent)' <= Cardinality(Recent)
           /\ Cardinality(Recent) \in Nat /\ Cardinality(Recent)' \in Nat
  <1>1. \A c \in challenges' : \E d \in challenges : d.id = c.id
    OBVIOUS
  <1>2. \A n : Stored(n)' <=> Stored(n)
    BY DEF Stored
  <1>3. \A n : Used(n) => Used(n)'
    BY DEF Used
  <1>4. IsFiniteSet(challenges')
    <2>1. IsFiniteSet(challenges)
      BY DEF Ledger, Capped
    <2> DEFINE S == challenges
               T == challenges'
    <2>2. f \in [S -> T] /\ \A d \in T : \E c \in S : f[c] = d
      OBVIOUS
    <2>3. IsFiniteSet(S)
      BY <2>1
    <2> HIDE DEF S, T
    <2>4. IsFiniteSet(T)
      BY ONLY <2>2, <2>3, Covered
    <2> QED BY <2>4 DEF T
  <1>5. /\ Cardinality(Recent') <= Cardinality(Recent)
        /\ Cardinality(Recent) \in Nat /\ Cardinality(Recent') \in Nat
    <2> DEFINE S == {c \in challenges : f[c].recent}
               g == [c \in S |-> f[c]]
    <2>1. S \in SUBSET Recent /\ IsFiniteSet(Recent) /\ Cardinality(Recent) \in Nat
      BY FiniteRecent DEF Recent, Ledger
    <2>2. IsFiniteSet(S) /\ Cardinality(S) <= Cardinality(Recent) /\ Cardinality(S) \in Nat
      BY <2>1, FS_Subset, FS_CardinalityType
    <2>3. g \in [S -> Recent'] /\ \A t \in Recent' : \E s \in S : g[s] = t
      BY DEF Recent
    <2> HIDE DEF S, g
    <2>4. Cardinality(Recent') <= Cardinality(S) /\ Cardinality(Recent') \in Nat
      BY <2>2, <2>3, Covered
    <2> QED BY <2>1, <2>2, <2>4
  <1> QED BY <1>1, <1>2, <1>3, <1>4, <1>5

LEMMA TimeKeeps ==
    ASSUME Sound, Ledger, TimePasses
    PROVE  Ledger'
  <1> DEFINE Older(x, y) == y.id = x.id /\ y.consumed = x.consumed /\ (y.recent => x.recent)
             Instead(x, y) == challenges' = (challenges \ {x}) \union {y} /\ Older(x, y)
  <1>0. PICK c \in challenges : \E y : Instead(c, y)
    <2>1. \A x \in challenges : /\ Older(x, [x EXCEPT !.expired = TRUE])
                                /\ Older(x, [x EXCEPT !.recent = FALSE])
      BY DEF Sound, Codes, Challenge
    <2> HIDE DEF Older
    <2> QED BY <2>1 DEF TimePasses
  <1>1. PICK d : Instead(c, d)
    BY <1>0
  <1> DEFINE f == [x \in challenges |-> IF x = c THEN d ELSE x]
  <1>2. /\ f \in [challenges -> challenges']
        /\ \A y \in challenges' : \E x \in challenges : f[x] = y
        /\ \A x \in challenges : /\ f[x].id = x.id
                                 /\ x.consumed => f[x].consumed
                                 /\ f[x].recent => x.recent
    BY <1>1
  <1> HIDE DEF f, Older, Instead
  <1>3. /\ \A x \in challenges' : \E y \in challenges : y.id = x.id
        /\ \A n : Stored(n)' <=> Stored(n)
        /\ \A n : Used(n) => Used(n)'
        /\ IsFiniteSet(challenges')
        /\ Cardinality(Recent)' <= Cardinality(Recent)
        /\ Cardinality(Recent) \in Nat /\ Cardinality(Recent)' \in Nat
    BY <1>2, RowsAge
  <1>4. /\ UNCHANGED <<stamp, logins, seen>> /\ Pending' = Pending
        /\ \A n : Verifying(n)' = Verifying(n)
    BY DEF TimePasses, Pending, Verifying, Runs
  <1>5. Numbered'
    <2>1. \A q \in Pending' : seen'[q] <= stamp' /\ ~ \E c2 \in challenges' : c2.id = seen'[q]
      BY <1>3, <1>4 DEF Ledger, Numbered, Stored
    <2> QED BY <1>3, <1>4, <2>1 DEF Ledger, Numbered, Stored
  <1>6. Counted'
    BY <1>3, <1>4 DEF Ledger, Counted
  <1>7. Capped'
    <2>1. Cardinality(Pending) \in Nat
      BY Finite DEF Pending
    <2> QED BY <1>3, <1>4, <2>1, Finite, AuthAssumption DEF Ledger, Capped, AuthAssumption
  <1> QED BY <1>5, <1>6, <1>7 DEF Ledger

\* A code found usable has logged nobody in yet.
LEMMA FoundUsable ==
    ASSUME Sound, Ledger, NEW r \in Requests, NEW c \in Latest,
           Runs(r, "verifyOtp", "act"), Usable(c), Remember(r, c.id, "account"), UNCHANGED authVars
    PROVE  Ledger'
  <1>1. /\ pc' = [pc EXCEPT ![r] = "account"] /\ seen' = [seen EXCEPT ![r] = c.id]
        /\ UNCHANGED <<call, stamp, challenges, logins>>
        /\ call[r].op = "verifyOtp" /\ pc[r] = "act"
        /\ pc \in [Requests -> Steps] /\ seen \in [Requests -> Nat]
        /\ c \in challenges /\ c.id \in Nat /\ ~ c.consumed
    BY DEF Remember, Sound, Asked, Codes, Challenge, Runs, authVars, Usable, Latest
  <1>2. Pending' = Pending /\ \A q \in Pending : seen'[q] = seen[q]
    BY <1>1 DEF Pending, Runs
  <1>3. \A n \in Nat \ {c.id} : Verifying(n)' \subseteq Verifying(n)
    BY <1>1 DEF Verifying
  <1>4. Numbered'
    <2>1. \A n \in Nat : Verifying(n)' # {} => Stored(n)'
      <3> TAKE n \in Nat
      <3>1. CASE n = c.id
        BY <1>1, <3>1 DEF Stored
      <3>2. CASE n # c.id
        BY <1>1, <1>3, <3>2 DEF Stored, Ledger, Numbered
      <3> QED BY <3>1, <3>2
    <2>2. \A q \in Pending' : seen'[q] <= stamp' /\ ~ \E d \in challenges' : d.id = seen'[q]
      BY <1>1, <1>2 DEF Ledger, Numbered, Stored
    <2> QED BY <1>1, <1>2, <2>1, <2>2 DEF Ledger, Numbered, Stored
  <1>5. Counted'
    <2>1. ASSUME NEW n \in 1 .. MaxChallenges, logins[n] # 0
          PROVE  /\ Stored(n)' /\ Used(n)'
                 /\ logins[n] + Cardinality(Verifying(n)') <= Cardinality(Requests)
      <3>1. /\ Stored(n) /\ Used(n) /\ logins[n] \in Nat
            /\ logins[n] + Cardinality(Verifying(n)) <= Cardinality(Requests)
        BY <2>1 DEF Ledger, Counted
      <3>2. n # c.id /\ n \in Nat
        BY <1>1, <3>1 DEF Used
      <3>3. Verifying(n)' \subseteq Verifying(n) /\ Verifying(n) \in SUBSET Requests
        BY <1>3, <3>2 DEF Verifying
      <3>4. /\ Cardinality(Verifying(n)') <= Cardinality(Verifying(n))
            /\ Cardinality(Verifying(n)) \in Nat /\ Cardinality(Verifying(n)') \in Nat
        BY <3>3, Finite, FS_Subset, FS_CardinalityType
      <3> QED BY <1>1, <3>1, <3>4, Finite DEF Stored, Used
    <2> QED BY <1>1, <2>1 DEF Ledger, Counted
  <1>6. Capped'
    BY <1>1, <1>2 DEF Ledger, Capped, Recent
  <1> QED BY <1>4, <1>5, <1>6 DEF Ledger

\* The request that logs in is one of those that found the code usable.
LEMMA LogInKeeps ==
    ASSUME Sound, Ledger, NEW r \in Requests, call[r].op = "verifyOtp",
           pc[r] \in {"commit", "create"}, LogIn(r), Over(r), UNCHANGED stamp
    PROVE  Ledger'
  <1>1. /\ pc' = [pc EXCEPT ![r] = "idle"] /\ seen' = [seen EXCEPT ![r] = 0]
        /\ call' = [call EXCEPT ![r] = NoCall] /\ r \in Verifying(seen[r])
        /\ pc \in [Requests -> Steps] /\ seen \in [Requests -> Nat] /\ seen[r] \in Nat
        /\ call = [q \in Requests |-> call[q]]
    BY DEF Over, Sound, Asked, Verifying
  <1>2. \A q \in Requests \ {r} : pc'[q] = pc[q] /\ call'[q] = call[q] /\ seen'[q] = seen[q]
    BY <1>1
  <1>3. Pending' = Pending /\ \A q \in Pending : seen'[q] = seen[q]
    BY <1>1, <1>2 DEF Pending, Verifying, Runs
  <1>4. /\ \A n : n # seen[r] => Verifying(n)' = Verifying(n)
        /\ \A n : n = seen[r] => Verifying(n)' = Verifying(n) \ {r}
    BY <1>1, <1>2 DEF Verifying
  <1> DEFINE f == [c \in challenges |-> IF c.id = seen[r] THEN [c EXCEPT !.consumed = TRUE] ELSE c]
  <1>5. /\ f \in [challenges -> challenges']
        /\ \A d \in challenges' : \E c \in challenges : f[c] = d
        /\ \A c \in challenges : /\ f[c].id = c.id
                                 /\ c.consumed => f[c].consumed
                                 /\ f[c].recent => c.recent
                                 /\ c.id = seen[r] => f[c].consumed
    <2>1. challenges' = {f[c] : c \in challenges}
      BY DEF LogIn, Consume
    <2>2. \A c \in challenges : LET d == [c EXCEPT !.consumed = TRUE]
                                IN  d.id = c.id /\ d.consumed = TRUE /\ d.recent = c.recent
      BY DEF Sound, Codes, Challenge
    <2> QED BY <2>1, <2>2
  <1> HIDE DEF f
  <1>6. /\ \A c \in challenges' : \E d \in challenges : d.id = c.id
        /\ \A n : Stored(n)' <=> Stored(n)
        /\ \A n : Used(n) => Used(n)'
        /\ IsFiniteSet(challenges')
        /\ Cardinality(Recent)' <= Cardinality(Recent)
        /\ Cardinality(Recent) \in Nat /\ Cardinality(Recent)' \in Nat
    BY <1>5, RowsAge
  <1>7. \A n : n = seen[r] => Used(n)'
    BY <1>5 DEF Used
  <1>8. Numbered'
    <2>1. \A q \in Pending' : seen'[q] <= stamp' /\ ~ \E c \in challenges' : c.id = seen'[q]
      BY <1>3, <1>6 DEF Ledger, Numbered, Stored
    <2>2. \A n \in Nat : Verifying(n)' # {} => Stored(n)'
      BY <1>4, <1>6 DEF Ledger, Numbered
    <2> QED BY <1>3, <1>6, <2>1, <2>2 DEF Ledger, Numbered, Stored
  <1>9. Counted'
    <2>1. logins' \in [1 .. MaxChallenges -> Nat]
      <3>1. /\ logins \in [1 .. MaxChallenges -> Nat]
            /\ logins' = [logins EXCEPT ![seen[r]] = logins[seen[r]] + 1]
        BY DEF LogIn, Ledger, Counted
      <3>2. CASE seen[r] \in 1 .. MaxChallenges
        BY <3>1, <3>2
      <3>3. CASE seen[r] \notin 1 .. MaxChallenges
        BY <3>1, <3>3
      <3> QED BY <3>2, <3>3
    <2>2. ASSUME NEW n \in 1 .. MaxChallenges, logins'[n] # 0, n # seen[r]
          PROVE  /\ Stored(n)' /\ Used(n)'
                 /\ logins'[n] + Cardinality(Verifying(n)') <= Cardinality(Requests)
      <3>1. logins'[n] = logins[n]
        BY <2>2 DEF LogIn, Ledger, Counted
      <3> QED BY <1>4, <1>6, <2>2, <3>1 DEF Ledger, Counted
    <2>3. ASSUME NEW n \in 1 .. MaxChallenges, n = seen[r]
          PROVE  /\ Stored(n)' /\ Used(n)'
                 /\ logins'[n] + Cardinality(Verifying(n)') <= Cardinality(Requests)
      <3>1. Stored(n)' /\ Used(n)'
        BY <1>1, <1>6, <1>7, <2>3 DEF Ledger, Numbered
      <3>2. logins'[n] = logins[n] + 1 /\ logins[n] \in Nat
        BY <2>3 DEF LogIn, Ledger, Counted
      <3>3. r \in Verifying(n) /\ Verifying(n) \in SUBSET Requests /\ Verifying(n)' = Verifying(n) \ {r}
        BY <1>1, <1>4, <2>3 DEF Verifying
      <3>4. /\ Cardinality(Verifying(n)') + 1 = Cardinality(Verifying(n))
            /\ Cardinality(Verifying(n)') \in Nat /\ Cardinality(Verifying(n)) \in Nat
        <4>1. Cardinality(Verifying(n) \ {r}) + 1 = Cardinality(Verifying(n))
          BY <3>3, OneLess
        <4>2. Verifying(n) \ {r} \in SUBSET Requests
          BY <3>3
        <4> QED BY <3>3, <4>1, <4>2, Finite
      <3>5. logins[n] + Cardinality(Verifying(n)) <= Cardinality(Requests)
        <4>1. CASE logins[n] # 0
          BY <4>1 DEF Ledger, Counted
        <4>2. CASE logins[n] = 0
          BY <3>3, <3>4, <4>2, Finite
        <4> QED BY <4>1, <4>2
      <3> QED BY <3>1, <3>2, <3>4, <3>5, Finite
    <2> QED BY <2>1, <2>2, <2>3 DEF Counted
  <1>10. Capped'
    <2>1. Cardinality(Pending) \in Nat
      BY Finite DEF Pending
    <2> QED BY <1>3, <1>6, <2>1, Finite, AuthAssumption DEF Ledger, Capped, AuthAssumption
  <1> QED BY <1>8, <1>9, <1>10 DEF Ledger

------------------------------------------------------------------------------
LEMMA LedgerInit == Init => Ledger
  <1> SUFFICES ASSUME Init PROVE Ledger
    OBVIOUS
  <1>1. Pending = {} /\ (\A n : Verifying(n) = {}) /\ challenges = {} /\ Recent = {}
    BY DEF Init, InitRequests, InitAuth, Pending, Verifying, Recent, Runs, NoCall
  <1>2. Numbered
    BY <1>1 DEF Numbered
  <1>3. Counted
    BY DEF Init, InitAuth, Counted
  <1>4. Capped
    BY <1>1, FS_EmptySet, RequestsAssumption, Finite, AuthAssumption
       DEF Capped, RequestsAssumption, AuthAssumption
  <1> QED BY <1>2, <1>3, <1>4 DEF Ledger

LEMMA AuthRequestKeeps ==
    ASSUME Sound, Ledger, NEW r \in Requests, AuthRequest(r)
    PROVE  Ledger'
  <1>1. CASE RequestOtp(r)
    BY <1>1, AskKeeps, PassesTheCap, StoresItsChallenge DEF RequestOtp, authVars
  <1>2. ASSUME NEW n \in 0 .. stamp, Receive(r, "verifyOtp", "none", "none", n, "act"),
               UNCHANGED authVars
        PROVE  Ledger'
    BY <1>2, AskKeeps DEF authVars
  <1>3. ASSUME Over(r), UNCHANGED <<stamp, challenges, logins>> PROVE Ledger'
    BY <1>3, AskKeeps
  <1>4. ASSUME NEW c \in Latest, Runs(r, "verifyOtp", "act"), Usable(c),
               Remember(r, c.id, "account"), UNCHANGED authVars
        PROVE  Ledger'
    BY <1>4, FoundUsable
  <1>5. ASSUME Runs(r, "verifyOtp", "account"), UNCHANGED authVars,
               GoOn(r, IF accounts = 0 THEN "create" ELSE "commit")
        PROVE  Ledger'
    <2>1. GoOn(r, "create") \/ GoOn(r, "commit")
      BY <1>5
    <2> QED BY <1>5, <2>1, AskKeeps DEF authVars
  <1>6. ASSUME Runs(r, "verifyOtp", "commit") \/ Runs(r, "verifyOtp", "create"), LogIn(r), Over(r),
               UNCHANGED stamp
        PROVE  Ledger'
    BY <1>6, LogInKeeps DEF Runs
  <1>7. CASE VerifyOtp(r)
    BY <1>2, <1>3, <1>4, <1>5, <1>6, <1>7 DEF VerifyOtp, CountedThenRolledBack, authVars
  <1> QED BY <1>1, <1>7 DEF AuthRequest

LEMMA LedgerStep == Sound /\ Sound' /\ Ledger /\ [Next]_vars => Ledger'
  <1> SUFFICES ASSUME Sound, Sound', Ledger, [Next]_vars PROVE Ledger'
    OBVIOUS
  <1>1. ASSUME NEW r \in Requests, TableRequest(r) PROVE Ledger'
    <2>1. UNCHANGED <<group, stamp, challenges, logins>> /\ group # "otp"
      BY <1>1, TablesAreOfOtherGroups DEF Sound, TableRequest, outside, authVars
    <2>2. Pending = {} /\ \A n : Verifying(n) = {}
      BY <2>1, NobodyAsks DEF Sound
    <2>3. Pending' = {} /\ \A n : Verifying(n)' = {}
      BY <2>1 DEF Sound, Asked, OpsOfTheGroup, ProductOps, ChannelOps, Pending, Verifying, Runs
    <2> QED BY <2>1, <2>2, <2>3, LedgerKept
  <1>2. ASSUME NEW r \in Requests, Otp(r) PROVE Ledger'
    BY <1>2, AuthRequestKeeps DEF Otp
  <1>3. CASE TimePasses
    BY <1>3, TimeKeeps
  <1>4. ASSUME UNCHANGED <<authVars, pc, call, seen>> PROVE Ledger'
    <2>1. Pending' = Pending /\ \A n : Verifying(n)' = Verifying(n)
      BY <1>4 DEF Pending, Verifying, Runs
    <2> QED BY <1>4, <2>1, LedgerKept DEF authVars
  <1> QED BY <1>1, <1>2, <1>3, <1>4 DEF Next, MonitorMarks, MonitorStops, WorkerLogs, vars, outside

LEMMA SoundStep == Sound /\ [Next]_vars => Sound'
  BY ApiStep DEF Sound

LEMMA SoundInit == Init => Sound
  BY ApiInit DEF Sound

(* A code logs in at most once for each request there can be at a time,    *)
(* in any order of verifications, new codes and expiries: a challenge that *)
(* logged somebody in is consumed, and nobody finds it usable again.       *)
THEOREM LoginsAreFew == Spec => []FewLoginsPerCode
  <1>1. Sound /\ Ledger => FewLoginsPerCode
    <2> SUFFICES ASSUME Ledger, NEW n \in 1 .. MaxChallenges
                 PROVE  logins[n] <= Cardinality(Requests)
      BY DEF FewLoginsPerCode
    <2>1. logins[n] \in Nat
      BY DEF Ledger, Counted
    <2>2. Cardinality(Verifying(n)) \in Nat
      BY Finite DEF Verifying
    <2> QED BY <2>1, <2>2, Finite DEF Ledger, Counted
  <1> QED BY <1>1, SoundInit, SoundStep, LedgerInit, LedgerStep, PTL DEF Spec

(* Requests that run at once pass the hourly cap together, and no further: *)
(* those that passed it and have not committed are counted with the rows.  *)
THEOREM CapIsNearlyKept == Spec => []HourlyCap
  <1>1. Sound /\ Ledger => HourlyCap
    <2> SUFFICES ASSUME Ledger, MaxPerHour > 0
                 PROVE  CountRecent <= MaxPerHour + Cardinality(Requests) - 1
      BY DEF HourlyCap
    <2>1. CountRecent = Cardinality(Recent) /\ CountRecent \in Nat
      BY FiniteRecent DEF CountRecent, Recent, Ledger
    <2>2. Cardinality(Pending) \in Nat
      BY Finite DEF Pending
    <2> QED BY <2>1, <2>2, Finite, AuthAssumption DEF Ledger, Capped, AuthAssumption
  <1> QED BY <1>1, SoundInit, SoundStep, LedgerInit, LedgerStep, PTL DEF Spec

------------------------------------------------------------------------------
(* The values stay in their sets.  Ids and what requests remember are in   *)
(* range because the requests under way are counted with the rows that     *)
(* there are, and what a request read was there when it read it.           *)

Sending == {r \in Requests : Runs(r, "requestOtp", "act")}
Creators == {r \in Requests : call[r].op = "createWatch"}

CodesAreNumbered ==
    /\ accounts \in 0 .. 1
    /\ stamp + Cardinality(Sending) <= MaxChallenges
    /\ \A c \in challenges : c.id >= 1
    /\ \A c, d \in challenges : c.id = d.id => c = d
    /\ \A r \in Pending : seen[r] >= 1

WatchesAreNumbered ==
    /\ IsFiniteSet(watches)
    /\ Cardinality(watches) + Cardinality(Creators) <= MaxWatches
    /\ \A w \in watches : w.id \in 1 .. Cardinality(watches)
    /\ \A w, v \in watches : w.id = v.id => w = v

Memory == {0, 1} \union Intervals \union 1 .. stamp

Remembered ==
    /\ seen \in [Requests -> Memory]
    /\ \A r \in Requests : pc[r] = "idle" => call[r].op = "none"
    /\ locked \in BOOLEAN

InRange == CodesAreNumbered /\ WatchesAreNumbered /\ Remembered

(* Whatever a request does, it comes in, goes on, remembers what it read,  *)
(* or is over.                                                             *)
Moves(r) ==
    \/ \E op, user, row, value, step : step # "idle" /\ Receive(r, op, user, row, value, step)
    \/ \E step : step # "idle" /\ GoOn(r, step)
    \/ \E what \in Memory' : \E step : step # "idle" /\ Remember(r, what, step)
    \/ Over(r)

LEMMA RequestMoves ==
    ASSUME Sound, Ledger, NEW r \in Requests, TableRequest(r) \/ AuthRequest(r)
    PROVE  Moves(r)
  <1>1. ASSUME NEW op, NEW user, NEW row, NEW value, NEW step, step # "idle",
               Receive(r, op, user, row, value, step)
        PROVE  Moves(r)
    BY <1>1 DEF Moves
  <1>2. ASSUME NEW step, step # "idle", GoOn(r, step) PROVE Moves(r)
    BY <1>2 DEF Moves
  <1>3. ASSUME NEW what \in Memory', NEW step, step # "idle", Remember(r, what, step)
        PROVE  Moves(r)
    BY <1>3 DEF Moves
  <1>4. ASSUME Over(r) PROVE Moves(r)
    BY <1>4 DEF Moves
  <1>5. TargetInterval \in Memory'
    <2>1. targets \in Seq(Intervals) /\ Len(targets) <= 1
      BY DEF Sound, Consistent, Rows
    <2>2. CASE targets = <<>>
      BY <2>2 DEF TargetInterval, Memory
    <2>3. CASE targets # <<>>
      <3>1. targets[1] \in Intervals
        BY <2>1, <2>3
      <3> QED BY <2>3, <3>1 DEF TargetInterval, Memory
    <2> QED BY <2>2, <2>3
  <1>6. OneRowOrNone => Len(settings) \in Memory'
    <2>1. Len(settings) \in Nat
      BY DEF Sound, Consistent, Rows
    <2>2. \A n \in Nat : n <= 1 => n \in {0, 1}
      OBVIOUS
    <2> QED BY <2>1, <2>2 DEF OneRowOrNone, Memory
  <1>7. CASE TableRequest(r)
    <2>1. CASE CreateProduct(r) \/ DeleteProduct(r)
      BY <1>1, <1>2, <1>4, <2>1 DEF CreateProduct, DeleteProduct, Enter, Stay, Refuse
    <2>2. CASE CreateWatch(r) \/ DeleteWatch(r)
      BY <1>1, <1>2, <1>3, <1>4, <1>5, <2>2 DEF CreateWatch, DeleteWatch, Enter, Stay, Refuse
    <2>3. CASE CreateChannel(r) \/ VerifyChannel(r) \/ DeleteChannel(r)
      BY <1>1, <1>2, <1>4, <2>3
         DEF CreateChannel, VerifyChannel, DeleteChannel, Enter, Stay, Refuse
    <2>4. CASE UpdateSetting(r)
      BY <1>1, <1>3, <1>4, <1>6, <2>4 DEF UpdateSetting, Enter, Refuse
    <2> QED BY <1>7, <2>1, <2>2, <2>3, <2>4 DEF TableRequest
  <1>8. CASE RequestOtp(r)
    <2>1. stamp' = stamp + 1 => stamp' \in Memory'
      BY DEF Memory, Sound, Codes
    <2> QED BY <1>1, <1>3, <1>4, <1>8, <2>1 DEF RequestOtp
  <1>9. CASE VerifyOtp(r)
    <2>1. ASSUME NEW c \in Latest, UNCHANGED authVars PROVE c.id \in Memory'
      <3>1. c.id \in Nat /\ c.id <= stamp /\ stamp \in Nat
        BY DEF Sound, Codes, Challenge, Latest, Ledger, Numbered
      <3>2. c.id = 0 \/ c.id \in 1 .. stamp
        BY <3>1
      <3> QED BY <2>1, <3>2 DEF Memory, authVars
    <2> QED BY <1>1, <1>2, <1>3, <1>4, <1>9, <2>1 DEF VerifyOtp
  <1> QED BY <1>7, <1>8, <1>9 DEF AuthRequest

LEMMA MemoryGrows == ASSUME Codes, stamp' \in {stamp, stamp + 1} PROVE Memory \subseteq Memory'
  BY DEF Memory, Codes

LEMMA RememberedKept ==
    ASSUME Sound, Remembered, NEW r \in Requests, Moves(r), Memory \subseteq Memory', UNCHANGED locked
    PROVE  Remembered'
  <1>1. /\ pc \in [Requests -> Steps] /\ call = [q \in Requests |-> call[q]]
        /\ 0 \in Memory'
    BY DEF Sound, Asked, Memory
  <1> QED BY <1>1 DEF Remembered, Moves, Receive, GoOn, Remember, Over, NoCall

------------------------------------------------------------------------------
\* A set of requests that does not grow, or by one.
LEMMA FewerRequests ==
    ASSUME NEW S \in SUBSET Requests, NEW T \in SUBSET S
    PROVE  Cardinality(T) <= Cardinality(S) /\ Cardinality(S) \in Nat /\ Cardinality(T) \in Nat
  <1>1. IsFiniteSet(S) /\ Cardinality(S) \in Nat
    BY Finite
  <1> QED BY <1>1, FS_Subset, FS_CardinalityType

LEMMA OneMoreRequest ==
    ASSUME NEW S \in SUBSET Requests, NEW r \in Requests, NEW T \in SUBSET (S \union {r})
    PROVE  Cardinality(T) <= Cardinality(S) + 1 /\ Cardinality(S) \in Nat /\ Cardinality(T) \in Nat
  <1>1. IsFiniteSet(S) /\ Cardinality(S) \in Nat
    BY Finite
  <1>2. Cardinality(S \union {r}) <= Cardinality(S) + 1 /\ Cardinality(S \union {r}) \in Nat
    <2>1. Cardinality(S \union {r}) = IF r \in S THEN Cardinality(S) ELSE Cardinality(S) + 1
      BY <1>1, FS_AddElement
    <2> QED BY <1>1, <2>1
  <1>3. S \union {r} \in SUBSET Requests
    OBVIOUS
  <1>4. Cardinality(T) <= Cardinality(S \union {r}) /\ Cardinality(T) \in Nat
    BY <1>3, FewerRequests
  <1> QED BY <1>1, <1>2, <1>4

LEMMA CreatorsGoOn ==
    ASSUME Sound, NEW r \in Requests,
           \/ \E step : GoOn(r, step)
           \/ \E what, step : Remember(r, what, step)
           \/ \E op, user, row, value, step :
                 op # "createWatch" /\ Receive(r, op, user, row, value, step)
           \/ Over(r)
    PROVE  Creators' \subseteq Creators /\ (Over(r) => Creators' = Creators \ {r})
  <1>1. call = [q \in Requests |-> call[q]]
    BY DEF Sound, Asked
  <1> QED BY <1>1 DEF Creators, GoOn, Remember, Receive, Over, NoCall

LEMMA WatchesStand ==
    ASSUME WatchesAreNumbered, UNCHANGED watches, Creators' \subseteq Creators
    PROVE  WatchesAreNumbered'
  <1>1. Cardinality(Creators') <= Cardinality(Creators) /\ Cardinality(Creators) \in Nat
        /\ Cardinality(Creators') \in Nat
    BY FewerRequests DEF Creators
  <1>2. Cardinality(watches) \in Nat
    BY FS_CardinalityType DEF WatchesAreNumbered
  <1> QED BY <1>1, <1>2, ApiAssumption DEF WatchesAreNumbered, ApiAssumption

\* A request that comes in for a watch is counted with the watches from then on.
LEMMA CreatorComesIn ==
    ASSUME Sound, WatchesAreNumbered, NEW r \in Requests, UNCHANGED watches,
           Cardinality(watches) + Creating < MaxWatches,
           NEW op, NEW user, NEW row, NEW value, NEW step, Receive(r, op, user, row, value, step)
    PROVE  WatchesAreNumbered'
  <1>1. call = [q \in Requests |-> call[q]]
    BY DEF Sound, Asked
  <1>2. Creators' \in SUBSET (Creators \union {r}) /\ Creators \in SUBSET Requests
    BY <1>1 DEF Creators, Receive
  <1>3. /\ Cardinality(Creators') <= Cardinality(Creators) + 1 /\ Cardinality(Creators) \in Nat
        /\ Cardinality(Creators') \in Nat
    BY <1>2, OneMoreRequest
  <1>4. Cardinality(watches) \in Nat
    BY FS_CardinalityType DEF WatchesAreNumbered
  <1> QED BY <1>3, <1>4, ApiAssumption DEF WatchesAreNumbered, ApiAssumption, Creating, Creators

\* Its watch takes its place.
LEMMA WatchIsStored ==
    ASSUME Sound, WatchesAreNumbered, NEW r \in Requests, Runs(r, "createWatch", "commit"),
           watches' = watches \union {NewWatch(r)}, Over(r)
    PROVE  WatchesAreNumbered'
  <1>1. Creators' = Creators \ {r} /\ r \in Creators /\ Creators \in SUBSET Requests
    BY CreatorsGoOn DEF Creators, Runs
  <1>2. Creators' \in SUBSET Requests
    BY <1>1
  <1>3. /\ Cardinality(Creators') + 1 = Cardinality(Creators) /\ Cardinality(Creators) \in Nat
        /\ Cardinality(Creators') \in Nat
    BY <1>1, <1>2, OneLess, Finite
  <1>4. IsFiniteSet(watches) /\ Cardinality(watches) \in Nat
    BY FS_CardinalityType DEF WatchesAreNumbered
  <1>5. NewWatch(r).id = Cardinality(watches) + 1
    BY DEF NewWatch, Watch
  <1>6. \A w \in watches : w.id \in 1 .. Cardinality(watches) /\ w.id # NewWatch(r).id
    BY <1>4, <1>5 DEF WatchesAreNumbered
  <1>7. NewWatch(r) \notin watches
    BY <1>6
  <1>8. IsFiniteSet(watches') /\ Cardinality(watches') = Cardinality(watches) + 1
    BY <1>4, <1>7, FS_AddElement
  <1>9. \A w \in watches' : w.id \in 1 .. Cardinality(watches')
    BY <1>4, <1>5, <1>6, <1>8
  <1>10. \A w, v \in watches' : w.id = v.id => w = v
    BY <1>6 DEF WatchesAreNumbered
  <1>11. Cardinality(watches) + Cardinality(Creators) <= MaxWatches /\ MaxWatches \in Nat
    BY ApiAssumption DEF WatchesAreNumbered, ApiAssumption
  <1>12. Cardinality(watches') + Cardinality(Creators') <= MaxWatches
    BY <1>3, <1>4, <1>8, <1>11
  <1> QED BY <1>8, <1>9, <1>10, <1>12 DEF WatchesAreNumbered

\* A deactivated watch keeps its row and its id.
LEMMA WatchIsDeactivated ==
    ASSUME Sound, WatchesAreNumbered, NEW id, watches' = Deactivated(id),
           Creators' \subseteq Creators
    PROVE  WatchesAreNumbered'
  <1> DEFINE off(w) == [w EXCEPT !.active = w.active /\ w.id # id]
             f == [w \in watches |-> off(w)]
  <1>1. watches' = {off(w) : w \in watches}
    BY DEF Deactivated
  <1>2. \A w \in watches : off(w).id = w.id
    BY DEF Sound, Consistent, Rows, Watch
  <1> HIDE DEF off
  <1>3. /\ f \in [watches -> watches'] /\ \A w, v \in watches : f[w] = f[v] => w = v
        /\ \A v \in watches' : \E w \in watches : f[w] = v
    BY <1>1, <1>2 DEF WatchesAreNumbered
  <1>4. ExistsBijection(watches, watches') /\ IsFiniteSet(watches)
    <2> HIDE DEF f
    <2>1. f \in Bijection(watches, watches')
      BY <1>3, Fun_IsBij
    <2> QED BY <2>1 DEF ExistsBijection, WatchesAreNumbered
  <1>5. IsFiniteSet(watches') /\ Cardinality(watches') = Cardinality(watches)
    BY <1>4, FS_Bijection
  <1>6. /\ Cardinality(Creators') <= Cardinality(Creators) /\ Cardinality(Creators) \in Nat
        /\ Cardinality(Creators') \in Nat /\ Cardinality(watches) \in Nat
    BY <1>4, FewerRequests, FS_CardinalityType DEF Creators
  <1>7. \A v \in watches' : \E w \in watches : v = off(w) /\ v.id = w.id
    BY <1>1, <1>2
  <1> QED BY <1>5, <1>6, <1>7, ApiAssumption DEF WatchesAreNumbered, ApiAssumption

\* What each request does to the watches.
LEMMA TableRequestNumbers ==
    ASSUME Sound, WatchesAreNumbered, NEW r \in Requests, TableRequest(r)
    PROVE  WatchesAreNumbered'
  <1>1. ASSUME NEW op, NEW user, NEW row, NEW value, NEW step, op # "createWatch",
               Enter(r, op, user, row, value, step)
        PROVE  WatchesAreNumbered'
    <2>1. UNCHANGED watches /\ Creators' \subseteq Creators
      BY <1>1, CreatorsGoOn DEF Enter, tables
    <2> QED BY <2>1, WatchesStand
  <1>2. ASSUME NEW step, GoOn(r, step) \/ (\E what : Remember(r, what, step)) \/ Over(r), UNCHANGED watches
        PROVE  WatchesAreNumbered'
    <2>1. Creators' \subseteq Creators
      BY <1>2, CreatorsGoOn
    <2> QED BY <1>2, <2>1, WatchesStand
  <1>3. ASSUME Refuse(r) \/ (\E step : Stay(r, step)) PROVE WatchesAreNumbered'
    BY <1>2, <1>3 DEF Refuse, Stay, tables
  <1>4. CASE CreateProduct(r)
    BY <1>1, <1>2, <1>4 DEF CreateProduct
  <1>5. CASE DeleteProduct(r)
    BY <1>1, <1>2, <1>3, <1>5 DEF DeleteProduct
  <1>6. CASE CreateWatch(r)
    <2>1. ASSUME NEW p \in Products, NEW u \in Users, NEW i \in Intervals,
                 Cardinality(watches) + Creating < MaxWatches,
                 Enter(r, "createWatch", u, p, i, "check")
          PROVE  WatchesAreNumbered'
      BY <2>1, CreatorComesIn DEF Enter, tables
    <2>2. ASSUME Remember(r, TargetInterval, "commit"), UNCHANGED tables
          PROVE  WatchesAreNumbered'
      BY <1>2, <2>2 DEF tables
    <2>3. ASSUME Runs(r, "createWatch", "commit"), TargetAndWatch(r), Over(r)
          PROVE  WatchesAreNumbered'
      BY <1>2, <2>3, WatchIsStored DEF TargetAndWatch, tables
    <2> QED BY <1>3, <1>6, <2>1, <2>2, <2>3 DEF CreateWatch
  <1>7. CASE DeleteWatch(r)
    <2>1. ASSUME watches' = Deactivated(call[r].row), Over(r) PROVE WatchesAreNumbered'
      <3>1. Creators' \subseteq Creators
        BY <2>1, CreatorsGoOn
      <3> QED BY <2>1, <3>1, WatchIsDeactivated
    <2> QED BY <1>1, <1>3, <1>7, <2>1 DEF DeleteWatch
  <1>8. CASE CreateChannel(r) \/ VerifyChannel(r) \/ DeleteChannel(r)
    BY <1>1, <1>2, <1>3, <1>8
       DEF CreateChannel, VerifyChannel, DeleteChannel, AddChannel, SetChannel, tables
  <1>9. CASE UpdateSetting(r)
    BY <1>1, <1>2, <1>3, <1>9 DEF UpdateSetting, tables
  <1> QED BY <1>4, <1>5, <1>6, <1>7, <1>8, <1>9 DEF TableRequest

LEMMA AuthRequestStands ==
    ASSUME Sound, WatchesAreNumbered, NEW r \in Requests, AuthRequest(r), UNCHANGED watches
    PROVE  WatchesAreNumbered'
  <1>1. Creators' \subseteq Creators
    <2>1. CASE RequestOtp(r)
      BY <2>1, CreatorsGoOn DEF RequestOtp
    <2>2. CASE VerifyOtp(r)
      BY <2>2, CreatorsGoOn DEF VerifyOtp
    <2> QED BY <2>1, <2>2 DEF AuthRequest
  <1> QED BY <1>1, WatchesStand

------------------------------------------------------------------------------
\* The rows are changed one by one, and each keeps its id.
LEMMA RowsKeepIds ==
    ASSUME CodesAreNumbered, NEW f \in [challenges -> challenges'],
           \A d \in challenges' : \E c \in challenges : f[c] = d,
           \A c \in challenges : f[c].id = c.id
    PROVE  /\ \A c \in challenges' : c.id >= 1
           /\ \A c, d \in challenges' : c.id = d.id => c = d
  <1>1. \A d \in challenges' : \E c \in challenges : f[c] = d /\ d.id = c.id
    OBVIOUS
  <1> QED BY <1>1 DEF CodesAreNumbered

LEMMA CodesStand ==
    ASSUME Codes, CodesAreNumbered, UNCHANGED stamp, accounts' \in 0 .. 1,
           \A c \in challenges' : c.id >= 1,
           \A c, d \in challenges' : c.id = d.id => c = d,
           Sending' \subseteq Sending, Pending' \subseteq Pending,
           \A r \in Pending' : seen'[r] = seen[r]
    PROVE  CodesAreNumbered'
  <1>1. Cardinality(Sending') <= Cardinality(Sending) /\ Cardinality(Sending) \in Nat
        /\ Cardinality(Sending') \in Nat
    BY FewerRequests DEF Sending
  <1>2. stamp + Cardinality(Sending') <= MaxChallenges
    BY <1>1, AuthAssumption DEF Codes, CodesAreNumbered, AuthAssumption
  <1> QED BY <1>2 DEF CodesAreNumbered

\* A request that is over, or one that verifies, is none of those that ask for a code.
LEMMA AskersGoOn ==
    ASSUME Sound, NEW r \in Requests,
           \/ Over(r)
           \/ \E n, step : Receive(r, "verifyOtp", "none", "none", n, step)
           \/ call[r].op = "verifyOtp" /\ \E step : GoOn(r, step) \/ \E what : Remember(r, what, step)
    PROVE  /\ Sending' \subseteq Sending /\ Pending' \subseteq Pending
           /\ \A q \in Pending' : seen'[q] = seen[q]
  <1>1. /\ pc \in [Requests -> Steps] /\ seen \in [Requests -> Nat]
        /\ call = [q \in Requests |-> call[q]]
    BY DEF Sound, Asked
  <1>2. \A q \in Requests \ {r} : pc'[q] = pc[q] /\ call'[q] = call[q] /\ seen'[q] = seen[q]
    BY <1>1 DEF Over, Receive, GoOn, Remember
  <1>3. r \notin Sending' /\ r \notin Pending'
    BY <1>1 DEF Sending, Pending, Runs, Over, Receive, GoOn, Remember, NoCall
  <1> QED BY <1>2, <1>3 DEF Sending, Pending, Runs

LEMMA RequestOtpNumbers ==
    ASSUME Sound, Ledger, CodesAreNumbered, NEW r \in Requests, RequestOtp(r)
    PROVE  CodesAreNumbered'
  <1>0. /\ pc \in [Requests -> Steps] /\ seen \in [Requests -> Nat]
        /\ call = [q \in Requests |-> call[q]] /\ stamp \in Nat
    BY DEF Sound, Asked, Codes
  <1>1. ASSUME stamp + Cardinality(Sending) < MaxChallenges,
               Receive(r, "requestOtp", "none", "none", 0, "act"), UNCHANGED authVars
        PROVE  CodesAreNumbered'
    <2>1. /\ Sending' \in SUBSET (Sending \union {r}) /\ Sending \in SUBSET Requests
          /\ Pending' \subseteq Pending /\ UNCHANGED seen
      BY <1>0, <1>1 DEF Sending, Pending, Runs, Receive
    <2>2. /\ Cardinality(Sending') <= Cardinality(Sending) + 1
          /\ Cardinality(Sending) \in Nat /\ Cardinality(Sending') \in Nat
      BY <2>1, OneMoreRequest
    <2>3. stamp' + Cardinality(Sending') <= MaxChallenges
      BY <1>0, <1>1, <2>2, AuthAssumption DEF authVars, AuthAssumption
    <2> QED BY <1>1, <2>1, <2>3 DEF CodesAreNumbered, authVars
  <1>2. ASSUME Over(r), UNCHANGED authVars PROVE CodesAreNumbered'
    <2>1. /\ Sending' \subseteq Sending /\ Pending' \subseteq Pending
          /\ \A q \in Pending' : seen'[q] = seen[q]
      BY <1>2, AskersGoOn
    <2> QED BY <1>2, <2>1, CodesStand DEF Sound, CodesAreNumbered, authVars
  <1>3. ASSUME Runs(r, "requestOtp", "act"), stamp' = stamp + 1, Remember(r, stamp', "commit"),
               UNCHANGED <<challenges, accounts, logins>>
        PROVE  CodesAreNumbered'
    <2>1. /\ Sending' = Sending \ {r} /\ r \in Sending /\ Sending \in SUBSET Requests
          /\ Sending' \in SUBSET Requests
      BY <1>0, <1>3 DEF Sending, Runs, Remember
    <2>2. /\ Cardinality(Sending') + 1 = Cardinality(Sending)
          /\ Cardinality(Sending) \in Nat /\ Cardinality(Sending') \in Nat
      BY <2>1, OneLess, Finite
    <2>3. stamp' + Cardinality(Sending') <= MaxChallenges
      BY <1>0, <1>3, <2>2, AuthAssumption DEF CodesAreNumbered, AuthAssumption
    <2>4. \A q \in Pending' : seen'[q] >= 1
      BY <1>0, <1>3 DEF CodesAreNumbered, Pending, Runs, Remember
    <2> QED BY <1>3, <2>3, <2>4 DEF CodesAreNumbered
  <1>4. ASSUME Runs(r, "requestOtp", "commit"), challenges' = challenges \union {Fresh(seen[r])},
               Over(r), UNCHANGED <<stamp, accounts, logins>>
        PROVE  CodesAreNumbered'
    <2>1. r \in Pending
      BY <1>4 DEF Pending
    <2>2. Fresh(seen[r]).id = seen[r] /\ seen[r] >= 1 /\ ~ Stored(seen[r])
      BY <2>1 DEF Fresh, CodesAreNumbered, Ledger, Numbered
    <2>3. /\ \A c \in challenges' : c.id >= 1
          /\ \A c, d \in challenges' : c.id = d.id => c = d
      BY <1>4, <2>2 DEF CodesAreNumbered, Stored
    <2>4. /\ Sending' \subseteq Sending /\ Pending' \subseteq Pending
          /\ \A q \in Pending' : seen'[q] = seen[q]
      BY <1>4, AskersGoOn
    <2> QED BY <1>4, <2>3, <2>4, CodesStand DEF Sound, CodesAreNumbered
  <1> QED BY <1>1, <1>2, <1>3, <1>4 DEF RequestOtp, Sending

LEMMA VerifyOtpNumbers ==
    ASSUME Sound, CodesAreNumbered, NEW r \in Requests, VerifyOtp(r)
    PROVE  CodesAreNumbered'
  <1>1. UNCHANGED stamp
    BY DEF VerifyOtp, authVars
  <1>2. /\ Sending' \subseteq Sending /\ Pending' \subseteq Pending
        /\ \A q \in Pending' : seen'[q] = seen[q]
    BY AskersGoOn DEF VerifyOtp, Runs
  <1>3. accounts' \in 0 .. 1
    <2>1. accounts' = accounts \/ (accounts = 0 /\ accounts' = accounts + 1)
      BY DEF VerifyOtp, authVars, NoAccountYet
    <2> QED BY <2>1 DEF CodesAreNumbered
  <1>4. CASE UNCHANGED challenges
    BY <1>1, <1>2, <1>3, <1>4, CodesStand DEF Sound, CodesAreNumbered
  <1>5. CASE LogIn(r)
    <2> DEFINE f == [c \in challenges |-> IF c.id = seen[r] THEN [c EXCEPT !.consumed = TRUE] ELSE c]
    <2>1. challenges' = {f[c] : c \in challenges}
      BY <1>5 DEF LogIn, Consume
    <2>2. \A c \in challenges : f[c].id = c.id
      BY DEF Sound, Codes, Challenge
    <2> HIDE DEF f
    <2>3. f \in [challenges -> challenges'] /\ \A d \in challenges' : \E c \in challenges : f[c] = d
      <3>1. f = [c \in challenges |-> f[c]]
        BY DEF f
      <3> QED BY <2>1, <3>1
    <2>4. /\ \A c \in challenges' : c.id >= 1
          /\ \A c, d \in challenges' : c.id = d.id => c = d
      BY <2>2, <2>3, RowsKeepIds
    <2> QED BY <1>1, <1>2, <1>3, <2>4, CodesStand DEF Sound
  <1> QED BY <1>4, <1>5 DEF VerifyOtp, CountedThenRolledBack, authVars

LEMMA TimeNumbers ==
    ASSUME Sound, CodesAreNumbered, TimePasses
    PROVE  CodesAreNumbered'
  <1>1. /\ UNCHANGED <<stamp, accounts, seen>> /\ Sending' = Sending /\ Pending' = Pending
    BY DEF TimePasses, Sending, Pending, Runs
  <1>2. PICK c \in challenges : \E d : challenges' = (challenges \ {c}) \union {d} /\ d.id = c.id
    <2>1. \A x \in challenges : /\ [x EXCEPT !.expired = TRUE].id = x.id
                                /\ [x EXCEPT !.recent = FALSE].id = x.id
      BY DEF Sound, Codes, Challenge
    <2> QED BY <2>1 DEF TimePasses
  <1>3. /\ \A x \in challenges' : x.id >= 1
        /\ \A x, y \in challenges' : x.id = y.id => x = y
    BY <1>2 DEF CodesAreNumbered
  <1> QED BY <1>1, <1>3, CodesStand DEF Sound, CodesAreNumbered

------------------------------------------------------------------------------
LEMMA InRangeInit == Init => InRange
  <1> SUFFICES ASSUME Init PROVE InRange
    OBVIOUS
  <1>1. Sending = {} /\ Pending = {} /\ Creators = {}
    BY DEF Init, InitRequests, Sending, Pending, Creators, Runs, NoCall
  <1>2. CodesAreNumbered
    BY <1>1, FS_EmptySet, AuthAssumption DEF Init, InitAuth, CodesAreNumbered, AuthAssumption
  <1>3. WatchesAreNumbered
    BY <1>1, FS_EmptySet, ApiAssumption DEF Init, WatchesAreNumbered, ApiAssumption
  <1>4. Remembered
    BY DEF Init, InitRequests, Remembered, Memory, NoCall
  <1> QED BY <1>2, <1>3, <1>4 DEF InRange

LEMMA InRangeStep == Sound /\ Ledger /\ InRange /\ [Next]_vars => InRange'
  <1> SUFFICES ASSUME Sound, Ledger, CodesAreNumbered, WatchesAreNumbered, Remembered, [Next]_vars
               PROVE  InRange'
    BY DEF InRange
  <1>1. ASSUME NEW r \in Requests, TableRequest(r) PROVE InRange'
    <2>1. UNCHANGED <<locked, authVars>> /\ group # "otp" /\ UNCHANGED group
      BY <1>1, TablesAreOfOtherGroups DEF Sound, TableRequest, outside
    <2>2. Remembered'
      <3>1. Memory \subseteq Memory'
        BY <2>1 DEF Memory, authVars
      <3> QED BY <1>1, <2>1, <3>1, RequestMoves, RememberedKept
    <2>3. CodesAreNumbered'
      <3>1. Pending' = {} /\ Sending' = {} /\ Sending = {}
        <4>1. Asked /\ Asked'
          BY SoundStep DEF Sound
        <4> QED BY <2>1, <4>1 DEF Asked, OpsOfTheGroup, ProductOps, ChannelOps, Pending, Sending, Runs
      <3> QED BY <2>1, <3>1 DEF CodesAreNumbered, authVars
    <2> QED BY <1>1, <2>2, <2>3, TableRequestNumbers DEF InRange
  <1>2. ASSUME NEW r \in Requests, Otp(r) PROVE InRange'
    <2>1. AuthRequest(r) /\ UNCHANGED <<watches, locked>>
      BY <1>2 DEF Otp, tables
    <2>2. CodesAreNumbered'
      BY <2>1, RequestOtpNumbers, VerifyOtpNumbers DEF AuthRequest
    <2>3. stamp' \in {stamp, stamp + 1}
      BY <2>1 DEF AuthRequest, RequestOtp, VerifyOtp, authVars
    <2>4. Remembered'
      BY <2>1, <2>3, MemoryGrows, RequestMoves, RememberedKept DEF Sound
    <2> QED BY <2>1, <2>2, <2>4, AuthRequestStands DEF InRange
  <1>3. ASSUME UNCHANGED <<watches, pc, call, seen>>, UNCHANGED stamp, CodesAreNumbered',
               locked' \in BOOLEAN
        PROVE  InRange'
    <2>1. Creators' = Creators /\ Memory' = Memory
      BY <1>3 DEF Creators, Memory
    <2> QED BY <1>3, <2>1 DEF InRange, WatchesAreNumbered, Remembered
  <1>4. CASE TimePasses /\ UNCHANGED <<tables, group, locked, logged>>
    BY <1>3, <1>4, TimeNumbers DEF TimePasses, tables, Remembered
  <1>5. ASSUME UNCHANGED <<tables, authVars, pc, call, seen>>, locked' \in BOOLEAN PROVE InRange'
    <2>1. CodesAreNumbered'
      BY <1>5 DEF CodesAreNumbered, Sending, Pending, Runs, authVars
    <2> QED BY <1>3, <1>5, <2>1 DEF tables, authVars
  <1> QED BY <1>1, <1>2, <1>4, <1>5
          DEF Next, MonitorMarks, MonitorStops, WorkerLogs, vars, outside, Remembered

\* What is in its range is in its type.
LEMMA InRangeIsTyped == Sound /\ Ledger /\ InRange => TypeOK
  <1> SUFFICES ASSUME Sound, Ledger, InRange PROVE TypeOK
    OBVIOUS
  <1>1. AuthTypeOK
    <2>1. stamp \in 0 .. MaxChallenges
      <3>1. Cardinality(Sending) \in Nat
        BY Finite DEF Sending
      <3> QED BY <3>1, AuthAssumption DEF Sound, Codes, InRange, CodesAreNumbered, AuthAssumption
    <2>2. ASSUME NEW c \in challenges
          PROVE  c \in [id : 1 .. stamp, consumed : BOOLEAN, attempts : 0 .. MaxAttempts,
                        expired : BOOLEAN, recent : BOOLEAN]
      <3>1. /\ c \in Challenge /\ c.attempts = 0 /\ c.id >= 1 /\ c.id <= stamp /\ stamp \in Nat
        BY DEF Sound, Codes, NoneCounted, InRange, CodesAreNumbered, Ledger, Numbered
      <3>2. c.id \in 1 .. stamp /\ c.attempts \in 0 .. MaxAttempts
        BY <3>1, AuthAssumption DEF Challenge, AuthAssumption
      <3> QED BY <3>1, <3>2 DEF Challenge
    <2>3. /\ logins \in [1 .. MaxChallenges -> Nat] /\ accounts \in 0 .. 1
          /\ \A c, d \in challenges : c.id = d.id => c = d
      BY DEF Ledger, Counted, InRange, CodesAreNumbered
    <2> QED BY <2>1, <2>2, <2>3 DEF AuthTypeOK
  <1>2. ASSUME NEW w \in watches
        PROVE  /\ w = Watch(w.id, w.user, w.product, w.interval, w.active)
               /\ w.id \in 1 .. MaxWatches /\ w.product \in Products
    <2>1. Cardinality(watches) \in Nat /\ Cardinality(Creators) \in Nat
      BY Finite, FS_CardinalityType DEF InRange, WatchesAreNumbered, Creators
    <2>2. w.id \in 1 .. MaxWatches
      BY <2>1, ApiAssumption DEF InRange, WatchesAreNumbered, ApiAssumption
    <2> QED BY <2>2 DEF Sound, Consistent, Rows
  <1>3. \A r \in Requests : call[r].op \in Ops \union {"none"}
    BY DEF Sound, Asked, OpsOfTheGroup, ProductOps, ChannelOps, Ops, InRange, Remembered
  <1>4. seen \in [Requests -> {0, 1} \union Intervals \union 1 .. stamp] /\ locked \in BOOLEAN
    BY DEF InRange, Remembered, Memory
  <1>5. \A w, v \in watches : w.id = v.id => w = v
    BY DEF InRange, WatchesAreNumbered
  <1> QED BY <1>1, <1>2, <1>3, <1>4, <1>5 DEF TypeOK, Sound, Asked, Consistent, Rows

(* For any number of requests, users and intervals, in any interleaving,   *)
(* every value is in its type: no two watches or challenges get one id,    *)
(* the target stays one row and the phone number one account, and the      *)
(* requests under way fit in the bounds with the rows that are there.      *)
THEOREM ApiTypeCorrect == Spec => []TypeOK
  <1>1. Init => Sound /\ Ledger /\ InRange
    BY SoundInit, LedgerInit, InRangeInit
  <1>2. Sound /\ Ledger /\ InRange /\ [Next]_vars => (Sound /\ Ledger /\ InRange)'
    BY SoundStep, LedgerStep, InRangeStep
  <1> QED BY <1>1, <1>2, InRangeIsTyped, PTL DEF Spec
=============================================================================
