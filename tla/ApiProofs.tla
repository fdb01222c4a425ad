----------------------------- MODULE ApiProofs -----------------------------
(***************************************************************************)
(* Theorems about Api, for any users, products, channels, intervals, caps  *)
(* and numbers of requests.                                                *)
(***************************************************************************)
EXTENDS Api, SequenceTheorems, FiniteSetTheorems, TLAPS

ProductOps == {"createProduct", "deleteProduct", "createWatch"}
ChannelOps == {"createChannel", "verifyChannel", "deleteChannel"}

\* What the requests of the group a behaviour is about may be asking for.
OpsOfTheGroup ==
    CASE group = "watches" -> ProductOps \union {"deleteWatch"}
      [] group = "channels" -> ChannelOps
      [] group = "settings" -> {"updateSetting"}
      [] group = "otp" -> {"requestOtp", "verifyOtp"}

(* Where requests are and what those that are under way ask for.           *)
Names(op, row, value) ==
    /\ op \in ProductOps => row \in Products
    /\ op \in ChannelOps => row \in Channels
    /\ op = "createWatch" => value \in Intervals
    /\ op = "updateSetting" => value \in Values

Asked ==
    /\ group \in {"watches", "channels", "settings", "otp"}
    /\ pc \in [Requests -> Steps] /\ seen \in [Requests -> Nat]
    /\ call = [r \in Requests |-> call[r]]
    /\ \A r \in Requests :
          /\ pc[r] # "idle" => call[r].op \in OpsOfTheGroup
          /\ Names(call[r].op, call[r].row, call[r].value)

(* The tables, and what the rows of different tables have to do with each  *)
(* other.                                                                  *)
Rows ==
    /\ products \in [Products -> {"new", "here", "gone"}]
    /\ \A w \in watches : /\ w = Watch(w.id, w.user, w.product, w.interval, w.active)
                          /\ w.product \in Products
    /\ targets \in Seq(Intervals) /\ Len(targets) <= 1
    /\ channels \in [Channels -> {"new", "here", "verified", "gone"}]
    /\ logged \subseteq Channels
    /\ settings \in Seq(Values)
    /\ watches # {} => group = "watches"
    /\ settings # <<>> => group = "settings"

References ==
    /\ \A w \in watches : products[w.product] = "here"
    /\ \A c \in logged : channels[c] \in {"here", "verified"}

Consistent == Rows /\ IntervalWasAsked /\ References

------------------------------------------------------------------------------
(* The steps of a request, whatever it asks for.                           *)
LEMMA ReceiveAsked ==
    ASSUME Asked, UNCHANGED group, NEW r \in Requests, NEW op \in OpsOfTheGroup, NEW user, NEW row,
           NEW value, NEW step \in Steps, Receive(r, op, user, row, value, step),
           Names(op, row, value)
    PROVE  Asked'
  BY DEF Asked, Receive, OpsOfTheGroup, Names

LEMMA GoOnAsked ==
    ASSUME Asked, UNCHANGED group, NEW r \in Requests, NEW step \in Steps, GoOn(r, step),
           pc[r] # "idle"
    PROVE  Asked'
  BY DEF Asked, GoOn, OpsOfTheGroup, Names

LEMMA RememberAsked ==
    ASSUME Asked, UNCHANGED group, NEW r \in Requests, NEW step \in Steps, NEW what \in Nat,
           Remember(r, what, step), pc[r] # "idle"
    PROVE  Asked'
  BY DEF Asked, Remember, OpsOfTheGroup, Names

LEMMA OverAsked ==
    ASSUME Asked, UNCHANGED group, NEW r \in Requests, Over(r)
    PROVE  Asked'
  BY DEF Asked, Over, OpsOfTheGroup, Names, NoCall, Steps, ProductOps, ChannelOps

LEMMA TablesKept ==
    ASSUME Consistent, UNCHANGED <<tables, group, logged>>
    PROVE  Consistent'
  BY DEF Consistent, Rows, IntervalWasAsked, References, tables

LEMMA InitConsistent == Init => Asked /\ Consistent
  <1> SUFFICES ASSUME Init PROVE Asked /\ Consistent
    OBVIOUS
  <1>1. Asked
    BY DEF Init, InitRequests, Asked, NoCall, Steps, Names, ProductOps, ChannelOps
  <1>2. Rows
    BY DEF Init, Rows
  <1>3. IntervalWasAsked /\ References
    BY DEF Init, IntervalWasAsked, References
  <1> QED BY <1>1, <1>2, <1>3 DEF Consistent

------------------------------------------------------------------------------
LEMMA CreateProductKeeps ==
    ASSUME Asked, Consistent, UNCHANGED outside, NEW r \in Requests, CreateProduct(r)
    PROVE  Asked' /\ Consistent'
  <1>0. UNCHANGED <<group, logged>>
    BY DEF outside
  <1>1. ASSUME NEW p \in Products, group = "watches",
               Enter(r, "createProduct", Owner[p], p, 0, "commit")
        PROVE  Asked' /\ Consistent'
    BY <1>0, <1>1, ReceiveAsked, TablesKept
       DEF Enter, OpsOfTheGroup, ProductOps, ChannelOps, Names, Steps
  <1>2. ASSUME Runs(r, "createProduct", "commit"), products' = Created(call[r].row), Over(r),
               UNCHANGED <<watches, targets, channels, settings>>
        PROVE  Asked' /\ Consistent'
    <2>1. Asked'
      BY <1>0, <1>2, OverAsked
    <2>2. call[r].row \in Products
      BY <1>2 DEF Asked, Names, Runs, ProductOps
    <2>3. Rows'
      BY <1>0, <1>2, <2>2 DEF Consistent, Rows, Created
    <2>4. IntervalWasAsked' /\ References'
      BY <1>0, <1>2, <2>2 DEF Consistent, Rows, Created, IntervalWasAsked, References
    <2> QED BY <2>1, <2>3, <2>4 DEF Consistent
  <1> QED BY <1>1, <1>2 DEF CreateProduct

LEMMA DeleteProductKeeps ==
    ASSUME Asked, Consistent, UNCHANGED outside, NEW r \in Requests, DeleteProduct(r)
    PROVE  Asked' /\ Consistent'
  <1>0. UNCHANGED <<group, logged>>
    BY DEF outside
  <1>1. ASSUME NEW p \in Products, NEW u \in Users, group = "watches",
               Enter(r, "deleteProduct", u, p, 0, "check")
        PROVE  Asked' /\ Consistent'
    BY <1>0, <1>1, ReceiveAsked, TablesKept
       DEF Enter, OpsOfTheGroup, ProductOps, ChannelOps, Names, Steps
  <1>2. ASSUME Runs(r, "deleteProduct", "check") \/ Runs(r, "deleteProduct", "act"),
               Stay(r, "act") \/ Stay(r, "commit") \/ Refuse(r)
        PROVE  Asked' /\ Consistent'
    BY <1>0, <1>2, GoOnAsked, OverAsked, TablesKept DEF Stay, Refuse, Runs, Steps
  <1>3. ASSUME Runs(r, "deleteProduct", "commit"), products' = Removed(call[r].row), Over(r),
               UNCHANGED <<watches, targets, channels, settings>>
        PROVE  Asked' /\ Consistent'
    <2>1. Asked'
      BY <1>0, <1>3, OverAsked
    <2>2. call[r].row \in Products
      BY <1>3 DEF Asked, Names, Runs, ProductOps
    <2>3. Rows'
      BY <1>0, <1>3, <2>2 DEF Consistent, Rows, Removed
    <2>4. IntervalWasAsked' /\ References'
      BY <1>0, <1>3, <2>2 DEF Consistent, Rows, Removed, Unreferenced, IntervalWasAsked, References
    <2> QED BY <2>1, <2>3, <2>4 DEF Consistent
  <1> QED BY <1>1, <1>2, <1>3 DEF DeleteProduct

------------------------------------------------------------------------------
LEMMA TargetIsAnInterval ==
    ASSUME Rows
    PROVE  TargetInterval \in Nat /\ (targets # <<>> => targets[1] \in Nat)
  <1>1. targets \in Seq(Intervals) /\ Intervals \subseteq Nat
    BY ApiAssumption DEF Rows, ApiAssumption
  <1>2. CASE targets = <<>>
    BY <1>2 DEF TargetInterval
  <1>3. CASE targets # <<>>
    <2>1. Len(targets) \in Nat /\ Len(targets) # 0
      BY <1>1, <1>3
    <2>2. 1 \in 1 .. Len(targets)
      BY <2>1
    <2>3. targets[1] \in Intervals
      BY <1>1, <2>2
    <2> QED BY <1>1, <1>3, <2>3 DEF TargetInterval
  <1> QED BY <1>2, <1>3

(* An update of the one row puts what was asked for in the place of what   *)
(* the row held.                                                           *)
LEMMA Replaced ==
    ASSUME NEW S, NEW s \in Seq(S), NEW v \in S
    PROVE  LET after == [s EXCEPT ![1] = v]
           IN  /\ after \in Seq(S) /\ Len(after) = Len(s)
               /\ \A j \in 1 .. Len(s) : after[j] = IF j = 1 THEN v ELSE s[j]
  <1> DEFINE after == [s EXCEPT ![1] = v]
  <1>1. CASE 1 \in 1 .. Len(s)
    BY <1>1, ExceptSeq
  <1>2. CASE 1 \notin 1 .. Len(s)
    <2>1. after = s /\ 1 .. Len(s) = {}
      BY <1>2
    <2> QED BY <2>1
  <1> QED BY <1>1, <1>2

(* The target and the watch are written together, or neither of them is.   *)
LEMMA CreateWatchKeeps ==
    ASSUME Asked, Consistent, UNCHANGED outside, NEW r \in Requests, CreateWatch(r)
    PROVE  Asked' /\ Consistent'
  <1>0. UNCHANGED <<group, logged>>
    BY DEF outside
  <1>1. ASSUME NEW p \in Products, NEW u \in Users, NEW i \in Intervals, group = "watches",
               Enter(r, "createWatch", u, p, i, "check")
        PROVE  Asked' /\ Consistent'
    BY <1>0, <1>1, ReceiveAsked, TablesKept
       DEF Enter, OpsOfTheGroup, ProductOps, ChannelOps, Names, Steps
  <1>2. ASSUME Runs(r, "createWatch", "check"), Stay(r, "act") \/ Refuse(r)
        PROVE  Asked' /\ Consistent'
    BY <1>0, <1>2, GoOnAsked, OverAsked, TablesKept DEF Stay, Refuse, Runs, Steps
  <1>3. ASSUME Runs(r, "createWatch", "act"), Remember(r, TargetInterval, "commit"), UNCHANGED tables
        PROVE  Asked' /\ Consistent'
    <2>1. TargetInterval \in Nat
      BY TargetIsAnInterval DEF Consistent
    <2> QED BY <1>0, <1>3, <2>1, RememberAsked, TablesKept DEF Runs, Steps
  <1>4. ASSUME Runs(r, "createWatch", "commit"), TargetAndWatch(r), Over(r)
        PROVE  Asked' /\ Consistent'
    <2>1. Asked'
      BY <1>0, <1>4, OverAsked
    <2>2. /\ call[r].row \in Products /\ call[r].value \in Intervals /\ group = "watches"
          /\ seen[r] \in Nat
      BY <1>4 DEF Asked, Names, Runs, ProductOps, ChannelOps, OpsOfTheGroup
    <2>3. CASE UniqueTarget(r) /\ ProductExists(r)
      <3>1. /\ targets' = TargetAfter(r) /\ watches' = watches \union {NewWatch(r)}
            /\ UNCHANGED <<products, channels, settings>>
        BY <1>4, <2>3 DEF TargetAndWatch
      <3>2. /\ targets' \in Seq(Intervals) /\ Len(targets') <= 1
            /\ \A j \in 1 .. Len(targets') :
                  targets'[j] = call[r].value \/ (j \in 1 .. Len(targets) /\ targets'[j] = targets[j])
        <4>1. CASE seen[r] = 0
          <5>1. targets = <<>> /\ targets' = Append(targets, call[r].value)
            BY <2>3, <3>1, <4>1 DEF UniqueTarget, TargetAfter
          <5>2. targets' = <<call[r].value>>
            BY <5>1
          <5> QED BY <2>2, <5>2
        <4>2. CASE seen[r] # 0 /\ Lowers(r)
          <5>1. targets' = [targets EXCEPT ![1] = call[r].value]
            BY <3>1, <4>2 DEF TargetAfter
          <5>2. targets \in Seq(Intervals) /\ Len(targets) \in Nat /\ Len(targets) <= 1
            BY DEF Consistent, Rows
          <5> QED BY <2>2, <5>1, <5>2, Replaced
        <4>3. CASE seen[r] # 0 /\ ~ Lowers(r)
          BY <3>1, <4>3 DEF TargetAfter, Consistent, Rows
        <4> QED BY <4>1, <4>2, <4>3
      <3>3. NewWatch(r) \in watches' /\ NewWatch(r).interval = call[r].value
        BY <3>1 DEF NewWatch, Watch
      <3>4. \A w \in watches' : w \in watches \/ w = NewWatch(r)
        BY <3>1
      <3>5. /\ NewWatch(r).product = call[r].row /\ products[call[r].row] = "here"
            /\ NewWatch(r) = Watch(NewWatch(r).id, NewWatch(r).user, NewWatch(r).product,
                                   NewWatch(r).interval, NewWatch(r).active)
        BY <2>3 DEF NewWatch, Watch, ProductExists
      <3>6. Rows'
        BY <1>0, <2>2, <3>1, <3>2, <3>4, <3>5 DEF Consistent, Rows
      <3>7. IntervalWasAsked'
        BY <3>1, <3>2, <3>3, <3>4 DEF Consistent, IntervalWasAsked
      <3>8. References'
        BY <1>0, <3>1, <3>4, <3>5 DEF Consistent, References
      <3> QED BY <2>1, <3>6, <3>7, <3>8 DEF Consistent
    <2>4. CASE ~ (UniqueTarget(r) /\ ProductExists(r))
      BY <1>0, <1>4, <2>1, <2>4, TablesKept DEF TargetAndWatch
    <2> QED BY <2>3, <2>4
  <1> QED BY <1>1, <1>2, <1>3, <1>4 DEF CreateWatch

LEMMA DeleteWatchKeeps ==
    ASSUME Asked, Consistent, UNCHANGED outside, NEW r \in Requests, DeleteWatch(r)
    PROVE  Asked' /\ Consistent'
  <1>0. UNCHANGED <<group, logged>>
    BY DEF outside
  <1>1. ASSUME NEW w \in watches, NEW u \in Users, Enter(r, "deleteWatch", u, w.id, 0, "check")
        PROVE  Asked' /\ Consistent'
    <2>1. group = "watches"
      BY <1>1 DEF Consistent, Rows
    <2> QED BY <1>0, <1>1, <2>1, ReceiveAsked, TablesKept
            DEF Enter, OpsOfTheGroup, ProductOps, ChannelOps, Names, Steps
  <1>2. ASSUME Runs(r, "deleteWatch", "check"), Stay(r, "commit") \/ Refuse(r)
        PROVE  Asked' /\ Consistent'
    BY <1>0, <1>2, GoOnAsked, OverAsked, TablesKept DEF Stay, Refuse, Runs, Steps
  <1>3. ASSUME watches' = Deactivated(call[r].row), Over(r),
               UNCHANGED <<products, targets, channels, settings>>
        PROVE  Asked' /\ Consistent'
    <2>1. Asked'
      BY <1>0, <1>3, OverAsked
    <2> DEFINE off(w) == [w EXCEPT !.active = w.active /\ w.id # call[r].row]
    <2>2. watches' = {off(w) : w \in watches}
      BY <1>3 DEF Deactivated
    <2>3. \A w \in watches :
             /\ off(w) = Watch(w.id, w.user, w.product, w.interval, w.active /\ w.id # call[r].row)
             /\ off(w).product = w.product /\ off(w).interval = w.interval
      BY DEF Consistent, Rows, Watch
    <2>4. \A w \in watches : off(w) = Watch(off(w).id, off(w).user, off(w).product,
                                            off(w).interval, off(w).active)
      BY <2>3 DEF Watch
    <2> HIDE DEF off
    <2>5. Rows'
      BY <1>0, <1>3, <2>2, <2>3, <2>4 DEF Consistent, Rows
    <2>6. IntervalWasAsked' /\ References'
      BY <1>0, <1>3, <2>2, <2>3 DEF Consistent, IntervalWasAsked, References
    <2> QED BY <2>1, <2>5, <2>6 DEF Consistent
  <1> QED BY <1>1, <1>2, <1>3 DEF DeleteWatch

------------------------------------------------------------------------------
LEMMA SetChannelKeeps ==
    ASSUME Consistent, UNCHANGED <<group, logged>>, NEW r \in Requests,
           NEW state \in {"here", "verified", "gone"}, SetChannel(r, state),
           state = "gone" => Unlogged(call[r].row)
    PROVE  Consistent'
  <1>1. /\ channels' = [channels EXCEPT ![call[r].row] = state]
        /\ UNCHANGED <<products, watches, targets, settings>>
    BY DEF SetChannel
  <1>2. Rows'
    BY <1>1 DEF Consistent, Rows
  <1>3. IntervalWasAsked' /\ References'
    BY <1>1 DEF Consistent, Rows, Unlogged, IntervalWasAsked, References
  <1> QED BY <1>2, <1>3 DEF Consistent

LEMMA ChannelKeeps ==
    ASSUME Asked, Consistent, UNCHANGED outside, NEW r \in Requests,
           CreateChannel(r) \/ VerifyChannel(r) \/ DeleteChannel(r)
    PROVE  Asked' /\ Consistent'
  <1>0. UNCHANGED <<group, logged>>
    BY DEF outside
  <1>1. ASSUME NEW c \in Channels, group = "channels", NEW u,
               \/ Enter(r, "createChannel", u, c, 0, "commit")
               \/ Enter(r, "verifyChannel", u, c, 0, "check")
               \/ Enter(r, "deleteChannel", u, c, 0, "check")
        PROVE  Asked' /\ Consistent'
    BY <1>0, <1>1, ReceiveAsked, TablesKept
       DEF Enter, OpsOfTheGroup, ProductOps, ChannelOps, Names, Steps
  <1>2. ASSUME pc[r] # "idle", Stay(r, "act") \/ Stay(r, "commit") \/ Refuse(r)
        PROVE  Asked' /\ Consistent'
    BY <1>0, <1>2, GoOnAsked, OverAsked, TablesKept DEF Stay, Refuse, Steps
  <1>3. ASSUME Over(r), \/ SetChannel(r, "here") \/ SetChannel(r, "verified") \/ UNCHANGED tables
                        \/ Unlogged(call[r].row) /\ SetChannel(r, "gone")
        PROVE  Asked' /\ Consistent'
    BY <1>0, <1>3, OverAsked, SetChannelKeeps, TablesKept
  <1>4. CASE CreateChannel(r)
    BY <1>1, <1>3, <1>4 DEF CreateChannel, AddChannel
  <1>5. CASE VerifyChannel(r)
    BY <1>1, <1>2, <1>3, <1>5 DEF VerifyChannel, Runs
  <1>6. CASE DeleteChannel(r)
    BY <1>1, <1>2, <1>3, <1>6 DEF DeleteChannel, Runs
  <1> QED BY <1>4, <1>5, <1>6

LEMMA UpdateSettingKeeps ==
    ASSUME Asked, Consistent, UNCHANGED outside, NEW r \in Requests, UpdateSetting(r)
    PROVE  Asked' /\ Consistent'
  <1>0. UNCHANGED <<group, logged>>
    BY DEF outside
  <1>1. ASSUME NEW v \in Values, group = "settings",
               Enter(r, "updateSetting", "none", "none", v, "act")
        PROVE  Asked' /\ Consistent'
    BY <1>0, <1>1, ReceiveAsked, TablesKept
       DEF Enter, OpsOfTheGroup, ProductOps, ChannelOps, Names, Steps
  <1>2. ASSUME Refuse(r) PROVE Asked' /\ Consistent'
    BY <1>0, <1>2, OverAsked, TablesKept DEF Refuse
  <1>3. ASSUME Runs(r, "updateSetting", "act"), Remember(r, Len(settings), "commit"), UNCHANGED tables
        PROVE  Asked' /\ Consistent'
    <2>1. Len(settings) \in Nat
      BY DEF Consistent, Rows
    <2> QED BY <1>0, <1>3, <2>1, RememberAsked, TablesKept DEF Runs, Steps
  <1>4. ASSUME Runs(r, "updateSetting", "commit"), Over(r),
               settings' = IF Inserts(r) THEN Append(settings, call[r].value)
                                         ELSE [settings EXCEPT ![1] = call[r].value],
               UNCHANGED <<products, watches, targets, channels>>
        PROVE  Asked' /\ Consistent'
    <2>1. Asked'
      BY <1>0, <1>4, OverAsked
    <2>2. call[r].value \in Values /\ group = "settings"
      BY <1>4 DEF Asked, Names, Runs, ProductOps, ChannelOps, OpsOfTheGroup
    <2>3. settings' \in Seq(Values)
      <3>1. settings \in Seq(Values)
        BY DEF Consistent, Rows
      <3>2. CASE Inserts(r)
        BY <1>4, <2>2, <3>1, <3>2
      <3>3. CASE ~ Inserts(r)
        BY <1>4, <2>2, <3>1, <3>3, Replaced
      <3> QED BY <3>2, <3>3
    <2>4. Rows'
      BY <1>0, <1>4, <2>2, <2>3 DEF Consistent, Rows
    <2>5. IntervalWasAsked' /\ References'
      BY <1>0, <1>4 DEF Consistent, IntervalWasAsked, References
    <2> QED BY <2>1, <2>4, <2>5 DEF Consistent
  <1> QED BY <1>1, <1>2, <1>3, <1>4 DEF UpdateSetting

------------------------------------------------------------------------------
(* Logging in touches none of the tables, and a stored challenge keeps its *)
(* count: what a wrong code would have added is rolled back.               *)
Challenge == [id : Nat, consumed : BOOLEAN, attempts : Nat, expired : BOOLEAN, recent : BOOLEAN]

NoneCounted == \A c \in challenges : c.attempts = 0

Codes ==
    /\ stamp \in Nat
    /\ challenges \subseteq Challenge
    /\ NoneCounted

LEMMA RequestOtpKeeps ==
    ASSUME Asked, Codes, UNCHANGED group, group = "otp", NEW r \in Requests, RequestOtp(r)
    PROVE  Asked' /\ Codes'
  <1>1. ASSUME Receive(r, "requestOtp", "none", "none", 0, "act"), UNCHANGED authVars
        PROVE  Asked' /\ Codes'
    <2>1. Asked'
      BY <1>1, ReceiveAsked DEF OpsOfTheGroup, ProductOps, ChannelOps, Names, Steps
    <2> QED BY <1>1, <2>1 DEF Codes, NoneCounted, authVars
  <1>2. ASSUME Over(r), UNCHANGED authVars PROVE Asked' /\ Codes'
    BY <1>2, OverAsked DEF Codes, NoneCounted, authVars
  <1>3. ASSUME Runs(r, "requestOtp", "act"), stamp' = stamp + 1, Remember(r, stamp', "commit"),
               UNCHANGED <<challenges, accounts, logins>>
        PROVE  Asked' /\ Codes'
    <2>1. stamp' \in Nat
      BY <1>3 DEF Codes
    <2>2. Asked'
      BY <1>3, <2>1, RememberAsked DEF Runs, Steps
    <2> QED BY <1>3, <2>1, <2>2 DEF Codes, NoneCounted
  <1>4. ASSUME challenges' = challenges \union {Fresh(seen[r])}, Over(r),
               UNCHANGED <<stamp, accounts, logins>>
        PROVE  Asked' /\ Codes'
    <2>1. Asked'
      BY <1>4, OverAsked
    <2>2. seen[r] \in Nat
      BY DEF Asked
    <2>3. Fresh(seen[r]) \in Challenge /\ Fresh(seen[r]).attempts = 0
      BY <2>2 DEF Fresh, Challenge
    <2> QED BY <1>4, <2>1, <2>3 DEF Codes, NoneCounted
  <1> QED BY <1>1, <1>2, <1>3, <1>4 DEF RequestOtp

LEMMA ConsumeKeeps ==
    ASSUME Codes, NEW id, challenges' = Consume(id), UNCHANGED stamp
    PROVE  Codes'
  <1> DEFINE used(c) == IF c.id = id THEN [c EXCEPT !.consumed = TRUE] ELSE c
  <1>1. challenges' = {used(c) : c \in challenges}
    BY DEF Consume
  <1>2. \A c \in challenges : used(c) \in Challenge /\ used(c).attempts = c.attempts
    BY DEF Codes, Challenge
  <1> HIDE DEF used
  <1> QED BY <1>1, <1>2 DEF Codes, NoneCounted

LEMMA VerifyOtpKeeps ==
    ASSUME Asked, Codes, UNCHANGED group, group = "otp", NEW r \in Requests, VerifyOtp(r)
    PROVE  Asked' /\ Codes'
  <1>1. ASSUME NEW n \in 0 .. stamp, Receive(r, "verifyOtp", "none", "none", n, "act"),
               UNCHANGED authVars
        PROVE  Asked' /\ Codes'
    <2>1. Asked'
      BY <1>1, ReceiveAsked DEF OpsOfTheGroup, ProductOps, ChannelOps, Names, Steps
    <2> QED BY <1>1, <2>1 DEF Codes, NoneCounted, authVars
  <1>2. ASSUME Over(r), UNCHANGED challenges, UNCHANGED stamp PROVE Asked' /\ Codes'
    BY <1>2, OverAsked DEF Codes, NoneCounted
  <1>3. ASSUME NEW c \in Latest, Runs(r, "verifyOtp", "act"), Remember(r, c.id, "account"),
               UNCHANGED authVars
        PROVE  Asked' /\ Codes'
    <2>1. c.id \in Nat
      BY <1>3 DEF Codes, Challenge, Latest
    <2>2. Asked'
      BY <1>3, <2>1, RememberAsked DEF Runs, Steps
    <2> QED BY <1>3, <2>2 DEF Codes, NoneCounted, authVars
  <1>4. ASSUME Runs(r, "verifyOtp", "account"), UNCHANGED authVars,
               GoOn(r, IF accounts = 0 THEN "create" ELSE "commit")
        PROVE  Asked' /\ Codes'
    BY <1>4, GoOnAsked DEF Runs, Steps, Codes, NoneCounted, authVars
  <1>5. ASSUME LogIn(r), Over(r), UNCHANGED stamp PROVE Asked' /\ Codes'
    BY <1>5, OverAsked, ConsumeKeeps DEF LogIn
  <1> QED BY <1>1, <1>2, <1>3, <1>4, <1>5 DEF VerifyOtp, CountedThenRolledBack, authVars

------------------------------------------------------------------------------
LEMMA ApiInit == Init => Asked /\ Consistent /\ Codes
  BY InitConsistent DEF Init, InitAuth, Codes, NoneCounted

LEMMA ApiStep == Asked /\ Consistent /\ Codes /\ [Next]_vars => (Asked /\ Consistent /\ Codes)'
  <1> SUFFICES ASSUME Asked, Consistent, Codes, [Next]_vars PROVE (Asked /\ Consistent /\ Codes)'
    OBVIOUS
  <1>1. ASSUME NEW r \in Requests, TableRequest(r) PROVE (Asked /\ Consistent /\ Codes)'
    <2>1. UNCHANGED outside
      BY <1>1 DEF TableRequest
    <2>2. Codes'
      BY <2>1 DEF outside, authVars, Codes, NoneCounted
    <2>3. Asked' /\ Consistent'
      BY <1>1, <2>1, CreateProductKeeps, DeleteProductKeeps, CreateWatchKeeps, DeleteWatchKeeps,
         ChannelKeeps, UpdateSettingKeeps DEF TableRequest
    <2> QED BY <2>2, <2>3
  <1>2. ASSUME NEW r \in Requests, Otp(r) PROVE (Asked /\ Consistent /\ Codes)'
    <2>1. group = "otp" /\ AuthRequest(r) /\ UNCHANGED <<tables, group, locked, logged>>
      BY <1>2 DEF Otp
    <2>2. Asked' /\ Codes'
      BY <2>1, RequestOtpKeeps, VerifyOtpKeeps DEF AuthRequest
    <2> QED BY <2>1, <2>2, TablesKept
  <1>3. ASSUME TimePasses, UNCHANGED <<tables, group, locked, logged>>
        PROVE  (Asked /\ Consistent /\ Codes)'
    <2>1. Asked'
      BY <1>3 DEF TimePasses, Asked, OpsOfTheGroup, Names
    <2>2. PICK c \in challenges : \/ challenges' = (challenges \ {c}) \union {[c EXCEPT !.expired = TRUE]}
                                 \/ challenges' = (challenges \ {c}) \union {[c EXCEPT !.recent = FALSE]}
      BY <1>3 DEF TimePasses
    <2>3. c \in Challenge /\ c.attempts = 0
      BY <2>2 DEF Codes, NoneCounted
    <2>4. PICK d \in Challenge : challenges' = (challenges \ {c}) \union {d} /\ d.attempts = 0
      <3>1. /\ [c EXCEPT !.expired = TRUE] \in Challenge /\ [c EXCEPT !.expired = TRUE].attempts = 0
            /\ [c EXCEPT !.recent = FALSE] \in Challenge /\ [c EXCEPT !.recent = FALSE].attempts = 0
        BY <2>3 DEF Challenge
      <3> QED BY <2>2, <3>1
    <2>5. Codes'
      BY <1>3, <2>4 DEF TimePasses, Codes, NoneCounted
    <2> QED BY <1>3, <2>1, <2>5, TablesKept
  <1>4. CASE MonitorMarks \/ MonitorStops
    <2>1. UNCHANGED <<group, logged, tables, authVars, pc, call, seen>>
      BY <1>4 DEF MonitorMarks, MonitorStops
    <2>2. Asked' /\ Codes'
      BY <2>1 DEF Asked, OpsOfTheGroup, Names, authVars, Codes, NoneCounted
    <2> QED BY <2>1, <2>2, TablesKept
  <1>5. CASE WorkerLogs
    <2>1. UNCHANGED <<group, tables, authVars, pc, call, seen>>
      BY <1>5 DEF WorkerLogs
    <2>2. Asked' /\ Codes'
      BY <2>1 DEF Asked, OpsOfTheGroup, Names, authVars, Codes, NoneCounted
    <2>3. PICK c \in Channels : channels[c] \in {"here", "verified"} /\ logged' = logged \union {c}
      BY <1>5 DEF WorkerLogs
    <2>4. Consistent'
      BY <2>1, <2>3 DEF tables, Consistent, Rows, IntervalWasAsked, References
    <2> QED BY <2>2, <2>4
  <1>6. CASE UNCHANGED vars
    <2>1. UNCHANGED <<group, logged, tables, authVars, pc, call, seen>>
      BY <1>6 DEF vars, outside
    <2>2. Asked' /\ Codes'
      BY <2>1 DEF Asked, OpsOfTheGroup, Names, authVars, Codes, NoneCounted
    <2> QED BY <2>1, <2>2, TablesKept
  <1> QED BY <1>1, <1>2, <1>3, <1>4, <1>5, <1>6 DEF Next

(* In any order of any number of requests, those that fail or meet a       *)
(* constraint included, no target is left with an interval no watch has.   *)
THEOREM IntervalsAreAsked == Spec => []IntervalWasAsked
  <1>1. Asked /\ Consistent /\ Codes => IntervalWasAsked
    BY DEF Consistent
  <1> QED BY <1>1, ApiInit, ApiStep, PTL DEF Spec

------------------------------------------------------------------------------
(* Counting the requests that are under way.                               *)
LEMMA Finite ==
    /\ IsFiniteSet(Requests) /\ Cardinality(Requests) \in Nat
    /\ \A S \in SUBSET Requests : /\ IsFiniteSet(S) /\ Cardinality(S) \in Nat
                                  /\ Cardinality(S) <= Cardinality(Requests)
  BY RequestsAssumption, FS_Subset, FS_CardinalityType DEF RequestsAssumption

\* A request that leaves a set of requests makes room for one row or login.
LEMMA OneLess ==
    ASSUME NEW S \in SUBSET Requests, NEW r \in S
    PROVE  Cardinality(S \ {r}) + 1 = Cardinality(S)
  <1>1. IsFiniteSet(S) /\ Cardinality(S) \in Nat
    BY Finite
  <1>2. Cardinality(S \ {r}) = Cardinality(S) - 1
    BY <1>1, FS_RemoveElement
  <1> QED BY <1>1, <1>2


\* Nobody comes to the commit of op in this step; who is there stays as it is or leaves.
NoNewWriter(op) ==
    \A q \in Requests : Runs(q, op, "commit")' => Runs(q, op, "commit") /\ seen'[q] = seen[q]

LEMMA StepsOfOthers ==
    ASSUME Asked, NEW r \in Requests, NEW op, NEW other, op # other, other # "none",
           \/ \E user, row, value, step : Receive(r, op, user, row, value, step)
           \/ \E step : call[r].op = op /\ GoOn(r, step)
           \/ \E what, step : call[r].op = op /\ Remember(r, what, step)
           \/ Over(r)
    PROVE  NoNewWriter(other)
  <1>1. /\ pc \in [Requests -> Steps] /\ seen \in [Requests -> Nat]
        /\ call = [q \in Requests |-> call[q]]
    BY DEF Asked
  <1>2. \A q \in Requests \ {r} : pc'[q] = pc[q] /\ call'[q] = call[q] /\ seen'[q] = seen[q]
    BY <1>1 DEF Receive, GoOn, Remember, Over
  <1>3. pc'[r] = "idle" \/ call'[r].op = op
    BY <1>1 DEF Receive, GoOn, Remember, Over
  <1> QED BY <1>2, <1>3 DEF NoNewWriter, Runs

LEMMA OnlyWritersWrite ==
    ASSUME Asked, NEW r \in Requests
    PROVE  /\ (\/ CreateProduct(r) \/ DeleteProduct(r) \/ DeleteWatch(r)
               \/ CreateChannel(r) \/ VerifyChannel(r) \/ DeleteChannel(r) \/ AuthRequest(r))
                 => NoNewWriter("createWatch") /\ NoNewWriter("updateSetting")
           /\ CreateWatch(r) => NoNewWriter("updateSetting")
           /\ UpdateSetting(r) => NoNewWriter("createWatch")
  <1>1. CreateProduct(r) => NoNewWriter("createWatch") /\ NoNewWriter("updateSetting")
    BY StepsOfOthers DEF CreateProduct, Enter, Runs
  <1>2. DeleteProduct(r) => NoNewWriter("createWatch") /\ NoNewWriter("updateSetting")
    BY StepsOfOthers DEF DeleteProduct, Enter, Stay, Refuse, Runs
  <1>3. DeleteWatch(r) => NoNewWriter("createWatch") /\ NoNewWriter("updateSetting")
    BY StepsOfOthers DEF DeleteWatch, Enter, Stay, Refuse, Runs
  <1>4. CreateChannel(r) => NoNewWriter("createWatch") /\ NoNewWriter("updateSetting")
    BY StepsOfOthers DEF CreateChannel, Enter, Runs
  <1>5. VerifyChannel(r) => NoNewWriter("createWatch") /\ NoNewWriter("updateSetting")
    BY StepsOfOthers DEF VerifyChannel, Enter, Stay, Refuse, Runs
  <1>6. DeleteChannel(r) => NoNewWriter("createWatch") /\ NoNewWriter("updateSetting")
    BY StepsOfOthers DEF DeleteChannel, Enter, Stay, Refuse, Runs
  <1>7. AuthRequest(r) => NoNewWriter("createWatch") /\ NoNewWriter("updateSetting")
    <2>1. RequestOtp(r) => NoNewWriter("createWatch") /\ NoNewWriter("updateSetting")
      BY StepsOfOthers DEF RequestOtp, Runs
    <2>2. VerifyOtp(r) => NoNewWriter("createWatch") /\ NoNewWriter("updateSetting")
      BY StepsOfOthers DEF VerifyOtp, Runs
    <2> QED BY <2>1, <2>2 DEF AuthRequest
  <1>8. CreateWatch(r) => NoNewWriter("updateSetting")
    BY StepsOfOthers DEF CreateWatch, Enter, Stay, Refuse, Runs
  <1>9. UpdateSetting(r) => NoNewWriter("createWatch")
    BY StepsOfOthers DEF UpdateSetting, Enter, Refuse, Runs
  <1> QED BY <1>1, <1>2, <1>3, <1>4, <1>5, <1>6, <1>7, <1>8, <1>9

------------------------------------------------------------------------------
(* The rows of a setting: those there are, and those that requests which   *)
(* found none are about to insert.                                         *)
Inserters == {r \in Requests : Runs(r, "updateSetting", "commit") /\ Inserts(r)}
RowsToCome == Len(settings) + Cardinality(Inserters) <= Cardinality(Requests)

LEMMA RowsToComeKept ==
    ASSUME Consistent, RowsToCome, UNCHANGED settings, NoNewWriter("updateSetting")
    PROVE  RowsToCome'
  <1>1. Inserters \in SUBSET Requests /\ Inserters' \in SUBSET Inserters
    BY DEF Inserters, NoNewWriter, Inserts
  <1>2. IsFiniteSet(Inserters) /\ Cardinality(Inserters) \in Nat
    BY <1>1, Finite
  <1>3. Cardinality(Inserters') <= Cardinality(Inserters) /\ Cardinality(Inserters') \in Nat
    BY <1>1, <1>2, FS_Subset, FS_CardinalityType
  <1>4. Len(settings) \in Nat
    BY DEF Consistent, Rows
  <1> QED BY <1>2, <1>3, <1>4, Finite DEF RowsToCome

LEMMA UpdateSettingCounts ==
    ASSUME Asked, Consistent, RowsToCome, NEW r \in Requests, UpdateSetting(r)
    PROVE  RowsToCome'
  <1>0. /\ pc \in [Requests -> Steps] /\ seen \in [Requests -> Nat]
        /\ call = [q \in Requests |-> call[q]] /\ settings \in Seq(Values)
    BY DEF Asked, Consistent, Rows
  <1>1. ASSUME NEW v \in Values, Enter(r, "updateSetting", "none", "none", v, "act")
        PROVE  RowsToCome'
    <2>1. NoNewWriter("updateSetting")
      BY <1>0, <1>1 DEF Enter, Receive, NoNewWriter, Runs
    <2> QED BY <1>1, <2>1, RowsToComeKept DEF Enter, tables
  <1>2. ASSUME Refuse(r) PROVE RowsToCome'
    <2>1. NoNewWriter("updateSetting")
      BY <1>0, <1>2 DEF Refuse, Over, NoNewWriter, Runs
    <2> QED BY <1>2, <2>1, RowsToComeKept DEF Refuse, tables
  <1>3. ASSUME Remember(r, Len(settings), "commit"), UNCHANGED tables PROVE RowsToCome'
    <2>1. CASE settings = <<>>
      <3>1. Len(settings') = 0 /\ Inserters' \in SUBSET Requests
        BY <1>3, <2>1 DEF tables, Inserters
      <3>2. Cardinality(Inserters') \in Nat /\ Cardinality(Inserters') <= Cardinality(Requests)
        BY <3>1, Finite
      <3> QED BY <3>1, <3>2, Finite DEF RowsToCome
    <2>2. CASE settings # <<>>
      <3>1. Len(settings) # 0
        BY <1>0, <2>2
      <3>2. Inserters' \in SUBSET Inserters
        BY <1>0, <1>3, <3>1 DEF Remember, Inserters, Inserts, Runs
      <3>3. Inserters \in SUBSET Requests
        BY DEF Inserters
      <3>4. IsFiniteSet(Inserters) /\ Cardinality(Inserters) \in Nat
        BY <3>3, Finite
      <3>5. Cardinality(Inserters') <= Cardinality(Inserters) /\ Cardinality(Inserters') \in Nat
        BY <3>2, <3>4, FS_Subset, FS_CardinalityType
      <3>6. Len(settings') = Len(settings) /\ Len(settings) \in Nat
        BY <1>0, <1>3 DEF tables
      <3> QED BY <3>4, <3>5, <3>6, Finite DEF RowsToCome
    <2> QED BY <2>1, <2>2
  <1>4. ASSUME Runs(r, "updateSetting", "commit"), Over(r),
               settings' = IF Inserts(r) THEN Append(settings, call[r].value)
                                         ELSE [settings EXCEPT ![1] = call[r].value]
        PROVE  RowsToCome'
    <2>1. call[r].value \in Values
      BY <1>4 DEF Asked, Names, Runs
    <2>2. Inserters' = Inserters \ {r} /\ Inserters \in SUBSET Requests
      BY <1>0, <1>4 DEF Over, Inserters, Inserts, Runs
    <2>3. /\ Cardinality(Inserters') \in Nat /\ Cardinality(Inserters) \in Nat
          /\ Inserters' \in SUBSET Inserters /\ IsFiniteSet(Inserters)
      BY <2>2, Finite
    <2>4. CASE Inserts(r)
      <3>1. Len(settings') = Len(settings) + 1 /\ Len(settings) \in Nat
        BY <1>0, <1>4, <2>1, <2>4
      <3>2. Cardinality(Inserters') + 1 = Cardinality(Inserters)
        BY <1>4, <2>2, <2>4, OneLess DEF Inserters
      <3> QED BY <2>3, <3>1, <3>2, Finite DEF RowsToCome
    <2>5. CASE ~ Inserts(r)
      <3>1. Len(settings') = Len(settings) /\ Len(settings) \in Nat
        BY <1>0, <1>4, <2>1, <2>5, Replaced
      <3>2. Cardinality(Inserters') <= Cardinality(Inserters)
        BY <2>3, FS_Subset
      <3> QED BY <2>3, <3>1, <3>2, Finite DEF RowsToCome
    <2> QED BY <2>4, <2>5
  <1> QED BY <1>1, <1>2, <1>3, <1>4 DEF UpdateSetting

LEMMA RowsToComeStep ==
    ASSUME Asked, Consistent, RowsToCome, [Next]_vars
    PROVE  RowsToCome'
  <1>1. ASSUME NEW r \in Requests, TableRequest(r) PROVE RowsToCome'
    <2>1. CASE UpdateSetting(r)
      BY <2>1, UpdateSettingCounts
    <2>2. CASE ~ UpdateSetting(r)
      <3>1. NoNewWriter("updateSetting")
        BY <1>1, <2>2, OnlyWritersWrite DEF TableRequest
      <3>2. UNCHANGED settings
        <4>1. CASE CreateProduct(r) \/ DeleteProduct(r)
          BY <4>1 DEF CreateProduct, DeleteProduct, Enter, Stay, Refuse, tables
        <4>2. CASE CreateWatch(r) \/ DeleteWatch(r)
          BY <4>2 DEF CreateWatch, DeleteWatch, Enter, Stay, Refuse, TargetAndWatch, tables
        <4>3. CASE CreateChannel(r) \/ VerifyChannel(r) \/ DeleteChannel(r)
          BY <4>3 DEF CreateChannel, VerifyChannel, DeleteChannel, Enter, Stay, Refuse, SetChannel,
                 AddChannel, tables
        <4> QED BY <1>1, <2>2, <4>1, <4>2, <4>3 DEF TableRequest
      <3> QED BY <3>1, <3>2, RowsToComeKept
    <2> QED BY <2>1, <2>2
  <1>2. ASSUME NEW r \in Requests, Otp(r) PROVE RowsToCome'
    BY <1>2, OnlyWritersWrite, RowsToComeKept DEF Otp, tables
  <1>3. ASSUME UNCHANGED <<tables, pc, call, seen>> PROVE RowsToCome'
    <2>1. NoNewWriter("updateSetting") /\ UNCHANGED settings
      BY <1>3 DEF NoNewWriter, Runs, tables
    <2> QED BY <2>1, RowsToComeKept
  <1>4. CASE TimePasses /\ UNCHANGED <<tables, group, locked, logged>>
    BY <1>3, <1>4 DEF TimePasses
  <1>5. CASE MonitorMarks \/ MonitorStops \/ WorkerLogs \/ UNCHANGED vars
    BY <1>3, <1>5 DEF MonitorMarks, MonitorStops, WorkerLogs, vars
  <1> QED BY <1>1, <1>2, <1>4, <1>5 DEF Next

(* Any number of requests write one setting for the first time, at once or *)
(* one after the other: each that inserts a row had found none, so there   *)
(* are never more rows than requests that can run at once.                 *)
THEOREM SettingRowsStayFew == Spec => []SettingRowsAreFew
  <1> DEFINE Inv == Asked /\ Consistent /\ Codes /\ RowsToCome
  <1>1. Init => Inv
    <2> SUFFICES ASSUME Init PROVE RowsToCome
      BY ApiInit
    <2>1. Inserters = {} /\ Len(settings) = 0
      BY DEF Init, InitRequests, Inserters, Runs
    <2> QED BY <2>1, FS_EmptySet, Finite DEF RowsToCome
  <1>2. Inv /\ [Next]_vars => Inv'
    BY ApiStep, RowsToComeStep
  <1>3. Inv => SettingRowsAreFew
    <2> SUFFICES ASSUME Inv PROVE SettingRowsAreFew
      OBVIOUS
    <2>1. Inserters \in SUBSET Requests /\ Len(settings) \in Nat
      BY DEF Inserters, Consistent, Rows
    <2>2. Cardinality(Inserters) \in Nat
      BY <2>1, Finite
    <2> QED BY <2>1, <2>2, Finite DEF RowsToCome, SettingRowsAreFew
  <1> QED BY <1>1, <1>2, <1>3, PTL DEF Spec

------------------------------------------------------------------------------
(* The interval of the target: what the first watch asked for is a bound   *)
(* of every interval the target has, and so of whatever a request read.    *)
BoundByTheFirst(interval) == \A w \in watches : w.id = 1 => interval <= w.interval

FirstAsked ==
    /\ IsFiniteSet(watches) /\ (watches # {} => targets # <<>>)
    /\ \A w \in watches : w.interval \in Intervals
    /\ NeverSlowerThanTheFirstWatch
    /\ \A r \in Requests :
          Runs(r, "createWatch", "commit") /\ seen[r] # 0 => targets # <<>> /\ BoundByTheFirst(seen[r])

LEMMA FirstAskedKept ==
    ASSUME FirstAsked, UNCHANGED <<targets, watches>>, NoNewWriter("createWatch")
    PROVE  FirstAsked'
  BY DEF FirstAsked, NeverSlowerThanTheFirstWatch, BoundByTheFirst, NoNewWriter

LEMMA DeleteWatchKeepsFirst ==
    ASSUME Asked, Consistent, FirstAsked, NEW r \in Requests, DeleteWatch(r)
    PROVE  FirstAsked'
  <1>0. NoNewWriter("createWatch")
    BY OnlyWritersWrite
  <1>1. CASE UNCHANGED tables
    BY <1>0, <1>1, FirstAskedKept DEF tables
  <1>2. ASSUME watches' = Deactivated(call[r].row), UNCHANGED targets PROVE FirstAsked'
    <2> DEFINE off(w) == [w EXCEPT !.active = @ /\ w.id # call[r].row]
    <2>1. watches' = {off(w) : w \in watches}
      BY <1>2 DEF Deactivated
    <2>2. \A w \in watches : off(w).id = w.id /\ off(w).interval = w.interval
      BY DEF Consistent, Rows, Watch
    <2> HIDE DEF off
    <2>3. IsFiniteSet(watches')
      <3> DEFINE f == [w \in watches |-> off(w)]
      <3>1. f \in Surjection(watches, watches')
        BY <2>1 DEF Surjection
      <3> QED BY <3>1, FS_Surjection DEF FirstAsked
    <2>4. watches' # {} => watches # {}
      BY <2>1
    <2>5. \A w \in watches' : \E v \in watches : w.id = v.id /\ w.interval = v.interval
      BY <2>1, <2>2
    <2>6. \A w \in watches' : w.interval \in Intervals
      BY <2>5 DEF FirstAsked
    <2>7. NeverSlowerThanTheFirstWatch'
      BY <1>2, <2>5 DEF FirstAsked, NeverSlowerThanTheFirstWatch
    <2>8. ASSUME NEW q \in Requests, Runs(q, "createWatch", "commit")', seen'[q] # 0
          PROVE  targets' # <<>> /\ BoundByTheFirst(seen[q])'
      <3>1. Runs(q, "createWatch", "commit") /\ seen'[q] = seen[q]
        BY <1>0, <2>8 DEF NoNewWriter
      <3>2. targets # <<>> /\ BoundByTheFirst(seen[q])
        BY <2>8, <3>1 DEF FirstAsked
      <3> QED BY <1>2, <2>5, <3>1, <3>2 DEF BoundByTheFirst
    <2>9. watches' # {} => targets' # <<>>
      BY <1>2, <2>4 DEF FirstAsked
    <2> QED BY <2>3, <2>6, <2>7, <2>8, <2>9 DEF FirstAsked
  <1> QED BY <1>1, <1>2 DEF DeleteWatch, Enter, Stay, Refuse

\* A watch that is not the first one has another number, and its target is there.
LEMMA NewWatchIsNumbered ==
    ASSUME FirstAsked, NEW r \in Requests
    PROVE  NewWatch(r).id = 1 => watches = {}
  <1>1. Cardinality(watches) \in Nat /\ (Cardinality(watches) = 0 <=> watches = {})
    BY FS_CardinalityType, FS_EmptySet DEF FirstAsked
  <1> QED BY <1>1 DEF NewWatch, Watch

LEMMA TargetAndWatchKeepsFirst ==
    ASSUME Asked, Consistent, FirstAsked, NEW r \in Requests, Runs(r, "createWatch", "commit"),
           TargetAndWatch(r), Over(r)
    PROVE  FirstAsked'
  <1>1. /\ pc \in [Requests -> Steps] /\ seen \in [Requests -> Nat]
        /\ call = [q \in Requests |-> call[q]]
        /\ call[r].value \in Intervals /\ call[r].value \in Nat
    BY ApiAssumption DEF Asked, Names, Runs, ApiAssumption
  <1>2. NoNewWriter("createWatch")
    BY <1>1 DEF Over, NoNewWriter, Runs
  <1>3. CASE UNCHANGED tables
    BY <1>2, <1>3, FirstAskedKept DEF tables
  <1>4. CASE /\ UniqueTarget(r) /\ targets' = TargetAfter(r)
             /\ watches' = watches \union {NewWatch(r)}
    <2>1. targets \in Seq(Intervals) /\ targets[1] = targets[1] /\ Len(targets) \in Nat
      BY DEF Consistent, Rows
    <2>2. NewWatch(r).interval = call[r].value
      BY DEF NewWatch, Watch
    <2>3. targets' # <<>> /\ BoundByTheFirst(targets[1])'
      <3>1. CASE seen[r] = 0
        <4>1. targets = <<>> /\ targets' = <<call[r].value>>
          BY <1>4, <3>1 DEF UniqueTarget, TargetAfter
        <4>2. watches' = {NewWatch(r)}
          BY <1>4, <4>1 DEF FirstAsked
        <4> QED BY <1>1, <2>2, <4>1, <4>2 DEF BoundByTheFirst
      <3>2. CASE seen[r] # 0
        <4>1. targets # <<>> /\ BoundByTheFirst(seen[r])
          BY <3>2 DEF FirstAsked
        <4>2. watches # {}
          <5>1. Len(targets) # 0
            BY <2>1, <4>1
          <5> QED BY <2>1, <5>1 DEF Consistent, IntervalWasAsked
        <4>3. NewWatch(r).id # 1
          BY <4>2, NewWatchIsNumbered
        <4>4. CASE Lowers(r)
          <5>1. targets' = [targets EXCEPT ![1] = call[r].value]
            BY <1>4, <3>2, <4>4 DEF TargetAfter
          <5>2. Len(targets) # 0
            BY <2>1, <4>1
          <5>3. targets' # <<>> /\ targets'[1] = call[r].value
            BY <1>1, <2>1, <5>1, <5>2, Replaced
          <5>4. call[r].value <= seen[r] /\ seen[r] \in Nat
            BY <1>1, <4>4 DEF Lowers
          <5>5. \A w \in watches : w.interval \in Nat
            BY ApiAssumption DEF FirstAsked, ApiAssumption
          <5> QED BY <1>1, <1>4, <4>1, <4>3, <5>3, <5>4, <5>5 DEF BoundByTheFirst
        <4>5. CASE ~ Lowers(r)
          <5>1. targets' = targets
            BY <1>4, <3>2, <4>5 DEF TargetAfter
          <5> QED BY <1>4, <4>1, <4>3, <5>1 DEF FirstAsked, NeverSlowerThanTheFirstWatch, BoundByTheFirst
        <4> QED BY <4>4, <4>5
      <3> QED BY <3>1, <3>2
    <2>4. ASSUME NEW q \in Requests, Runs(q, "createWatch", "commit")', seen'[q] # 0
          PROVE  BoundByTheFirst(seen[q])'
      <3>1. Runs(q, "createWatch", "commit") /\ seen'[q] = seen[q]
        BY <1>2, <2>4 DEF NoNewWriter
      <3>2. targets # <<>> /\ BoundByTheFirst(seen[q])
        BY <2>4, <3>1 DEF FirstAsked
      <3>3. watches # {}
        <4>1. Len(targets) # 0
          BY <2>1, <3>2
        <4> QED BY <2>1, <4>1 DEF Consistent, IntervalWasAsked
      <3>4. NewWatch(r).id # 1
        BY <3>3, NewWatchIsNumbered
      <3> QED BY <1>4, <3>1, <3>2, <3>4 DEF BoundByTheFirst
    <2>5. IsFiniteSet(watches')
      BY <1>4, FS_AddElement DEF FirstAsked
    <2>6. \A w \in watches' : w.interval \in Intervals
      BY <1>1, <1>4, <2>2 DEF FirstAsked
    <2>7. NeverSlowerThanTheFirstWatch'
      BY <2>3 DEF NeverSlowerThanTheFirstWatch, BoundByTheFirst
    <2> QED BY <2>3, <2>4, <2>5, <2>6, <2>7 DEF FirstAsked
  <1> QED BY <1>3, <1>4 DEF TargetAndWatch

LEMMA CreateWatchKeepsFirst ==
    ASSUME Asked, Consistent, FirstAsked, NEW r \in Requests, CreateWatch(r)
    PROVE  FirstAsked'
  <1>0. /\ pc \in [Requests -> Steps] /\ seen \in [Requests -> Nat]
        /\ call = [q \in Requests |-> call[q]]
    BY DEF Asked
  <1>1. ASSUME NEW p \in Products, NEW u \in Users, NEW i \in Intervals,
               Enter(r, "createWatch", u, p, i, "check")
        PROVE  FirstAsked'
    <2>1. NoNewWriter("createWatch")
      BY <1>0, <1>1 DEF Enter, Receive, NoNewWriter, Runs
    <2> QED BY <1>1, <2>1, FirstAskedKept DEF Enter, tables
  <1>2. ASSUME Stay(r, "act") \/ Refuse(r) PROVE FirstAsked'
    <2>1. NoNewWriter("createWatch")
      BY <1>0, <1>2 DEF Stay, Refuse, GoOn, Over, NoNewWriter, Runs
    <2> QED BY <1>2, <2>1, FirstAskedKept DEF Stay, Refuse, tables
  <1>3. ASSUME Remember(r, TargetInterval, "commit"), UNCHANGED tables PROVE FirstAsked'
    <2>1. targets' = targets /\ watches' = watches
      BY <1>3 DEF tables
    <2>2. TargetInterval # 0 => targets # <<>> /\ BoundByTheFirst(TargetInterval)
      BY DEF TargetInterval, FirstAsked, NeverSlowerThanTheFirstWatch, BoundByTheFirst
    <2>3. ASSUME NEW q \in Requests, Runs(q, "createWatch", "commit")', seen'[q] # 0
          PROVE  targets # <<>> /\ BoundByTheFirst(seen'[q])
      <3>1. CASE q = r
        BY <1>0, <1>3, <2>2, <2>3, <3>1 DEF Remember
      <3>2. CASE q # r
        <4>1. seen'[q] = seen[q] /\ Runs(q, "createWatch", "commit")
          BY <1>0, <1>3, <2>3, <3>2 DEF Remember, Runs
        <4> QED BY <2>3, <4>1 DEF FirstAsked
      <3> QED BY <3>1, <3>2
    <2> QED BY <2>1, <2>3 DEF FirstAsked, NeverSlowerThanTheFirstWatch, BoundByTheFirst
  <1>4. CASE Runs(r, "createWatch", "commit") /\ TargetAndWatch(r) /\ Over(r)
    BY <1>4, TargetAndWatchKeepsFirst
  <1> QED BY <1>1, <1>2, <1>3, <1>4 DEF CreateWatch

LEMMA FirstAskedStep ==
    ASSUME Asked, Consistent, FirstAsked, [Next]_vars
    PROVE  FirstAsked'
  <1>1. ASSUME NEW r \in Requests, TableRequest(r) PROVE FirstAsked'
    <2>1. CASE CreateWatch(r) \/ DeleteWatch(r)
      BY <2>1, CreateWatchKeepsFirst, DeleteWatchKeepsFirst
    <2>2. CASE CreateProduct(r) \/ DeleteProduct(r)
      BY <2>2, OnlyWritersWrite, FirstAskedKept
         DEF CreateProduct, DeleteProduct, Enter, Stay, Refuse, tables
    <2>3. CASE CreateChannel(r) \/ VerifyChannel(r) \/ DeleteChannel(r)
      BY <2>3, OnlyWritersWrite, FirstAskedKept
         DEF CreateChannel, VerifyChannel, DeleteChannel, Enter, Stay, Refuse, SetChannel,
             AddChannel, tables
    <2>4. CASE UpdateSetting(r)
      BY <2>4, OnlyWritersWrite, FirstAskedKept DEF UpdateSetting, Enter, Refuse, tables
    <2> QED BY <1>1, <2>1, <2>2, <2>3, <2>4 DEF TableRequest
  <1>2. ASSUME NEW r \in Requests, Otp(r) PROVE FirstAsked'
    BY <1>2, OnlyWritersWrite, FirstAskedKept DEF Otp, tables
  <1>3. ASSUME UNCHANGED <<tables, pc, call, seen>> PROVE FirstAsked'
    <2>1. NoNewWriter("createWatch") /\ UNCHANGED <<targets, watches>>
      BY <1>3 DEF NoNewWriter, Runs, tables
    <2> QED BY <2>1, FirstAskedKept
  <1>4. CASE TimePasses /\ UNCHANGED <<tables, group, locked, logged>>
    BY <1>3, <1>4 DEF TimePasses
  <1>5. CASE MonitorMarks \/ MonitorStops \/ WorkerLogs \/ UNCHANGED vars
    BY <1>3, <1>5 DEF MonitorMarks, MonitorStops, WorkerLogs, vars
  <1> QED BY <1>1, <1>2, <1>4, <1>5 DEF Next

(* However many requests overwrite each other's interval, the target is    *)
(* never checked less often than its first watch had asked for.            *)
THEOREM FirstWatchIsABound == Spec => []NeverSlowerThanTheFirstWatch
  <1> DEFINE Inv == Asked /\ Consistent /\ Codes /\ FirstAsked
  <1>1. Init => Inv
    BY ApiInit, FS_EmptySet
       DEF Init, InitRequests, FirstAsked, NeverSlowerThanTheFirstWatch, Runs
  <1>2. Inv /\ [Next]_vars => Inv'
    BY ApiStep, FirstAskedStep
  <1>3. Inv => NeverSlowerThanTheFirstWatch
    BY DEF FirstAsked
  <1> QED BY <1>1, <1>2, <1>3, PTL DEF Spec
==============================================================================
