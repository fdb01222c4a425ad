-------------------------------- MODULE Api --------------------------------
(***************************************************************************)
(* The requests that change a user's rows: products, watches and the watch *)
(* targets they share, notification channels, settings.  A request reads   *)
(* through its own session, awaits, and commits when its handler did not   *)
(* raise; PostgreSQL runs it at READ COMMITTED, so other requests commit   *)
(* between its reads and its commit.  Constraints are decided in the order *)
(* of the commits: a write that meets a running one waits for its end.     *)
(* All watches here are of one retailer, place and keyword: one target.    *)
(***************************************************************************)
EXTENDS Auth

CONSTANTS
    Users, Products, Channels,
    Owner,       \* who creates which product and channel
    Intervals,   \* intervals a watch may ask for
    Values,      \* values of a setting
    MaxWatches   \* bound: watches ever created

ASSUME ApiAssumption ==
    /\ Owner \in [Products \union Channels -> Users]
    /\ Intervals \subseteq Nat \ {0}
    /\ MaxWatches \in Nat

VARIABLES
    group,      \* bound: which tables the requests of this behaviour are about; no row of
                \* one group refers to another
    products,   \* a product that is "gone" is never created again: ids are not reused
    watches,    \* rows; a deleted watch stays as an inactive row
    targets,    \* the intervals of the rows of the one target
    locked,     \* the monitor's open transaction has updated the target's last_checked_at
    channels,
    logged,     \* channels some notification log row refers to
    settings    \* the values of the rows of one user's one key

tables == <<products, watches, targets, channels, settings>>
outside == <<group, locked, logged, authVars>>
vars == <<tables, outside, pc, call, seen>>

Watch(id, user, product, interval, active) ==
    [id |-> id, user |-> user, product |-> product, interval |-> interval, active |-> active]

Ops == {"createProduct", "deleteProduct", "createWatch", "deleteWatch",
        "createChannel", "verifyChannel", "deleteChannel", "updateSetting",
        "requestOtp", "verifyOtp"}

TypeOK ==
    /\ AuthTypeOK
    /\ group \in {"watches", "channels", "settings", "otp"}
    /\ products \in [Products -> {"new", "here", "gone"}]
    /\ \A w \in watches : w = Watch(w.id, w.user, w.product, w.interval, w.active)
                       /\ w.id \in 1 .. MaxWatches /\ w.product \in Products
    /\ \A w, v \in watches : w.id = v.id => w = v
    /\ targets \in Seq(Intervals) /\ Len(targets) <= 1 /\ locked \in BOOLEAN   \* uq_watch_target
    /\ channels \in [Channels -> {"new", "here", "verified", "gone"}]
    /\ logged \subseteq Channels
    /\ settings \in Seq(Values)
    /\ pc \in [Requests -> Steps]
    /\ \A r \in Requests : call[r].op \in Ops \union {"none"}
    /\ seen \in [Requests -> {0, 1} \union Intervals \union 1 .. stamp]

Init ==
    /\ InitRequests /\ InitAuth
    /\ group \in {"watches", "channels", "settings", "otp"}
    /\ products = [p \in Products |-> "new"] /\ watches = {}
    /\ targets = <<>> /\ locked = FALSE
    /\ channels = [c \in Channels |-> "new"] /\ logged = {}
    /\ settings = <<>>

------------------------------------------------------------------------------
(* A request that is over without a commit changed nothing: it was         *)
(* answered 404 or 409, or it raised.                                      *)

Refuse(r) == Over(r) /\ UNCHANGED tables
Stay(r, step) == GoOn(r, step) /\ UNCHANGED tables
Enter(r, op, user, row, value, step) == Receive(r, op, user, row, value, step) /\ UNCHANGED tables

------------------------------------------------------------------------------
(* Products                                                                *)

ProductExists(r) == products[call[r].row] = "here"
OwnsProduct(r) == ProductExists(r) /\ Owner[call[r].row] = call[r].user

ActiveWatchesOf(p) == {w \in watches : w.product = p /\ w.active}
Unreferenced(p) == \A w \in watches : w.product # p

Created(p) == [products EXCEPT ![p] = "here"]

\* A product some watch refers to stays: the foreign key refuses the commit.
Removed(p) ==
    IF Unreferenced(p) THEN [products EXCEPT ![p] = "gone"] ELSE products

CreateProduct(r) ==
    \/ \E p \in Products :
          /\ group = "watches" /\ products[p] = "new"
          /\ \A q \in Requests : ~ (call[q].op = "createProduct" /\ call[q].row = p)
          /\ Enter(r, "createProduct", Owner[p], p, 0, "commit")
    \/ /\ Runs(r, "createProduct", "commit")
       /\ products' = Created(call[r].row)
       /\ Over(r) /\ UNCHANGED <<watches, targets, channels, settings>>

\* A product that is gone when the delete reaches it makes it delete nothing.
DeleteProduct(r) ==
    \/ \E p \in Products, u \in Users :
          group = "watches" /\ products[p] # "new" /\ Enter(r, "deleteProduct", u, p, 0, "check")
    \/ Runs(r, "deleteProduct", "check") /\ OwnsProduct(r) /\ Stay(r, "act")
    \/ Runs(r, "deleteProduct", "check") /\ ~ OwnsProduct(r) /\ Refuse(r)
    \/ Runs(r, "deleteProduct", "act") /\ ActiveWatchesOf(call[r].row) = {} /\ Stay(r, "commit")
    \/ Runs(r, "deleteProduct", "act") /\ ActiveWatchesOf(call[r].row) # {} /\ Refuse(r)
    \/ /\ Runs(r, "deleteProduct", "commit")
       /\ products' = Removed(call[r].row)
       /\ Over(r) /\ UNCHANGED <<watches, targets, channels, settings>>

------------------------------------------------------------------------------
(* Watches and their target                                                *)

TargetInterval == IF targets = <<>> THEN 0 ELSE targets[1]

LowersAlways(r) == seen[r] # 0
Lowers(r) == seen[r] # 0 /\ call[r].value < seen[r]

UniqueTarget(r) == seen[r] = 0 => targets = <<>>

TargetAfter(r) ==
    IF seen[r] = 0 THEN Append(targets, call[r].value)
    ELSE IF Lowers(r) THEN [targets EXCEPT ![1] = call[r].value]
    ELSE targets

NumberedByActive(r) ==
    Watch(Cardinality({w \in watches : w.active}) + 1, call[r].user, call[r].row, call[r].value, TRUE)
NewWatch(r) == Watch(Cardinality(watches) + 1, call[r].user, call[r].row, call[r].value, TRUE)

\* get_or_create and the watch are one transaction: both rows are written or neither.
TargetThenWatch(r) ==
    /\ targets' = IF UniqueTarget(r) THEN TargetAfter(r) ELSE targets
    /\ watches' = IF UniqueTarget(r) /\ ProductExists(r) THEN watches \union {NewWatch(r)} ELSE watches
    /\ UNCHANGED <<products, channels, settings>>
TargetAndWatch(r) ==
    IF UniqueTarget(r) /\ ProductExists(r)
    THEN /\ targets' = TargetAfter(r)
         /\ watches' = watches \union {NewWatch(r)}
         /\ UNCHANGED <<products, channels, settings>>
    ELSE UNCHANGED tables

Creating == Cardinality({r \in Requests : call[r].op = "createWatch"})

\* An update of the target's row waits while the monitor's transaction holds it.
CreateWatch(r) ==
    \/ \E p \in Products, u \in Users, i \in Intervals :
          /\ group = "watches" /\ products[p] # "new"
          /\ Cardinality(watches) + Creating < MaxWatches
          /\ Enter(r, "createWatch", u, p, i, "check")
    \/ Runs(r, "createWatch", "check") /\ OwnsProduct(r) /\ Stay(r, "act")
    \/ Runs(r, "createWatch", "check") /\ ~ OwnsProduct(r) /\ Refuse(r)
    \/ /\ Runs(r, "createWatch", "act")
       /\ Remember(r, TargetInterval, "commit") /\ UNCHANGED tables
    \/ /\ Runs(r, "createWatch", "commit") /\ ~ (locked /\ Lowers(r))
       /\ TargetAndWatch(r)
       /\ Over(r)

\* The row of the watch stays: watches are never removed.
Deactivated(id) == {[w EXCEPT !.active = @ /\ w.id # id] : w \in watches}

OwnsWatch(r) == \E w \in watches : w.id = call[r].row /\ w.user = call[r].user

DeleteWatch(r) ==
    \/ \E w \in watches, u \in Users : Enter(r, "deleteWatch", u, w.id, 0, "check")
    \/ /\ Runs(r, "deleteWatch", "check")
       /\ IF OwnsWatch(r) THEN Stay(r, "commit") ELSE Refuse(r)
    \/ /\ Runs(r, "deleteWatch", "commit")
       /\ watches' = Deactivated(call[r].row)
       /\ Over(r) /\ UNCHANGED <<products, targets, channels, settings>>

------------------------------------------------------------------------------
(* Notification channels                                                   *)

ChannelHere(r) == channels[call[r].row] \in {"here", "verified"}
OwnsChannel(r) == ChannelHere(r) /\ Owner[call[r].row] = call[r].user
SetChannel(r, state) ==
    /\ channels' = [channels EXCEPT ![call[r].row] = state]
    /\ UNCHANGED <<products, watches, targets, settings>>

Unlogged(c) == c \notin logged
AddChannel(r) == SetChannel(r, "here")

CreateChannel(r) ==
    \/ \E c \in Channels :
          /\ group = "channels" /\ channels[c] = "new"
          /\ \A q \in Requests : ~ (call[q].op = "createChannel" /\ call[q].row = c)
          /\ Enter(r, "createChannel", Owner[c], c, 0, "commit")
    \/ Runs(r, "createChannel", "commit") /\ AddChannel(r) /\ Over(r)

\* mark_verified raises when the channel is gone by then.
VerifyChannel(r) ==
    \/ \E c \in Channels, u \in Users :
          group = "channels" /\ channels[c] # "new" /\ Enter(r, "verifyChannel", u, c, 0, "check")
    \/ /\ Runs(r, "verifyChannel", "check")
       /\ IF OwnsChannel(r) THEN Stay(r, "act") ELSE Refuse(r)
    \/ /\ Runs(r, "verifyChannel", "act")
       /\ IF ChannelHere(r) THEN Stay(r, "commit") ELSE Refuse(r)
    \/ /\ Runs(r, "verifyChannel", "commit") /\ Over(r)
       /\ IF ChannelHere(r) THEN SetChannel(r, "verified") ELSE UNCHANGED tables

DeleteChannel(r) ==
    \/ \E c \in Channels, u \in Users :
          group = "channels" /\ channels[c] # "new" /\ Enter(r, "deleteChannel", u, c, 0, "check")
    \/ /\ Runs(r, "deleteChannel", "check")
       /\ IF OwnsChannel(r) THEN Stay(r, "commit") ELSE Refuse(r)
    \/ /\ Runs(r, "deleteChannel", "commit") /\ Over(r)
       /\ IF Unlogged(call[r].row) THEN SetChannel(r, "gone") ELSE UNCHANGED tables

------------------------------------------------------------------------------
(* Settings: one row per user and key is intended, no constraint says so   *)

InsertsAlways(r) == TRUE
OneRowOrNone == Len(settings) <= 1
Inserts(r) == seen[r] = 0

UpdateSetting(r) ==
    \/ \E v \in Values : group = "settings" /\ Enter(r, "updateSetting", "none", "none", v, "act")
    \/ Runs(r, "updateSetting", "act") /\ ~ OneRowOrNone /\ Refuse(r)
    \/ /\ Runs(r, "updateSetting", "act") /\ OneRowOrNone
       /\ Remember(r, Len(settings), "commit") /\ UNCHANGED tables
    \/ /\ Runs(r, "updateSetting", "commit") /\ Over(r)
       /\ settings' = IF Inserts(r) THEN Append(settings, call[r].value)
                                    ELSE [settings EXCEPT ![1] = call[r].value]
       /\ UNCHANGED <<products, watches, targets, channels>>

------------------------------------------------------------------------------
(* The other processes: the monitor marks a target and never commits, so   *)
(* it holds the row until it stops; the worker logs what it sent.          *)

MonitorMarks ==
    /\ group = "watches" /\ targets # <<>> /\ locked' = TRUE
    /\ UNCHANGED <<group, logged, tables, authVars, pc, call, seen>>

MonitorStops ==
    /\ locked /\ locked' = FALSE
    /\ UNCHANGED <<group, logged, tables, authVars, pc, call, seen>>

WorkerLogs ==
    /\ \E c \in Channels : channels[c] \in {"here", "verified"} /\ logged' = logged \union {c}
    /\ UNCHANGED <<group, locked, tables, authVars, pc, call, seen>>

TableRequest(r) ==
    /\ \/ CreateProduct(r) \/ DeleteProduct(r) \/ CreateWatch(r) \/ DeleteWatch(r)
       \/ CreateChannel(r) \/ VerifyChannel(r) \/ DeleteChannel(r) \/ UpdateSetting(r)
    /\ UNCHANGED outside

Otp(r) == group = "otp" /\ AuthRequest(r) /\ UNCHANGED <<tables, group, locked, logged>>

Next ==
    \/ \E r \in Requests : TableRequest(r) \/ Otp(r)
    \/ TimePasses /\ UNCHANGED <<tables, group, locked, logged>>
    \/ MonitorMarks \/ MonitorStops \/ WorkerLogs

Spec == Init /\ [][Next]_vars

\* A request that came in is carried on; nobody has to send one, the monitor need not stop.
FairSpec == Spec /\ \A r \in Requests : WF_vars(pc[r] # "idle" /\ (TableRequest(r) \/ Otp(r)))

------------------------------------------------------------------------------
(* A target is never checked at an interval nobody asked for: in any order *)
(* of requests, failed ones included, its interval is that of a watch      *)
(* (perhaps an inactive one, since nothing raises it again).               *)
IntervalWasAsked == \A i \in 1 .. Len(targets) : \E w \in watches : w.interval = targets[i]

(* Requests that read the interval before another one lowered it may write *)
(* a longer one over it, and do.  The damage is bounded: whoever read what *)
(* and commits when, the interval is never longer than what the watch that *)
(* created the target had asked for.                                       *)
NeverSlowerThanTheFirstWatch ==
    \A w \in watches : w.id = 1 /\ targets # <<>> => targets[1] <= w.interval

(* Writes of a setting that none of them has found yet each insert a row:  *)
(* there are never more rows than requests that ran at once, so without    *)
(* concurrent first writes there is one.  (A setting with two rows cannot  *)
(* be written any more: reading them raises.)                              *)
SettingRowsAreFew == Len(settings) <= Cardinality(Requests)

(* A request ends, unless it lowers the interval of a target the monitor   *)
(* has marked: it then waits for the monitor to stop.  Creating a watch    *)
(* that needs no shorter interval never waits for the monitor.             *)
EndsOrWaitsForTheMonitor ==
    \A r \in Requests :
        pc[r] # "idle" ~> \/ pc[r] = "idle"
                          \/ locked /\ pc[r] = "commit" /\ call[r].value < seen[r]
==============================================================================
