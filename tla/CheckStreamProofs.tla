------------------------- MODULE CheckStreamProofs -------------------------
(***************************************************************************)
(* Theorems about CheckStream, for any sets of prices, variants, delivery  *)
(* times and stores, and any number of checks, and about the charts and    *)
(* the summary that module AnalyticsStream reads from their rows.          *)
(***************************************************************************)
EXTENDS AnalyticsStream, FiniteSetTheorems, SequenceTheorems, WellFoundedInduction, TLAPS

(* An observation is known by its five fields.                             *)
LEMMA ObservationFields ==
    ASSUME NEW o \in Observations
    PROVE  /\ o # NoSnapshot
           /\ o.availability \in Availability
           /\ o.price \in Prices
           /\ o.variants \in SUBSET Variants
           /\ o.eta \in Etas
           /\ o.store \in Stores
  BY NoSnapshotAssumption DEF Observations, Observation

(* No event against a stored snapshot means that everything diffing.py     *)
(* compares is as stored: this is all that a check storing nothing hides.  *)
LEMMA QuietDiff ==
    ASSUME NEW previous \in Observations, NEW current \in Observations,
           DiffSnapshots(previous, current) = {}
    PROVE  /\ current.price = previous.price
           /\ current.eta = previous.eta
           /\ current.store = previous.store
           /\ current.variants \subseteq previous.variants
           /\ \/ current.availability = previous.availability
              \/ /\ previous.availability = "LOW_STOCK"
                 /\ current.availability = "AVAILABLE"
  <1>1. FieldEvents(previous, current) = {}
    BY ObservationFields DEF DiffSnapshots
  <1>2. AvailabilityEvents(previous, current) = {}
    BY DEF DiffSnapshots
  <1>3. /\ "PRICE_CHANGED" \notin FieldEvents(previous, current)
        /\ "NEW_VARIANT" \notin FieldEvents(previous, current)
        /\ "ETA_CHANGED" \notin FieldEvents(previous, current)
        /\ "STORE_CHANGED" \notin FieldEvents(previous, current)
    BY <1>1
  <1>4. /\ current.price = previous.price
        /\ current.eta = previous.eta
        /\ current.store = previous.store
        /\ current.variants \subseteq previous.variants
    BY <1>3 DEF FieldEvents
  <1>5. /\ "STOCK_AVAILABLE" \notin AvailabilityEvents(previous, current)
        /\ "OUT_OF_STOCK" \notin AvailabilityEvents(previous, current)
        /\ "LOW_STOCK" \notin AvailabilityEvents(previous, current)
    BY <1>2
  <1>6. \/ current.availability = previous.availability
        \/ /\ previous.availability = "LOW_STOCK"
           /\ current.availability = "AVAILABLE"
    BY <1>5, ObservationFields
    DEF AvailabilityEvents, PreviousAvailability, InStock, Availability
  <1> QED BY <1>4, <1>6

(* No event when nothing is stored yet means an out-of-stock scrape.       *)
LEMMA QuietFirstDiff ==
    ASSUME NEW current \in Observations,
           DiffSnapshots(NoSnapshot, current) = {}
    PROVE  ~InStock(current)
  <1>1. "STOCK_AVAILABLE" \notin AvailabilityEvents(NoSnapshot, current)
    BY DEF DiffSnapshots
  <1> QED BY <1>1 DEF AvailabilityEvents, PreviousAvailability

-----------------------------------------------------------------------------
(* The values stay in their sets: what is stored, seen and read is always  *)
(* a scraped observation, and the events fired are of the enum.            *)
THEOREM TypeCorrect == Spec => []TypeOK
<1>1. Init => TypeOK
  BY DEF Init, TypeOK
<1>2. TypeOK /\ [Next]_vars => TypeOK'
  <2> SUFFICES ASSUME TypeOK, [Next]_vars PROVE TypeOK'
    OBVIOUS
  <2>1. CASE CheckEmpty
    BY <2>1 DEF CheckEmpty, TypeOK
  <2>2. ASSUME NEW current \in Observations, Check(current) PROVE TypeOK'
    <3> DEFINE events == DiffSnapshots(stored, current)
    <3>1. events \in SUBSET EventTypes
      BY DEF DiffSnapshots, AvailabilityEvents, FieldEvents, EventTypes
    <3>2. /\ seen' = current
          /\ fired' = events
          /\ stored' = BaselineAfter(stored, current)
          /\ view' = ReadEvents(view, events, current)
          /\ bell' = bell \/ bell' \in StockAlerts
      BY <2>2 DEF Check
    <3>3. stored' \in Observations \cup {NoSnapshot}
      BY <3>2 DEF BaselineAfter, TypeOK
    <3>4. view' \in Observations \cup {NoSnapshot}
      <4>1. CASE events = {} \/ view = NoSnapshot
        BY <3>2, <4>1 DEF ReadEvents, TypeOK
      <4>2. CASE events # {} /\ view # NoSnapshot
        <5>1. view \in Observations
          BY <4>2 DEF TypeOK
        <5>2. view' = [availability |->
                         IF events \cap (StockAlerts \cup {"LOW_STOCK"}) # {}
                         THEN current.availability ELSE view.availability,
                       price |-> IF "PRICE_CHANGED" \in events
                                 THEN current.price ELSE view.price,
                       variants |-> IF "NEW_VARIANT" \in events
                                    THEN current.variants ELSE view.variants,
                       eta |-> IF "ETA_CHANGED" \in events
                               THEN current.eta ELSE view.eta,
                       store |-> IF "STORE_CHANGED" \in events
                                 THEN current.store ELSE view.store]
          BY <3>2, <4>2 DEF ReadEvents
        <5> HIDE DEF events
        <5> QED BY <5>1, <5>2, ObservationFields DEF Observations, Observation
      <4> QED BY <4>1, <4>2
    <3> QED BY <3>1, <3>2, <3>3, <3>4 DEF TypeOK, StockAlerts
  <2>3. CASE UNCHANGED vars
    BY <2>3 DEF vars, TypeOK
  <2> QED BY <2>1, <2>2, <2>3 DEF Next
<1> QED BY <1>1, <1>2, PTL DEF Spec

-----------------------------------------------------------------------------
(* The stored snapshot never drifts from the last scrape by more than a    *)
(* LOW_STOCK that recovered and variants that disappeared.  BaselineDrift  *)
(* is inductive once the types are known.                                  *)
THEOREM BaselineDriftIsBounded == Spec => []BaselineDrift
<1>1. Init => BaselineDrift
  BY DEF Init, BaselineDrift, SeenInStock
<1>2. TypeOK /\ BaselineDrift /\ [Next]_vars => BaselineDrift'
  <2> SUFFICES ASSUME TypeOK, BaselineDrift, [Next]_vars PROVE BaselineDrift'
    OBVIOUS
  <2>1. CASE CheckEmpty
    BY <2>1 DEF CheckEmpty, BaselineDrift, SeenInStock
  <2>2. ASSUME NEW current \in Observations, Check(current) PROVE BaselineDrift'
    <3>1. seen' = current /\ stored' = BaselineAfter(stored, current)
      BY <2>2 DEF Check
    <3>2. current # NoSnapshot
      BY ObservationFields
    <3>3. CASE DiffSnapshots(stored, current) # {}
      BY <3>1, <3>2, <3>3 DEF BaselineAfter, BaselineDrift
    <3>4. CASE DiffSnapshots(stored, current) = {} /\ stored = NoSnapshot
      <4>1. ~InStock(current)
        BY <3>4, QuietFirstDiff
      <4> QED BY <3>1, <3>4, <4>1 DEF BaselineAfter, BaselineDrift, SeenInStock
    <3>5. CASE DiffSnapshots(stored, current) = {} /\ stored # NoSnapshot
      <4>1. stored \in Observations
        BY <3>5 DEF TypeOK
      <4>2. stored' = stored
        BY <3>1, <3>5 DEF BaselineAfter
      <4>3. /\ current.price = stored.price
            /\ current.eta = stored.eta
            /\ current.store = stored.store
            /\ current.variants \subseteq stored.variants
            /\ \/ current.availability = stored.availability
               \/ /\ stored.availability = "LOW_STOCK"
                  /\ current.availability = "AVAILABLE"
        BY <3>5, <4>1, QuietDiff
      <4> QED BY <3>1, <3>2, <3>5, <4>2, <4>3 DEF BaselineDrift
    <3> QED BY <3>3, <3>4, <3>5
  <2>3. CASE UNCHANGED vars
    BY <2>3 DEF vars, BaselineDrift, SeenInStock
  <2> QED BY <2>1, <2>2, <2>3 DEF Next
<1> QED BY <1>1, <1>2, TypeCorrect, PTL DEF Spec

-----------------------------------------------------------------------------
(* What the reader of the events knows, against the stored snapshot: this  *)
(* is the strengthening of ReaderIsRight that a check preserves, because   *)
(* the events of a check are computed from the stored snapshot and not     *)
(* from the previous scrape.                                               *)
ReaderKnowsStored ==
    /\ view = NoSnapshot <=> stored = NoSnapshot
    /\ view # NoSnapshot =>
          /\ InStock(view) = InStock(stored)
          /\ view.price = stored.price
          /\ view.eta = stored.eta
          /\ view.store = stored.store

(* In a check that fires events, the reader's stock state becomes the one  *)
(* of the new snapshot: it either reads an availability event, or none     *)
(* fired because the stock state did not change.                           *)
LEMMA ReaderStockState ==
    ASSUME NEW known \in Observations, NEW previous \in Observations,
           NEW current \in Observations, InStock(known) = InStock(previous),
           DiffSnapshots(previous, current) # {}
    PROVE  InStock(ReadEvents(known, DiffSnapshots(previous, current), current))
             = InStock(current)
  <1> DEFINE events == DiffSnapshots(previous, current)
             read == ReadEvents(known, events, current)
  <1>1. read.availability =
          IF events \cap (StockAlerts \cup {"LOW_STOCK"}) # {}
          THEN current.availability ELSE known.availability
    BY ObservationFields DEF ReadEvents
  <1>2. CASE events \cap (StockAlerts \cup {"LOW_STOCK"}) # {}
    BY <1>1, <1>2 DEF InStock
  <1>3. CASE events \cap (StockAlerts \cup {"LOW_STOCK"}) = {}
    <2>1. AvailabilityEvents(previous, current) \subseteq StockAlerts \cup {"LOW_STOCK"}
      BY DEF AvailabilityEvents, StockAlerts
    <2>2. AvailabilityEvents(previous, current) = {}
      BY <1>3, <2>1 DEF DiffSnapshots
    <2>3. /\ "STOCK_AVAILABLE" \notin AvailabilityEvents(previous, current)
          /\ "OUT_OF_STOCK" \notin AvailabilityEvents(previous, current)
      BY <2>2
    <2>4. InStock(current) = InStock(previous)
      BY <2>3, ObservationFields
      DEF AvailabilityEvents, PreviousAvailability, InStock, Availability
    <2> QED BY <1>1, <1>3, <2>4 DEF InStock
  <1> QED BY <1>2, <1>3

(* Likewise for the price, the delivery time and the store.                *)
LEMMA ReaderFields ==
    ASSUME NEW known \in Observations, NEW previous \in Observations,
           NEW current \in Observations,
           known.price = previous.price, known.eta = previous.eta,
           known.store = previous.store,
           DiffSnapshots(previous, current) # {}
    PROVE  LET read == ReadEvents(known, DiffSnapshots(previous, current), current)
           IN  /\ read.price = current.price
               /\ read.eta = current.eta
               /\ read.store = current.store
  <1> DEFINE events == DiffSnapshots(previous, current)
             read == ReadEvents(known, events, current)
  <1>1. /\ read.price = IF "PRICE_CHANGED" \in events THEN current.price ELSE known.price
        /\ read.eta = IF "ETA_CHANGED" \in events THEN current.eta ELSE known.eta
        /\ read.store = IF "STORE_CHANGED" \in events THEN current.store ELSE known.store
    BY ObservationFields DEF ReadEvents
  <1>2. events = AvailabilityEvents(previous, current) \cup FieldEvents(previous, current)
    BY ObservationFields DEF DiffSnapshots
  <1>3. /\ "PRICE_CHANGED" \notin events => current.price = previous.price
        /\ "ETA_CHANGED" \notin events => current.eta = previous.eta
        /\ "STORE_CHANGED" \notin events => current.store = previous.store
    BY <1>2 DEF FieldEvents
  <1> QED BY <1>1, <1>3

LEMMA ReaderKnowsStoredStep ==
    TypeOK /\ ReaderKnowsStored /\ [Next]_vars => ReaderKnowsStored'
  <1> SUFFICES ASSUME TypeOK, ReaderKnowsStored, [Next]_vars PROVE ReaderKnowsStored'
    OBVIOUS
  <1>1. CASE CheckEmpty
    BY <1>1 DEF CheckEmpty, ReaderKnowsStored
  <1>2. ASSUME NEW current \in Observations, Check(current) PROVE ReaderKnowsStored'
    <2> DEFINE events == DiffSnapshots(stored, current)
    <2>1. /\ view' = ReadEvents(view, events, current)
          /\ stored' = BaselineAfter(stored, current)
      BY <1>2 DEF Check
    <2>2. current # NoSnapshot
      BY ObservationFields
    <2>3. CASE events = {}
      BY <2>1, <2>3 DEF ReadEvents, BaselineAfter, ReaderKnowsStored
    <2>4. CASE events # {} /\ view = NoSnapshot
      BY <2>1, <2>2, <2>4 DEF ReadEvents, BaselineAfter, ReaderKnowsStored
    <2>5. CASE events # {} /\ view # NoSnapshot
      <3>1. view \in Observations /\ stored \in Observations
        BY <2>5 DEF TypeOK, ReaderKnowsStored
      <3>2. stored' = current
        BY <2>1, <2>5 DEF BaselineAfter
      <3>3. /\ view.price = stored.price
            /\ view.eta = stored.eta
            /\ view.store = stored.store
            /\ InStock(view) = InStock(stored)
        BY <2>5 DEF ReaderKnowsStored
      <3>4. InStock(view') = InStock(current)
        BY <2>1, <2>5, <3>1, <3>3, ReaderStockState
      <3>5. /\ view'.price = current.price
            /\ view'.eta = current.eta
            /\ view'.store = current.store
        BY <2>1, <2>5, <3>1, <3>3, ReaderFields
      <3>6. view' # NoSnapshot
        <4>1. view' = [availability |->
                         IF events \cap (StockAlerts \cup {"LOW_STOCK"}) # {}
                         THEN current.availability ELSE view.availability,
                       price |-> IF "PRICE_CHANGED" \in events
                                 THEN current.price ELSE view.price,
                       variants |-> IF "NEW_VARIANT" \in events
                                    THEN current.variants ELSE view.variants,
                       eta |-> IF "ETA_CHANGED" \in events
                               THEN current.eta ELSE view.eta,
                       store |-> IF "STORE_CHANGED" \in events
                                 THEN current.store ELSE view.store]
          BY <2>1, <2>5 DEF ReadEvents
        <4> HIDE DEF events
        <4> QED BY <4>1, <3>1, ObservationFields, NoSnapshotAssumption
                DEF Observations, Observation
      <3> QED BY <2>2, <3>2, <3>4, <3>5, <3>6 DEF ReaderKnowsStored
    <2> QED BY <2>3, <2>4, <2>5
  <1>3. CASE UNCHANGED vars
    BY <1>3 DEF vars, ReaderKnowsStored
  <1> QED BY <1>1, <1>2, <1>3 DEF Next

(* A reader of the events knows the current price, delivery time, store    *)
(* and stock state after every check.                                      *)
THEOREM ReaderIsAlwaysRight == Spec => []ReaderIsRight
<1>1. Init => ReaderKnowsStored
  BY DEF Init, ReaderKnowsStored
<1>2. BaselineDrift /\ TypeOK /\ ReaderKnowsStored => ReaderIsRight
  BY DEF BaselineDrift, ReaderKnowsStored, ReaderIsRight, InStock, SeenInStock
<1> QED BY <1>1, <1>2, ReaderKnowsStoredStep, BaselineDriftIsBounded, TypeCorrect,
           PTL DEF Spec

-----------------------------------------------------------------------------
(* The last stock alert always tells the stock state of the stored         *)
(* snapshot; together with BaselineDrift it tells that of the last scrape. *)
BellIsCurrent ==
    /\ bell = "STOCK_AVAILABLE" <=> stored # NoSnapshot /\ InStock(stored)
    /\ bell \in StockAlerts \cup {"none"}

(* Which stock alert a diff contains is decided by the stock states alone. *)
LEMMA StockAlertOfDiff ==
    ASSUME NEW previous \in Observations \cup {NoSnapshot}, NEW current \in Observations
    PROVE  LET before == previous # NoSnapshot /\ InStock(previous)
               alerts == DiffSnapshots(previous, current) \cap StockAlerts
           IN  /\ ~before /\ InStock(current) => alerts = {"STOCK_AVAILABLE"}
               /\ before /\ ~InStock(current) => alerts = {"OUT_OF_STOCK"}
               /\ before = InStock(current) => alerts = {}
  <1>1. DiffSnapshots(previous, current) \cap StockAlerts
          = AvailabilityEvents(previous, current) \cap StockAlerts
    BY DEF DiffSnapshots, FieldEvents, StockAlerts
  <1>2. /\ previous # NoSnapshot => previous.availability \in Availability
        /\ current.availability \in Availability
    BY ObservationFields
  <1>3. CASE previous = NoSnapshot
    BY <1>1, <1>2, <1>3
    DEF AvailabilityEvents, PreviousAvailability, InStock, Availability, StockAlerts
  <1>4. CASE previous # NoSnapshot
    BY <1>1, <1>2, <1>4
    DEF AvailabilityEvents, PreviousAvailability, InStock, Availability, StockAlerts
  <1> QED BY <1>3, <1>4

(* A sequence of checks of any length is a behaviour of the alert feed:    *)
(* every check that sees the stock state change gives one alert, of the    *)
(* right kind, and no other check gives one.                               *)
THEOREM ChecksImplementStockFeed == Spec => ImplementsStockFeed
<1>1. Init => Feed!Init
  BY DEF Init, Feed!Init, SeenInStock
<1>2. Init => BellIsCurrent
  BY DEF Init, BellIsCurrent
<1>3. /\ TypeOK /\ BaselineDrift /\ BaselineDrift' /\ BellIsCurrent /\ [Next]_vars
      => BellIsCurrent' /\ [Feed!Next]_(Feed!feedVars)
  <2> SUFFICES ASSUME TypeOK, BaselineDrift, BaselineDrift', BellIsCurrent, [Next]_vars
               PROVE  BellIsCurrent' /\ [Feed!Next]_(Feed!feedVars)
    OBVIOUS
  <2>1. CASE CheckEmpty
    BY <2>1 DEF CheckEmpty, BellIsCurrent, Feed!feedVars, SeenInStock
  <2>2. ASSUME NEW current \in Observations, Check(current)
        PROVE  BellIsCurrent' /\ [Feed!Next]_(Feed!feedVars)
    <3> DEFINE before == stored # NoSnapshot /\ InStock(stored)
               alerts == DiffSnapshots(stored, current) \cap StockAlerts
    <3>1. /\ seen' = current
          /\ stored' = BaselineAfter(stored, current)
          /\ alerts = {} => bell' = bell
          /\ alerts # {} => bell' \in alerts
      BY <2>2 DEF Check
    <3>2. stored \in Observations \cup {NoSnapshot} /\ current # NoSnapshot
      BY ObservationFields DEF TypeOK
    <3>3. SeenInStock = before
      BY DEF BaselineDrift, SeenInStock, InStock
    <3>4. SeenInStock' = InStock(current)
      BY <3>1, <3>2 DEF SeenInStock, InStock
    <3>5. (stored' # NoSnapshot /\ InStock(stored')) = InStock(current)
      BY <3>1, <3>4 DEF BaselineDrift, SeenInStock, InStock
    <3>6. /\ ~before /\ InStock(current) => alerts = {"STOCK_AVAILABLE"}
          /\ before /\ ~InStock(current) => alerts = {"OUT_OF_STOCK"}
          /\ before = InStock(current) => alerts = {}
      BY <3>2, StockAlertOfDiff
    <3> HIDE DEF before, alerts
    <3>7. bell = "STOCK_AVAILABLE" <=> before
      BY DEF BellIsCurrent, before
    <3>8. CASE ~before /\ InStock(current)
      BY <3>1, <3>3, <3>4, <3>5, <3>6, <3>7, <3>8
      DEF BellIsCurrent, Feed!Next, Feed!Restock, StockAlerts
    <3>9. CASE before /\ ~InStock(current)
      BY <3>1, <3>3, <3>4, <3>5, <3>6, <3>7, <3>9
      DEF BellIsCurrent, Feed!Next, Feed!SellOut, StockAlerts
    <3>10. CASE before = InStock(current)
      BY <3>1, <3>3, <3>4, <3>5, <3>6, <3>7, <3>10
      DEF BellIsCurrent, Feed!feedVars
    <3>11. before \in BOOLEAN /\ InStock(current) \in BOOLEAN
      BY DEF before, InStock
    <3> QED BY <3>8, <3>9, <3>10, <3>11
  <2>3. CASE UNCHANGED vars
    BY <2>3 DEF vars, BellIsCurrent, Feed!feedVars, SeenInStock
  <2> QED BY <2>1, <2>2, <2>3 DEF Next
<1> QED BY <1>1, <1>2, <1>3, TypeCorrect, BaselineDriftIsBounded, PTL
        DEF Spec, ImplementsStockFeed, Feed!Spec
-----------------------------------------------------------------------------
(* What the charts of a watch rest on: the rows that the checks of module  *)
(* AnalyticsStream keep, and what the shelf had shown.                     *)
SnapshotRows == [timestamp : Nat, inStock : BOOLEAN, price : Prices]
EventRows == [type : EventTypes, created_at : Nat, snapshot_id : Nat]

RowsAreTyped ==
    /\ now \in Nat
    /\ snapshots \in Seq(SnapshotRows)
    /\ history \in Seq(EventRows)
    /\ DOMAIN shelf = 0 .. now

SnapshotsAreInOrder ==
    \A i \in DOMAIN snapshots :
        /\ snapshots[i].timestamp \in 1 .. now
        /\ \A j \in DOMAIN snapshots : i < j => snapshots[i].timestamp < snapshots[j].timestamp

(* An event bears the time of its snapshot, and a stock alert agrees with  *)
(* what that snapshot shows.                                               *)
Agrees(e, rows) ==
    /\ e.snapshot_id \in DOMAIN rows
    /\ e.created_at = rows[e.snapshot_id].timestamp
    /\ e.type = "STOCK_AVAILABLE" => rows[e.snapshot_id].inStock
    /\ e.type = "OUT_OF_STOCK" => ~rows[e.snapshot_id].inStock

EventsAgree == \A e \in DOMAIN history : Agrees(history[e], snapshots)

SnapshotsHaveEvents ==
    \A i \in DOMAIN snapshots : \E e \in DOMAIN history : history[e].created_at = snapshots[i].timestamp

TheLastSnapshotIsStored ==
    IF stored = NoSnapshot THEN snapshots = <<>>
    ELSE /\ snapshots # <<>>
         /\ snapshots[Len(snapshots)].price = stored.price
         /\ snapshots[Len(snapshots)].inStock = InStock(stored)

(* The snapshot a chart shows at a minute: the last one not after it.      *)
LastBy(rows, i, minute) ==
    /\ rows[i].timestamp <= minute
    /\ \A j \in DOMAIN rows : rows[j].timestamp <= minute => rows[j].timestamp <= rows[i].timestamp

TheShelfIsShown ==
    \A minute \in 0 .. now : \A i \in DOMAIN snapshots :
        LastBy(snapshots, i, minute) =>
            /\ snapshots[i].price = shelf[minute].price
            /\ snapshots[i].inStock = shelf[minute].inStock

Kept ==
    /\ RowsAreTyped
    /\ SnapshotsAreInOrder
    /\ EventsAgree
    /\ SnapshotsHaveEvents
    /\ TheLastSnapshotIsStored
    /\ TheShelfIsShown

(* A minute makes a check, so all that is proved about the checks holds    *)
(* here.                                                                   *)
LEMMA StreamChecks == StreamSpec => Spec
  <1>1. StreamInit => Init
    BY DEF StreamInit
  <1>2. [Minute]_streamVars => [Next]_vars
    BY DEF Minute, Next, streamVars, vars
  <1> QED BY <1>1, <1>2, PTL DEF StreamSpec, Spec

(* What a check does to the stored snapshot, by whether it fires an event. *)
LEMMA WhatACheckStores ==
    ASSUME TypeOK, Minute
    PROVE  /\ fired' \in SUBSET EventTypes
           /\ fired' = {} => stored' = stored
           /\ fired' # {} => \E current \in Observations :
                 /\ stored' = current
                 /\ fired' = DiffSnapshots(stored, current)
  <1>1. CASE CheckEmpty
    BY <1>1 DEF CheckEmpty
  <1>2. ASSUME NEW current \in Observations, Check(current)
        PROVE  /\ fired' \in SUBSET EventTypes
               /\ fired' = {} => stored' = stored
               /\ fired' # {} => /\ stored' = current
                                 /\ fired' = DiffSnapshots(stored, current)
    <2>1. fired' = DiffSnapshots(stored, current) /\ stored' = BaselineAfter(stored, current)
      BY <1>2 DEF Check
    <2>2. DiffSnapshots(stored, current) \in SUBSET EventTypes
      BY DEF DiffSnapshots, AvailabilityEvents, FieldEvents, EventTypes
    <2> QED BY <2>1, <2>2 DEF BaselineAfter
  <1> QED BY <1>1, <1>2 DEF Minute

(* The stock alerts of a check agree with what it saw, and of the          *)
(* availability events, which share their place in the list, it fires one  *)
(* at most.                                                                *)
LEMMA EventsOfACheck ==
    ASSUME NEW before \in Observations \cup {NoSnapshot}, NEW current \in Observations,
           NEW types, types = DiffSnapshots(before, current)
    PROVE  /\ "STOCK_AVAILABLE" \in types => InStock(current)
           /\ "OUT_OF_STOCK" \in types => ~InStock(current)
           /\ \A one, other \in types : Rank(one) = Rank(other) => one = other
  <1>1. "STOCK_AVAILABLE" \in types => InStock(current)
    BY DEF DiffSnapshots, AvailabilityEvents, FieldEvents
  <1>2. "OUT_OF_STOCK" \in types => ~InStock(current)
    BY DEF DiffSnapshots, AvailabilityEvents, FieldEvents, InStock
  <1>3. types \in SUBSET EventTypes
    BY DEF DiffSnapshots, AvailabilityEvents, FieldEvents, EventTypes
  <1>4. /\ ~("STOCK_AVAILABLE" \in types /\ "OUT_OF_STOCK" \in types)
        /\ ~("STOCK_AVAILABLE" \in types /\ "LOW_STOCK" \in types)
        /\ ~("OUT_OF_STOCK" \in types /\ "LOW_STOCK" \in types)
    BY DEF DiffSnapshots, AvailabilityEvents, FieldEvents, InStock
  <1>5. \A type \in EventTypes :
          Rank(type) = IF type \in {"STOCK_AVAILABLE", "OUT_OF_STOCK", "LOW_STOCK"} THEN 1
                       ELSE IF type = "PRICE_CHANGED" THEN 2
                       ELSE IF type = "NEW_VARIANT" THEN 3
                       ELSE IF type = "ETA_CHANGED" THEN 4 ELSE 5
    BY DEF EventTypes, Rank
  <1>6. \A one, other \in types : Rank(one) = Rank(other) => one = other
    BY ONLY <1>3, <1>4, <1>5 DEF EventTypes
  <1> QED BY <1>1, <1>2, <1>6

LEMMA EventTypesAreFew ==
    ASSUME NEW types \in SUBSET EventTypes
    PROVE  IsFiniteSet(types) /\ Cardinality(types) \in Nat
  <1> DEFINE two == {"STOCK_AVAILABLE"} \cup {"OUT_OF_STOCK"}
             three == two \cup {"LOW_STOCK"}
             four == three \cup {"PRICE_CHANGED"}
             five == four \cup {"NEW_VARIANT"}
             six == five \cup {"ETA_CHANGED"}
  <1>1. EventTypes = six \cup {"STORE_CHANGED"}
    BY DEF EventTypes
  <1>2. IsFiniteSet({"STOCK_AVAILABLE"})
    BY FS_Singleton
  <1>3. IsFiniteSet(two)
    BY <1>2, FS_AddElement
  <1>4. IsFiniteSet(three)
    <2> HIDE DEF two
    <2> QED BY <1>3, FS_AddElement
  <1>5. IsFiniteSet(four)
    <2> HIDE DEF three
    <2> QED BY <1>4, FS_AddElement
  <1>6. IsFiniteSet(five)
    <2> HIDE DEF four
    <2> QED BY <1>5, FS_AddElement
  <1>7. IsFiniteSet(six)
    <2> HIDE DEF five
    <2> QED BY <1>6, FS_AddElement
  <1>8. IsFiniteSet(EventTypes)
    <2> HIDE DEF six
    <2> QED BY <1>1, <1>7, FS_AddElement
  <1>9. IsFiniteSet(types)
    BY <1>8, FS_Subset
  <1> QED BY <1>9, FS_CardinalityType

(* The rows of a check are written in the order of the list: each place of *)
(* it is taken by the one type that has so many others before it.          *)
LEMMA EveryPlaceIsTaken ==
    ASSUME NEW types \in SUBSET EventTypes,
           \A one, other \in types : Rank(one) = Rank(other) => one = other,
           NEW k \in 1 .. Cardinality(types)
    PROVE  \E type \in types : Cardinality(Before(types, type)) = k - 1
  <1> DEFINE n == Cardinality(types)
             place == [type \in types |-> Cardinality(Before(types, type))]
  <1>1. IsFiniteSet(types) /\ n \in Nat
    BY EventTypesAreFew
  <1>2. \A type \in types : Rank(type) \in Nat
    BY DEF EventTypes, Rank
  <1>3. \A type \in types : /\ IsFiniteSet(Before(types, type))
                            /\ Cardinality(Before(types, type)) \in Nat
    <2> TAKE type \in types
    <2>1. Before(types, type) \in SUBSET types
      BY DEF Before
    <2> QED BY <1>1, <2>1, FS_Subset, FS_CardinalityType
  <1>4. \A type, later \in types : Rank(type) < Rank(later) =>
            Cardinality(Before(types, type)) < Cardinality(Before(types, later))
    <2> SUFFICES ASSUME NEW type \in types, NEW later \in types, Rank(type) < Rank(later)
                 PROVE  Cardinality(Before(types, type)) < Cardinality(Before(types, later))
      OBVIOUS
    <2>1. type \notin Before(types, type)
      BY <1>2 DEF Before
    <2>2. Before(types, type) \cup {type} \in SUBSET Before(types, later)
      BY <1>2 DEF Before
    <2>3. Cardinality(Before(types, type) \cup {type}) = Cardinality(Before(types, type)) + 1
      BY <1>3, <2>1, FS_AddElement
    <2>4. Cardinality(Before(types, type) \cup {type}) <= Cardinality(Before(types, later))
      BY <1>3, <2>2, FS_Subset
    <2> QED BY <1>3, <2>3, <2>4
  <1>5. \A type \in types : Cardinality(Before(types, type)) \in 0 .. n - 1
    <2> TAKE type \in types
    <2>1. Before(types, type) \in SUBSET (types \ {type})
      BY <1>2 DEF Before
    <2>2. IsFiniteSet(types \ {type}) /\ Cardinality(types \ {type}) = n - 1
      BY <1>1, FS_RemoveElement
    <2>3. Cardinality(Before(types, type)) <= n - 1
      BY <2>1, <2>2, FS_Subset
    <2> QED BY <1>1, <1>3, <2>3
  <1>6. place \in [types -> 0 .. n - 1]
    BY <1>5
  <1>7. \A one, other \in types : place[one] = place[other] => one = other
    <2> SUFFICES ASSUME NEW one \in types, NEW other \in types, place[one] = place[other]
                 PROVE  one = other
      OBVIOUS
    <2>1. /\ ~(Rank(one) < Rank(other))
          /\ ~(Rank(other) < Rank(one))
      BY <1>3, <1>4
    <2> QED BY <1>2, <2>1
  <1>8. place \in Injection(types, 0 .. n - 1)
    <2> HIDE DEF place, n
    <2> QED BY <1>6, <1>7 DEF Injection, IsInjective
  <1>9. IsFiniteSet(0 .. n - 1) /\ Cardinality(0 .. n - 1) = n
    <2>1. 0 \in Int /\ n - 1 \in Int
      BY <1>1
    <2>2. /\ IsFiniteSet(0 .. n - 1)
          /\ Cardinality(0 .. n - 1) = IF 0 > n - 1 THEN 0 ELSE (n - 1) - 0 + 1
      <3> HIDE DEF n
      <3> QED BY <2>1, FS_Interval
    <2> HIDE DEF n
    <2> QED BY <1>1, <2>2
  <1>10. place \in Surjection(types, 0 .. n - 1)
    <2> HIDE DEF place
    <2> QED BY <1>8, <1>9, FS_Injection
  <1>11. \E type \in types : place[type] = k - 1
    <2>1. k - 1 \in 0 .. n - 1
      BY <1>1
    <2> HIDE DEF place
    <2> QED BY <2>1, <1>10 DEF Surjection
  <1> QED BY <1>11

(* The rows a check adds: one for each event, each of a type it fired.     *)
LEMMA RecordedRows ==
    ASSUME NEW types \in SUBSET EventTypes,
           \A one, other \in types : Rank(one) = Rank(other) => one = other,
           NEW minute \in Nat, Len(snapshots') \in Nat
    PROVE  LET rows == Recorded(types, minute)
           IN  /\ rows \in Seq(EventRows)
               /\ Len(rows) = Cardinality(types)
               /\ \A k \in 1 .. Cardinality(types) :
                     /\ rows[k].type \in types
                     /\ rows[k].created_at = minute
                     /\ rows[k].snapshot_id = Len(snapshots')
  <1> DEFINE n == Cardinality(types)
             At(k) == CHOOSE type \in types : Cardinality(Before(types, type)) = k - 1
             rows == Recorded(types, minute)
  <1>1. n \in Nat
    BY EventTypesAreFew
  <1>2. \A k \in 1 .. n : At(k) \in types
    BY EveryPlaceIsTaken
  <1>3. rows = [k \in 1 .. n |-> Event(At(k), minute)]
    BY DEF Recorded
  <1>4. \A k \in 1 .. n : rows[k] = [type |-> At(k), created_at |-> minute,
                                     snapshot_id |-> Len(snapshots')]
    BY <1>3 DEF Event
  <1> HIDE DEF At
  <1>5. \A k \in 1 .. n : /\ rows[k].type = At(k)
                          /\ rows[k].created_at = minute
                          /\ rows[k].snapshot_id = Len(snapshots')
                          /\ rows[k] \in EventRows
    <2> SUFFICES ASSUME NEW k \in 1 .. n
                 PROVE  /\ rows[k].type = At(k)
                        /\ rows[k].created_at = minute
                        /\ rows[k].snapshot_id = Len(snapshots')
                        /\ rows[k] \in EventRows
      OBVIOUS
    <2>1. At(k) \in EventTypes
      BY <1>2
    <2> DEFINE row == rows[k]
    <2>2. row = [type |-> At(k), created_at |-> minute, snapshot_id |-> Len(snapshots')]
      BY <1>4
    <2> HIDE DEF row
    <2>3. /\ row.type = At(k)
          /\ row.created_at = minute
          /\ row.snapshot_id = Len(snapshots')
          /\ row \in EventRows
      BY <2>1, <2>2 DEF EventRows
    <2> QED BY <2>3 DEF row
  <1>6. rows \in [1 .. n -> EventRows]
    <2>1. DOMAIN rows = 1 .. n /\ rows = [k \in 1 .. n |-> rows[k]]
      BY <1>3
    <2> HIDE DEF rows, n
    <2> QED BY <1>5, <2>1
  <1>7. rows \in Seq(EventRows)
    <2> HIDE DEF rows
    <2> QED BY <1>1, <1>6, SeqDef
  <1>8. Len(rows) = n
    <2>1. 1 .. Len(rows) = 1 .. n /\ Len(rows) \in Nat
      <3>1. DOMAIN rows = 1 .. n
        BY <1>3
      <3> HIDE DEF rows
      <3> QED BY <1>7, <3>1, LenProperties
    <2> HIDE DEF rows, n
    <2> QED BY <1>1, <2>1
  <1> QED BY <1>2, <1>5, <1>7, <1>8

(* A page may be cut between the events of one check, but it holds every   *)
(* event that is newer than one it shows.                                  *)
LEMMA PagesAreCutByTime ==
    ASSUME history \in Seq(EventRows), NEW limit \in Nat, NEW start \in Nat,
           NEW page \in ListForWatchTarget(limit, start)
    PROVE  /\ page \in SUBSET DOMAIN history
           /\ \A i \in page : \A k \in DOMAIN history :
                 /\ history[k].created_at >= start
                 /\ history[i].created_at < history[k].created_at
                 => k \in page
  <1> DEFINE rows == {i \in DOMAIN history : history[i].created_at >= start}
             After(i) == {j \in rows : history[j].created_at > history[i].created_at}
             Beside(i) == {j \in rows : history[j].created_at = history[i].created_at}
             certain == {i \in rows : Cardinality(After(i)) + Cardinality(Beside(i)) <= limit}
             onTheCut == {i \in rows \ certain : Cardinality(After(i)) < limit}
  <1>1. \E chosen \in SUBSET onTheCut : page = certain \union chosen
    BY DEF ListForWatchTarget
  <1>2. rows \in SUBSET DOMAIN history /\ IsFiniteSet(rows)
    <2>1. DOMAIN history = 1 .. Len(history) /\ Len(history) \in Nat
      BY LenProperties
    <2>2. IsFiniteSet(1 .. Len(history))
      BY <2>1, FS_Interval
    <2>3. rows \in SUBSET (1 .. Len(history))
      BY <2>1
    <2> HIDE DEF rows
    <2> QED BY <2>1, <2>2, <2>3, FS_Subset
  <1>3. \A j \in rows : history[j].created_at \in Nat
    <2> TAKE j \in rows
    <2>1. j \in 1 .. Len(history)
      BY LenProperties
    <2>2. history[j] \in EventRows
      BY <2>1, ElementOfSeq
    <2> QED BY <2>2 DEF EventRows
  <1>4. \A j \in rows : /\ IsFiniteSet(After(j)) /\ IsFiniteSet(Beside(j))
                        /\ Cardinality(After(j)) \in Nat /\ Cardinality(Beside(j)) \in Nat
    <2> TAKE j \in rows
    <2>1. After(j) \in SUBSET rows /\ Beside(j) \in SUBSET rows
      OBVIOUS
    <2> HIDE DEF After, Beside, rows
    <2>2. IsFiniteSet(After(j)) /\ IsFiniteSet(Beside(j))
      BY <1>2, <2>1, FS_Subset
    <2> QED BY <2>2, FS_CardinalityType
  <1>5. page \in SUBSET rows
    BY <1>1
  <1>6. ASSUME NEW i \in page, NEW k \in rows,
               history[i].created_at < history[k].created_at
        PROVE  k \in page
    <2>1. i \in rows
      BY <1>5
    <2>2. Cardinality(After(i)) <= limit
      <3>1. i \in certain \/ i \in onTheCut
        BY <1>1
      <3>2. /\ i \in certain => Cardinality(After(i)) + Cardinality(Beside(i)) <= limit
            /\ i \in onTheCut => Cardinality(After(i)) < limit
        OBVIOUS
      <3> HIDE DEF certain, onTheCut, After, Beside, rows
      <3> QED BY <3>1, <3>2, <1>4, <2>1
    <2>3. After(k) \cap Beside(k) = {}
      BY <1>3
    <2>4. After(k) \cup Beside(k) \in SUBSET After(i)
      BY <1>3, <1>6, <2>1
    <2>5. Cardinality(After(k) \cup Beside(k)) = Cardinality(After(k)) + Cardinality(Beside(k))
      <3> HIDE DEF After, Beside, rows
      <3>1. /\ IsFiniteSet(After(k)) /\ IsFiniteSet(Beside(k))
            /\ Cardinality(After(k)) \in Nat /\ Cardinality(Beside(k)) \in Nat
        BY <1>4
      <3>2. Cardinality(After(k) \cup Beside(k))
              = Cardinality(After(k)) + Cardinality(Beside(k)) - Cardinality(After(k) \cap Beside(k))
        BY <3>1, FS_Union
      <3>3. Cardinality(After(k) \cap Beside(k)) = 0
        BY <2>3, FS_EmptySet
      <3> QED BY <3>1, <3>2, <3>3
    <2>6. Cardinality(After(k) \cup Beside(k)) <= Cardinality(After(i))
      <3>1. IsFiniteSet(After(i))
        BY <1>4, <2>1
      <3> HIDE DEF After, Beside, rows
      <3> QED BY <2>4, <3>1, FS_Subset
    <2>7. Cardinality(After(k)) + Cardinality(Beside(k)) <= limit
      <3>1. /\ Cardinality(After(k)) \in Nat /\ Cardinality(Beside(k)) \in Nat
            /\ Cardinality(After(i)) \in Nat
        BY <1>4, <2>1
      <3> HIDE DEF After, Beside, rows
      <3> QED BY <2>2, <2>5, <2>6, <3>1
    <2> QED BY <1>1, <2>7
  <1> QED BY <1>2, <1>5, <1>6

(* Drawn as steps, what is read of the snapshots is right at every minute. *)
LEMMA KeptPricesAreExact == Kept => PricesAreExact
  <1> SUFFICES ASSUME Kept, NEW length \in 0 .. now, NEW minute \in now - length .. now,
                      NEW point \in LastUpTo(PriceHistory(length), minute, LAMBDA p : p.timestamp)
               PROVE  point.price = shelf[minute].price
    BY DEF PricesAreExact
  <1> DEFINE start == now - length
             Point(j) == [timestamp |-> snapshots[j].timestamp, price |-> snapshots[j].price]
  <1>1. now \in Nat /\ start \in 0 .. now /\ minute \in 0 .. now
    BY DEF Kept, RowsAreTyped
  <1>2. /\ point \in PriceHistory(length)
        /\ point.timestamp <= minute
        /\ \A q \in PriceHistory(length) : q.timestamp <= minute => q.timestamp <= point.timestamp
    BY DEF LastUpTo
  <1>3. PICK i \in DOMAIN snapshots : snapshots[i].timestamp >= start /\ point = Point(i)
    BY <1>2 DEF PriceHistory, ListSince
  <1>4. point.timestamp = snapshots[i].timestamp /\ point.price = snapshots[i].price
    BY <1>3
  <1>5. \A j \in DOMAIN snapshots : snapshots[j].timestamp \in Nat
    BY <1>1 DEF Kept, SnapshotsAreInOrder
  <1>6. ASSUME NEW j \in DOMAIN snapshots, snapshots[j].timestamp <= minute
        PROVE  snapshots[j].timestamp <= snapshots[i].timestamp
    <2>1. CASE snapshots[j].timestamp >= start
      <3>1. Point(j) \in PriceHistory(length)
        BY <2>1 DEF PriceHistory, ListSince
      <3>2. Point(j).timestamp = snapshots[j].timestamp
        OBVIOUS
      <3> HIDE DEF Point
      <3> QED BY <1>2, <1>4, <1>6, <3>1, <3>2
    <2>2. CASE ~(snapshots[j].timestamp >= start)
      BY <1>1, <1>3, <1>5, <2>2
    <2> QED BY <2>1, <2>2
  <1>7. LastBy(snapshots, i, minute)
    BY <1>2, <1>4, <1>6 DEF LastBy
  <1> QED BY <1>1, <1>4, <1>7 DEF Kept, TheShelfIsShown

(* And so is what is read of the events on a page.                         *)
LEMMA KeptHistoryIsExact == Kept => HistoryIsExact
  <1> SUFFICES ASSUME Kept, NEW page \in GetHistory, NEW minute \in 0 .. now,
                      NEW entry \in LastUpTo(page, minute, LAMBDA e : e.created_at)
               PROVE  /\ entry.snapshot.inStock = shelf[minute].inStock
                      /\ entry.snapshot.price = shelf[minute].price
                      /\ entry.type = "STOCK_AVAILABLE" => entry.snapshot.inStock
                      /\ entry.type = "OUT_OF_STOCK" => ~entry.snapshot.inStock
    BY DEF HistoryIsExact
  <1> DEFINE Entry(e) == [created_at |-> history[e].created_at, type |-> history[e].type,
                          snapshot |-> snapshots[history[e].snapshot_id]]
  <1>1. PICK ids \in ListForWatchTarget(PageSize, 0) :
          page = {Entry(e) : e \in {i \in ids : history[i].snapshot_id \in DOMAIN snapshots}}
    BY DEF GetHistory, SnapshotFound
  <1>2. /\ entry \in page
        /\ entry.created_at <= minute
        /\ \A q \in page : q.created_at <= minute => q.created_at <= entry.created_at
    BY DEF LastUpTo
  <1>3. PICK e \in ids : entry = Entry(e)
    BY <1>1, <1>2
  <1>4. history \in Seq(EventRows) /\ now \in Nat
    BY DEF Kept, RowsAreTyped
  <1>5. /\ ids \in SUBSET DOMAIN history
        /\ \A i \in ids : \A k \in DOMAIN history :
              /\ history[k].created_at >= 0
              /\ history[i].created_at < history[k].created_at
              => k \in ids
    BY <1>4, PagesAreCutByTime, AnalyticsAssumption
  <1> DEFINE s == history[e].snapshot_id
  <1>6. /\ s \in DOMAIN snapshots
        /\ entry.created_at = snapshots[s].timestamp
        /\ entry.type = history[e].type
        /\ entry.snapshot = snapshots[s]
    <2>1. Agrees(history[e], snapshots)
      BY <1>5 DEF Kept, EventsAgree
    <2>2. s \in DOMAIN snapshots /\ history[e].created_at = snapshots[s].timestamp
      BY <2>1 DEF Agrees
    <2> QED BY <1>3, <2>2
  <1>7. /\ entry.type = "STOCK_AVAILABLE" => snapshots[s].inStock
        /\ entry.type = "OUT_OF_STOCK" => ~snapshots[s].inStock
    BY <1>5, <1>6 DEF Kept, EventsAgree, Agrees
  <1>8. \A j \in DOMAIN snapshots : snapshots[j].timestamp \in Nat
    BY <1>4 DEF Kept, SnapshotsAreInOrder
  <1>9. ASSUME NEW j \in DOMAIN snapshots, snapshots[j].timestamp <= minute,
               ~(snapshots[j].timestamp <= snapshots[s].timestamp)
        PROVE  FALSE
    <2>1. PICK k \in DOMAIN history : history[k].created_at = snapshots[j].timestamp
      BY DEF Kept, SnapshotsHaveEvents
    <2>2. history[e].created_at < history[k].created_at
      BY <1>3, <1>6, <1>8, <1>9, <2>1
    <2>3. k \in ids
      BY <1>5, <1>8, <2>1, <2>2
    <2>4. history[k].snapshot_id \in DOMAIN snapshots
      BY DEF Kept, EventsAgree, Agrees
    <2>5. Entry(k) \in page
      BY <1>1, <2>3, <2>4
    <2>6. Entry(k).created_at = history[k].created_at
      OBVIOUS
    <2> HIDE DEF Entry
    <2> QED BY <1>2, <1>6, <1>9, <2>1, <2>5, <2>6
  <1>10. LastBy(snapshots, s, minute)
    BY <1>2, <1>6, <1>9 DEF LastBy
  <1>11. /\ snapshots[s].price = shelf[minute].price
         /\ snapshots[s].inStock = shelf[minute].inStock
    BY <1>6, <1>10 DEF Kept, TheShelfIsShown
  <1> QED BY <1>6, <1>7, <1>11

-----------------------------------------------------------------------------
(* One minute keeps the rows true: the parts of Kept one after the other.  *)
LEMMA TheRowOfASnapshot ==
    ASSUME NEW observation \in Observations, NEW minute \in Nat
    PROVE  /\ SnapshotRow(observation, minute) \in SnapshotRows
           /\ SnapshotRow(observation, minute).timestamp = minute
           /\ SnapshotRow(observation, minute).price = observation.price
           /\ SnapshotRow(observation, minute).inStock = InStock(observation)
  <1> DEFINE inStock == InStock(observation)
             cost == observation.price
             row == SnapshotRow(observation, minute)
  <1>1. inStock \in BOOLEAN /\ cost \in Prices
    BY ObservationFields DEF InStock
  <1>2. row = [timestamp |-> minute, inStock |-> inStock, price |-> cost]
    BY DEF SnapshotRow
  <1> HIDE DEF inStock, cost, row
  <1>3. /\ row \in SnapshotRows
        /\ row.timestamp = minute /\ row.price = cost /\ row.inStock = inStock
    BY <1>1, <1>2 DEF SnapshotRows
  <1> QED BY <1>3 DEF inStock, cost, row

(* A quiet check leaves the snapshots alone, another adds one to them.     *)
LEMMA SnapshotsStep ==
    ASSUME TypeOK, Kept, Minute
    PROVE  /\ now' = now + 1
           /\ snapshots' \in Seq(SnapshotRows)
           /\ Len(snapshots) \in Nat /\ DOMAIN snapshots = 1 .. Len(snapshots)
           /\ DOMAIN snapshots' = 1 .. Len(snapshots')
           /\ \A i \in DOMAIN snapshots : i \in DOMAIN snapshots' /\ snapshots'[i] = snapshots[i]
           /\ fired' = {} => snapshots' = snapshots
           /\ fired' # {} => /\ stored' \in Observations
                             /\ Len(snapshots') = Len(snapshots) + 1
                             /\ snapshots'[Len(snapshots')].timestamp = now + 1
                             /\ snapshots'[Len(snapshots')].price = stored'.price
                             /\ snapshots'[Len(snapshots')].inStock = InStock(stored')
  <1>1. now' = now + 1 /\ now \in Nat /\ snapshots \in Seq(SnapshotRows)
    BY DEF Minute, Kept, RowsAreTyped
  <1>2. Len(snapshots) \in Nat /\ DOMAIN snapshots = 1 .. Len(snapshots)
    BY <1>1, LenProperties
  <1>3. snapshots' = IF fired' = {} THEN snapshots ELSE Append(snapshots, SnapshotRow(stored', now'))
    BY DEF Minute
  <1>4. CASE fired' = {}
    BY <1>1, <1>2, <1>3, <1>4
  <1>5. CASE fired' # {}
    <2>1. stored' \in Observations
      BY <1>5, WhatACheckStores
    <2> DEFINE row == SnapshotRow(stored', now')
    <2>2. /\ row \in SnapshotRows /\ row.timestamp = now + 1
          /\ row.price = stored'.price /\ row.inStock = InStock(stored')
      BY <1>1, <2>1, TheRowOfASnapshot
    <2>3. snapshots' = Append(snapshots, row)
      BY <1>3, <1>5
    <2> HIDE DEF row
    <2>4. /\ snapshots' \in Seq(SnapshotRows)
          /\ Len(snapshots') = Len(snapshots) + 1
          /\ \A i \in 1 .. Len(snapshots) : snapshots'[i] = snapshots[i]
          /\ snapshots'[Len(snapshots) + 1] = row
      BY <1>1, <2>2, <2>3, AppendProperties
    <2>5. DOMAIN snapshots' = 1 .. Len(snapshots')
      BY <2>4, LenProperties
    <2> QED BY <1>1, <1>2, <1>5, <2>1, <2>2, <2>4, <2>5
  <1> QED BY <1>4, <1>5

LEMMA TheNewSnapshot ==
    ASSUME TypeOK, Kept, Minute, NEW k \in DOMAIN snapshots', k \notin DOMAIN snapshots
    PROVE  fired' # {} /\ k = Len(snapshots') /\ snapshots'[k].timestamp = now + 1
  <1>1. /\ Len(snapshots) \in Nat /\ DOMAIN snapshots = 1 .. Len(snapshots)
        /\ DOMAIN snapshots' = 1 .. Len(snapshots')
        /\ fired' = {} => snapshots' = snapshots
        /\ fired' # {} => Len(snapshots') = Len(snapshots) + 1
    BY SnapshotsStep
  <1>2. fired' # {}
    BY <1>1
  <1>3. k \in 1 .. Len(snapshots') /\ k \notin 1 .. Len(snapshots)
    BY <1>1
  <1>4. Len(snapshots') = Len(snapshots) + 1 /\ Len(snapshots) \in Nat
    BY <1>1, <1>2
  <1>5. k = Len(snapshots')
    BY ONLY <1>3, <1>4
  <1> QED BY <1>2, <1>5, SnapshotsStep

LEMMA HistoryStep ==
    ASSUME TypeOK, Kept, Minute
    PROVE  /\ history' \in Seq(EventRows)
           /\ \A e \in DOMAIN history : e \in DOMAIN history' /\ history'[e] = history[e]
           /\ \A e \in DOMAIN history' : e \notin DOMAIN history =>
                 /\ fired' # {}
                 /\ history'[e].type \in fired'
                 /\ history'[e].created_at = now + 1
                 /\ history'[e].snapshot_id = Len(snapshots')
           /\ fired' # {} => \E e \in DOMAIN history' : history'[e].created_at = now + 1
  <1>1. /\ now \in Nat /\ now' \in Nat /\ now' = now + 1
        /\ history \in Seq(EventRows) /\ Len(snapshots') \in Nat
    <2>1. now \in Nat /\ history \in Seq(EventRows)
      BY DEF Kept, RowsAreTyped
    <2>2. snapshots' \in Seq(SnapshotRows) /\ now' = now + 1
      BY SnapshotsStep
    <2> QED BY <2>1, <2>2, LenProperties
  <1>2. /\ fired' \in SUBSET EventTypes
        /\ \A one, other \in fired' : Rank(one) = Rank(other) => one = other
    <2>1. fired' \in SUBSET EventTypes
      BY WhatACheckStores
    <2>2. CASE fired' = {}
      BY <2>2
    <2>3. CASE fired' # {}
      <3>1. stored \in Observations \cup {NoSnapshot}
        BY DEF TypeOK
      <3> QED BY <2>1, <2>3, <3>1, WhatACheckStores, EventsOfACheck
    <2> QED BY <2>1, <2>2, <2>3
  <1> DEFINE rows == Recorded(fired', now')
             n == Cardinality(fired')
             old == Len(history)
  <1>3. /\ rows \in Seq(EventRows)
        /\ Len(rows) = n
        /\ \A k \in 1 .. n : /\ rows[k].type \in fired'
                             /\ rows[k].created_at = now'
                             /\ rows[k].snapshot_id = Len(snapshots')
    BY <1>1, <1>2, RecordedRows
  <1>4. n \in Nat /\ (n = 0 <=> fired' = {})
    BY <1>2, EventTypesAreFew, FS_EmptySet
  <1>5. history' = history \o rows
    BY DEF Minute
  <1>6. old \in Nat /\ DOMAIN history = 1 .. old
    BY <1>1, LenProperties
  <1> HIDE DEF rows, n, old
  <1>7. /\ history' \in Seq(EventRows)
        /\ Len(history') = old + n
        /\ \A e \in 1 .. old + n : history'[e] = IF e <= old THEN history[e] ELSE rows[e - old]
    <2>1. /\ history \o rows \in Seq(EventRows)
          /\ Len(history \o rows) = old + Len(rows)
          /\ \A e \in 1 .. old + Len(rows) :
                (history \o rows)[e] = IF e <= old THEN history[e] ELSE rows[e - old]
      BY <1>1, <1>3, ConcatProperties DEF old
    <2>2. Len(rows) = n
      BY <1>3
    <2> QED BY ONLY <1>5, <2>1, <2>2
  <1>8. DOMAIN history' = 1 .. old + n
    BY <1>7, LenProperties
  <1>9. \A e \in DOMAIN history : e \in DOMAIN history' /\ history'[e] = history[e]
    BY <1>4, <1>6, <1>7, <1>8
  <1>10. ASSUME NEW e \in DOMAIN history', e \notin DOMAIN history
         PROVE  /\ fired' # {}
                /\ history'[e].type \in fired'
                /\ history'[e].created_at = now + 1
                /\ history'[e].snapshot_id = Len(snapshots')
    <2>1. e - old \in 1 .. n /\ history'[e] = rows[e - old]
      BY <1>4, <1>6, <1>7, <1>8, <1>10
    <2> QED BY <1>1, <1>3, <2>1
  <1>11. ASSUME fired' # {}
         PROVE  \E e \in DOMAIN history' : history'[e].created_at = now + 1
    <2>1. old + 1 \in DOMAIN history' /\ old + 1 \notin DOMAIN history
      BY <1>4, <1>6, <1>8, <1>11
    <2> QED BY <1>10, <2>1
  <1> QED BY <1>7, <1>9, <1>10, <1>11

LEMMA RowsAreTypedStep == TypeOK /\ Kept /\ Minute => RowsAreTyped'
  <1> SUFFICES ASSUME TypeOK, Kept, Minute PROVE RowsAreTyped'
    OBVIOUS
  <1>1. now' \in Nat
    <2>1. now \in Nat
      BY DEF Kept, RowsAreTyped
    <2> QED BY <2>1 DEF Minute
  <1>2. DOMAIN shelf' = 0 .. now'
    BY DEF Minute
  <1> QED BY <1>1, <1>2, SnapshotsStep, HistoryStep DEF RowsAreTyped

LEMMA SnapshotsAreInOrderStep == TypeOK /\ Kept /\ Minute => SnapshotsAreInOrder'
  <1> SUFFICES ASSUME TypeOK, Kept, Minute,
                      NEW i \in DOMAIN snapshots', NEW j \in DOMAIN snapshots'
               PROVE  /\ snapshots'[i].timestamp \in 1 .. now'
                      /\ i < j => snapshots'[i].timestamp < snapshots'[j].timestamp
    BY DEF SnapshotsAreInOrder
  <1>1. now \in Nat /\ now' = now + 1
    BY SnapshotsStep DEF Kept, RowsAreTyped
  <1>2. \A k \in DOMAIN snapshots : /\ snapshots'[k] = snapshots[k]
                                    /\ snapshots[k].timestamp \in 1 .. now
    BY SnapshotsStep DEF Kept, SnapshotsAreInOrder
  <1>3. ASSUME NEW k \in DOMAIN snapshots', k \notin DOMAIN snapshots
        PROVE  k = Len(snapshots') /\ snapshots'[k].timestamp = now + 1
    BY <1>3, TheNewSnapshot
  <1>4. \A k \in DOMAIN snapshots' : k \in Nat /\ k <= Len(snapshots') /\ Len(snapshots') \in Nat
    <2>1. snapshots' \in Seq(SnapshotRows) /\ DOMAIN snapshots' = 1 .. Len(snapshots')
      BY SnapshotsStep
    <2>2. Len(snapshots') \in Nat
      BY <2>1, LenProperties
    <2> QED BY <2>1, <2>2
  <1>5. snapshots'[i].timestamp \in 1 .. now'
    BY <1>1, <1>2, <1>3
  <1>6. ASSUME i < j PROVE snapshots'[i].timestamp < snapshots'[j].timestamp
    <2>1. i \in DOMAIN snapshots
      BY <1>3, <1>4, <1>6
    <2>2. CASE j \in DOMAIN snapshots
      BY <1>2, <1>6, <2>1, <2>2 DEF Kept, SnapshotsAreInOrder
    <2>3. CASE j \notin DOMAIN snapshots
      BY <1>1, <1>2, <1>3, <2>1, <2>3
    <2> QED BY <2>2, <2>3
  <1> QED BY <1>5, <1>6

LEMMA EventsAgreeStep == TypeOK /\ Kept /\ Minute => EventsAgree'
  <1> SUFFICES ASSUME TypeOK, Kept, Minute, NEW e \in DOMAIN history'
               PROVE  Agrees(history'[e], snapshots')
    BY DEF EventsAgree
  <1>1. CASE e \in DOMAIN history
    <2>1. history'[e] = history[e] /\ Agrees(history[e], snapshots)
      BY <1>1, HistoryStep DEF Kept, EventsAgree
    <2>2. \A i \in DOMAIN snapshots : i \in DOMAIN snapshots' /\ snapshots'[i] = snapshots[i]
      BY SnapshotsStep
    <2> QED BY <2>1, <2>2 DEF Agrees
  <1>2. CASE e \notin DOMAIN history
    <2>1. /\ fired' # {}
          /\ history'[e].type \in fired'
          /\ history'[e].created_at = now + 1
          /\ history'[e].snapshot_id = Len(snapshots')
      BY <1>2, HistoryStep
    <2>2. /\ Len(snapshots') \in DOMAIN snapshots'
          /\ snapshots'[Len(snapshots')].timestamp = now + 1
          /\ snapshots'[Len(snapshots')].inStock = InStock(stored')
      <3>1. /\ Len(snapshots') = Len(snapshots) + 1 /\ Len(snapshots) \in Nat
            /\ DOMAIN snapshots' = 1 .. Len(snapshots')
        BY <2>1, SnapshotsStep
      <3> QED BY <2>1, <3>1, SnapshotsStep
    <2>3. /\ "STOCK_AVAILABLE" \in fired' => InStock(stored')
          /\ "OUT_OF_STOCK" \in fired' => ~InStock(stored')
      <3>1. stored \in Observations \cup {NoSnapshot}
        BY DEF TypeOK
      <3>2. PICK current \in Observations : stored' = current /\ fired' = DiffSnapshots(stored, current)
        BY <2>1, WhatACheckStores
      <3>3. /\ "STOCK_AVAILABLE" \in fired' => InStock(current)
            /\ "OUT_OF_STOCK" \in fired' => ~InStock(current)
        BY <3>1, <3>2, EventsOfACheck
      <3> QED BY <3>2, <3>3
    <2> QED BY <2>1, <2>2, <2>3 DEF Agrees
  <1> QED BY <1>1, <1>2

LEMMA SnapshotsHaveEventsStep == TypeOK /\ Kept /\ Minute => SnapshotsHaveEvents'
  <1> SUFFICES ASSUME TypeOK, Kept, Minute, NEW i \in DOMAIN snapshots'
               PROVE  \E e \in DOMAIN history' : history'[e].created_at = snapshots'[i].timestamp
    BY DEF SnapshotsHaveEvents
  <1>1. CASE i \in DOMAIN snapshots
    <2>1. PICK e \in DOMAIN history : history[e].created_at = snapshots[i].timestamp
      BY <1>1 DEF Kept, SnapshotsHaveEvents
    <2> QED BY <1>1, <2>1, HistoryStep, SnapshotsStep
  <1>2. CASE i \notin DOMAIN snapshots
    <2>1. fired' # {} /\ snapshots'[i].timestamp = now + 1
      BY <1>2, TheNewSnapshot
    <2> QED BY <2>1, HistoryStep
  <1> QED BY <1>1, <1>2

LEMMA TheLastSnapshotIsStoredStep == TypeOK /\ Kept /\ Minute => TheLastSnapshotIsStored'
  <1> SUFFICES ASSUME TypeOK, Kept, Minute PROVE TheLastSnapshotIsStored'
    OBVIOUS
  <1>1. CASE fired' = {}
    BY <1>1, SnapshotsStep, WhatACheckStores DEF Kept, TheLastSnapshotIsStored
  <1>2. CASE fired' # {}
    <2>1. stored' # NoSnapshot
      BY <1>2, SnapshotsStep, ObservationFields
    <2>2. snapshots' # <<>>
      <3>1. Len(snapshots') = Len(snapshots) + 1 /\ Len(snapshots) \in Nat
        BY <1>2, SnapshotsStep
      <3>2. Len(<<>>) = 0
        OBVIOUS
      <3> QED BY <3>1, <3>2
    <2> QED BY <1>2, <2>1, <2>2, SnapshotsStep DEF TheLastSnapshotIsStored
  <1> QED BY <1>1, <1>2

(* At the new minute the chart shows the last snapshot, which agrees with  *)
(* the last scrape up to the drift of the baseline; at an earlier one it   *)
(* shows what it had shown.                                                *)
LEMMA TheShelfIsShownStep ==
    TypeOK /\ Kept /\ BaselineDrift' /\ Minute => TheShelfIsShown'
  <1> SUFFICES ASSUME TypeOK, Kept, BaselineDrift', Minute,
                      NEW minute \in 0 .. now', NEW i \in DOMAIN snapshots',
                      LastBy(snapshots', i, minute)
               PROVE  /\ snapshots'[i].price = shelf'[minute].price
                      /\ snapshots'[i].inStock = shelf'[minute].inStock
    BY DEF TheShelfIsShown
  <1>1. /\ now \in Nat /\ now' = now + 1 /\ DOMAIN shelf = 0 .. now
        /\ \A k \in DOMAIN snapshots : k \in DOMAIN snapshots' /\ snapshots'[k] = snapshots[k]
    BY SnapshotsStep DEF Kept, RowsAreTyped
  <1>2. /\ snapshots'[i].timestamp <= minute
        /\ \A j \in DOMAIN snapshots' :
              snapshots'[j].timestamp <= minute => snapshots'[j].timestamp <= snapshots'[i].timestamp
    BY DEF LastBy
  <1>3. shelf' = [m \in 0 .. now' |-> IF m \in DOMAIN shelf THEN shelf[m]
                                      ELSE IF seen' = NoSnapshot THEN Unseen ELSE Glimpse(seen')]
    BY DEF Minute
  <1>4. CASE minute \in 0 .. now
    <2>1. shelf'[minute] = shelf[minute]
      BY <1>1, <1>3, <1>4
    <2>2. i \in DOMAIN snapshots
      <3>1. i \notin DOMAIN snapshots => snapshots'[i].timestamp = now + 1
        BY TheNewSnapshot
      <3> QED BY <1>1, <1>2, <1>4, <3>1
    <2>3. LastBy(snapshots, i, minute)
      BY <1>1, <1>2, <2>2 DEF LastBy
    <2> QED BY <1>1, <1>4, <2>1, <2>2, <2>3 DEF Kept, TheShelfIsShown
  <1>5. CASE minute \notin 0 .. now
    <2>1. minute = now' /\ minute = now + 1
      BY <1>1, <1>5
    <2>2. SnapshotsAreInOrder' /\ TheLastSnapshotIsStored'
      BY SnapshotsAreInOrderStep, TheLastSnapshotIsStoredStep
    <2>3. i \in Nat /\ i <= Len(snapshots') /\ Len(snapshots') \in DOMAIN snapshots'
      <3>1. snapshots' \in Seq(SnapshotRows) /\ DOMAIN snapshots' = 1 .. Len(snapshots')
        BY SnapshotsStep
      <3>2. Len(snapshots') \in Nat
        BY <3>1, LenProperties
      <3> QED BY <3>1, <3>2
    <2> DEFINE last == Len(snapshots')
    <2>4. /\ snapshots'[last].timestamp \in 1 .. now' /\ snapshots'[i].timestamp \in 1 .. now'
          /\ i < last => snapshots'[i].timestamp < snapshots'[last].timestamp
      BY <2>2, <2>3 DEF SnapshotsAreInOrder
    <2>5. snapshots'[last].timestamp <= snapshots'[i].timestamp
      BY <1>1, <1>2, <2>1, <2>3, <2>4
    <2>6. i = last
      <3>1. ~(i < last)
        BY <1>1, <2>4, <2>5
      <3>2. last \in Nat
        <4>1. snapshots' \in Seq(SnapshotRows)
          BY SnapshotsStep
        <4> QED BY <4>1, LenProperties
      <3> QED BY <2>3, <3>1, <3>2
    <2>7. snapshots' # <<>>
      BY <2>3
    <2>8. /\ stored' # NoSnapshot
          /\ snapshots'[i].price = stored'.price
          /\ snapshots'[i].inStock = InStock(stored')
      BY <2>2, <2>6, <2>7 DEF TheLastSnapshotIsStored
    <2>9. /\ seen' # NoSnapshot
          /\ stored'.price = seen'.price
          /\ InStock(stored') = InStock(seen')
      BY <2>8 DEF BaselineDrift, InStock
    <2>10. shelf'[minute] = Glimpse(seen')
      BY <1>1, <1>3, <2>1, <2>9
    <2> QED BY <2>8, <2>9, <2>10 DEF Glimpse
  <1> QED BY <1>4, <1>5

LEMMA KeptStep == TypeOK /\ Kept /\ BaselineDrift' /\ [Minute]_streamVars => Kept'
  <1>1. CASE Minute
    BY <1>1, RowsAreTypedStep, SnapshotsAreInOrderStep, EventsAgreeStep, SnapshotsHaveEventsStep,
       TheLastSnapshotIsStoredStep, TheShelfIsShownStep
    DEF Kept
  <1>2. CASE UNCHANGED streamVars
    BY <1>2 DEF streamVars, vars, Kept, RowsAreTyped, SnapshotsAreInOrder, EventsAgree,
                SnapshotsHaveEvents, TheLastSnapshotIsStored, TheShelfIsShown
  <1> QED BY <1>1, <1>2

LEMMA KeptInit == StreamInit => Kept
  <1> SUFFICES ASSUME StreamInit PROVE Kept
    OBVIOUS
  <1>1. /\ now = 0 /\ snapshots = <<>> /\ history = <<>>
        /\ shelf = [minute \in {0} |-> Unseen] /\ stored = NoSnapshot
    BY DEF StreamInit, Init
  <1>2. DOMAIN snapshots = {} /\ DOMAIN history = {} /\ DOMAIN shelf = 0 .. now
    BY <1>1
  <1>3. snapshots \in Seq(SnapshotRows) /\ history \in Seq(EventRows)
    BY <1>1
  <1> QED BY <1>1, <1>2, <1>3 DEF Kept, RowsAreTyped, SnapshotsAreInOrder, EventsAgree,
          SnapshotsHaveEvents, TheLastSnapshotIsStored, TheShelfIsShown

(* Both charts of a watch, the price history of any period and any page of *)
(* the history, show at every minute what the last scrape had found,       *)
(* although a check that finds nothing to say stores no row, and wherever  *)
(* the page is cut.                                                        *)
THEOREM ChartsAreAlwaysExact == StreamSpec => []ChartsAreExact
<1>1. Kept => ChartsAreExact
  BY KeptPricesAreExact, KeptHistoryIsExact DEF ChartsAreExact
<1> QED BY <1>1, KeptInit, KeptStep, StreamChecks, TypeCorrect, BaselineDriftIsBounded,
           PTL DEF StreamSpec

-----------------------------------------------------------------------------
(* What the availability summary rests on: the stock alerts of the history *)
(* are the changes of the shelf.                                           *)
Restocked == {minute \in 1 .. now : ~shelf[minute - 1].inStock /\ shelf[minute].inStock}
SoldOut == {minute \in 1 .. now : shelf[minute - 1].inStock /\ ~shelf[minute].inStock}

Tells(e, type, minute) == history[e].type = type /\ history[e].created_at = minute

RowsAreInOrder ==
    \A e \in DOMAIN history :
        /\ history[e].created_at \in 1 .. now
        /\ \A later \in DOMAIN history : e < later => history[e].created_at <= history[later].created_at

EventsAreToldOnce ==
    \A e, other \in DOMAIN history :
        history[e].type = history[other].type /\ history[e].created_at = history[other].created_at
        => e = other

AlertsAreChanges ==
    \A e \in DOMAIN history :
        /\ history[e].type = "STOCK_AVAILABLE" => history[e].created_at \in Restocked
        /\ history[e].type = "OUT_OF_STOCK" => history[e].created_at \in SoldOut

ChangesAreAlerts ==
    /\ \A minute \in Restocked : \E e \in DOMAIN history : Tells(e, "STOCK_AVAILABLE", minute)
    /\ \A minute \in SoldOut : \E e \in DOMAIN history : Tells(e, "OUT_OF_STOCK", minute)

TheClockIsBounded == now <= MaxMinutes

TheShelfIsSeen == ~shelf[0].inStock /\ (shelf[now].inStock <=> SeenInStock)

Told ==
    /\ RowsAreInOrder
    /\ EventsAreToldOnce
    /\ AlertsAreChanges
    /\ ChangesAreAlerts
    /\ TheShelfIsSeen
    /\ TheClockIsBounded

(* A check fires a stock alert when it sees the stock state change, and    *)
(* only then: the drift of the baseline leaves the stock state alone.      *)
LEMMA AlertsOfAMinute ==
    ASSUME TypeOK, BaselineDrift, Minute
    PROVE  /\ "STOCK_AVAILABLE" \in fired' <=> ~SeenInStock /\ SeenInStock'
           /\ "OUT_OF_STOCK" \in fired' <=> SeenInStock /\ ~SeenInStock'
  <1>1. CASE CheckEmpty
    BY <1>1 DEF CheckEmpty, SeenInStock
  <1>2. ASSUME NEW current \in Observations, Check(current)
        PROVE  /\ "STOCK_AVAILABLE" \in fired' <=> ~SeenInStock /\ SeenInStock'
               /\ "OUT_OF_STOCK" \in fired' <=> SeenInStock /\ ~SeenInStock'
    <2> DEFINE before == stored # NoSnapshot /\ InStock(stored)
               alerts == DiffSnapshots(stored, current) \cap StockAlerts
    <2>1. seen' = current /\ fired' = DiffSnapshots(stored, current)
      BY <1>2 DEF Check
    <2>2. stored \in Observations \cup {NoSnapshot} /\ current # NoSnapshot
      BY ObservationFields DEF TypeOK
    <2>3. SeenInStock = before /\ SeenInStock' = InStock(current)
      BY <2>1, <2>2 DEF BaselineDrift, SeenInStock, InStock
    <2>4. /\ ~before /\ InStock(current) => alerts = {"STOCK_AVAILABLE"}
          /\ before /\ ~InStock(current) => alerts = {"OUT_OF_STOCK"}
          /\ before = InStock(current) => alerts = {}
      BY <2>2, StockAlertOfDiff
    <2>5. /\ "STOCK_AVAILABLE" \in fired' <=> "STOCK_AVAILABLE" \in alerts
          /\ "OUT_OF_STOCK" \in fired' <=> "OUT_OF_STOCK" \in alerts
      BY <2>1 DEF StockAlerts
    <2>6. before \in BOOLEAN /\ InStock(current) \in BOOLEAN
      BY DEF InStock
    <2> HIDE DEF before, alerts
    <2> QED BY <2>3, <2>4, <2>5, <2>6
  <1> QED BY <1>1, <1>2 DEF Minute

(* Each event of a check has a row, and only one.                          *)
LEMMA RecordedTypes ==
    ASSUME NEW types \in SUBSET EventTypes,
           \A one, other \in types : Rank(one) = Rank(other) => one = other,
           NEW minute \in Nat
    PROVE  LET rows == Recorded(types, minute)
               n == Cardinality(types)
           IN  /\ \A k, l \in 1 .. n : rows[k].type = rows[l].type => k = l
               /\ \A type \in types : \E k \in 1 .. n : rows[k].type = type
  <1> DEFINE n == Cardinality(types)
             At(k) == CHOOSE type \in types : Cardinality(Before(types, type)) = k - 1
             rows == Recorded(types, minute)
             place == [k \in 1 .. n |-> At(k)]
  <1>1. IsFiniteSet(types) /\ n \in Nat
    BY EventTypesAreFew
  <1>2. \A k \in 1 .. n : At(k) \in types /\ Cardinality(Before(types, At(k))) = k - 1
    BY EveryPlaceIsTaken
  <1>3. rows = [k \in 1 .. n |-> Event(At(k), minute)]
    BY DEF Recorded
  <1>4. \A k \in 1 .. n : rows[k].type = At(k)
    BY <1>3 DEF Event
  <1> HIDE DEF At, rows
  <1>5. \A k, l \in 1 .. n : At(k) = At(l) => k = l
    <2> SUFFICES ASSUME NEW k \in 1 .. n, NEW l \in 1 .. n, At(k) = At(l) PROVE k = l
      OBVIOUS
    <2>1. k - 1 = l - 1
      BY <1>2
    <2> HIDE DEF n
    <2> QED BY <1>1, <2>1
  <1>6. place \in Injection(1 .. n, types)
    <2>1. place \in [1 .. n -> types]
      BY <1>2
    <2>2. \A k, l \in 1 .. n : place[k] = place[l] => k = l
      BY <1>5
    <2> HIDE DEF place, n
    <2> QED BY <2>1, <2>2 DEF Injection, IsInjective
  <1>7. IsFiniteSet(1 .. n) /\ Cardinality(1 .. n) = n
    <2>1. 1 \in Int /\ n \in Int
      BY <1>1
    <2>2. /\ IsFiniteSet(1 .. n)
          /\ Cardinality(1 .. n) = IF 1 > n THEN 0 ELSE n - 1 + 1
      <3> HIDE DEF n
      <3> QED BY <2>1, FS_Interval
    <2> HIDE DEF n
    <2> QED BY <1>1, <2>2
  <1>8. place \in Surjection(1 .. n, types)
    <2>1. Cardinality(1 .. n) = Cardinality(types)
      BY <1>7
    <2> HIDE DEF place, n
    <2> QED BY <1>1, <1>6, <1>7, <2>1, FS_Injection
  <1>9. ASSUME NEW type \in types PROVE \E k \in 1 .. n : rows[k].type = type
    <2>1. \E k \in 1 .. n : place[k] = type
      <3> HIDE DEF place, n
      <3> QED BY <1>8 DEF Surjection
    <2> QED BY <2>1, <1>4
  <1>10. \A k, l \in 1 .. n : rows[k].type = rows[l].type => k = l
    BY <1>4, <1>5
  <1> HIDE DEF place
  <1> QED BY <1>9, <1>10 DEF rows

(* The rows of a minute come after the others, one for each event.         *)
LEMMA NewRows ==
    ASSUME TypeOK, Kept, Minute
    PROVE  /\ \A e \in DOMAIN history, later \in DOMAIN history' : later \notin DOMAIN history => e < later
           /\ \A e, other \in DOMAIN history' \ DOMAIN history :
                 history'[e].type = history'[other].type => e = other
           /\ \A type \in fired' : \E e \in DOMAIN history' \ DOMAIN history : history'[e].type = type
  <1>1. /\ now' \in Nat /\ now' = now + 1
        /\ history \in Seq(EventRows) /\ Len(snapshots') \in Nat
    <2>1. now \in Nat /\ history \in Seq(EventRows)
      BY DEF Kept, RowsAreTyped
    <2>2. snapshots' \in Seq(SnapshotRows) /\ now' = now + 1
      BY SnapshotsStep
    <2> QED BY <2>1, <2>2, LenProperties
  <1>2. /\ fired' \in SUBSET EventTypes
        /\ \A one, other \in fired' : Rank(one) = Rank(other) => one = other
    <2>1. fired' \in SUBSET EventTypes
      BY WhatACheckStores
    <2>2. CASE fired' = {}
      BY <2>2
    <2>3. CASE fired' # {}
      <3>1. stored \in Observations \cup {NoSnapshot}
        BY DEF TypeOK
      <3> QED BY <2>1, <2>3, <3>1, WhatACheckStores, EventsOfACheck
    <2> QED BY <2>1, <2>2, <2>3
  <1> DEFINE rows == Recorded(fired', now')
             n == Cardinality(fired')
             old == Len(history)
  <1>3. /\ rows \in Seq(EventRows)
        /\ Len(rows) = n
        /\ \A k, l \in 1 .. n : rows[k].type = rows[l].type => k = l
        /\ \A type \in fired' : \E k \in 1 .. n : rows[k].type = type
    <2>1. rows \in Seq(EventRows) /\ Len(rows) = n
      BY <1>1, <1>2, RecordedRows
    <2>2. /\ \A k, l \in 1 .. n : rows[k].type = rows[l].type => k = l
          /\ \A type \in fired' : \E k \in 1 .. n : rows[k].type = type
      BY <1>1, <1>2, RecordedTypes
    <2> QED BY <2>1, <2>2
  <1>4. n \in Nat
    BY <1>2, EventTypesAreFew
  <1>5. history' = history \o rows
    BY DEF Minute
  <1>6. old \in Nat /\ DOMAIN history = 1 .. old
    BY <1>1, LenProperties
  <1> HIDE DEF rows, n
  <1>7. /\ history' \in Seq(EventRows)
        /\ Len(history') = old + n
        /\ \A e \in 1 .. old + n : history'[e] = IF e <= old THEN history[e] ELSE rows[e - old]
    <2>1. /\ history \o rows \in Seq(EventRows)
          /\ Len(history \o rows) = old + Len(rows)
          /\ \A e \in 1 .. old + Len(rows) :
                (history \o rows)[e] = IF e <= old THEN history[e] ELSE rows[e - old]
      BY <1>1, <1>3, ConcatProperties
    <2> HIDE DEF old
    <2> QED BY ONLY <1>3, <1>5, <2>1
  <1>8. DOMAIN history' = 1 .. old + n
    BY <1>7, LenProperties
  <1> HIDE DEF old
  <1>9. \A e \in DOMAIN history' \ DOMAIN history : e - old \in 1 .. n /\ history'[e] = rows[e - old]
    BY <1>4, <1>6, <1>7, <1>8
  <1>10. \A k \in 1 .. n : /\ old + k \in DOMAIN history' \ DOMAIN history
                           /\ history'[old + k] = rows[k]
    BY <1>4, <1>6, <1>7, <1>8
  <1>11. \A e \in DOMAIN history, later \in DOMAIN history' : later \notin DOMAIN history => e < later
    BY <1>4, <1>6, <1>8
  <1>12. ASSUME NEW e \in DOMAIN history' \ DOMAIN history, NEW other \in DOMAIN history' \ DOMAIN history,
                history'[e].type = history'[other].type
         PROVE  e = other
    <2>1. e - old = other - old
      BY <1>3, <1>9, <1>12
    <2>2. e \in Int /\ other \in Int
      BY <1>4, <1>6, <1>8
    <2> QED BY <1>6, <2>1, <2>2
  <1>13. ASSUME NEW type \in fired'
         PROVE  \E e \in DOMAIN history' \ DOMAIN history : history'[e].type = type
    BY <1>3, <1>10
  <1> QED BY <1>11, <1>12, <1>13

(* The shelf at the new minute is what the check saw.                      *)
LEMMA TheNewShelf ==
    ASSUME TypeOK, Kept, Minute
    PROVE  /\ now \in Nat /\ now' = now + 1
           /\ \A minute \in 0 .. now : shelf'[minute] = shelf[minute]
           /\ shelf'[now'].inStock <=> SeenInStock'
  <1>1. now \in Nat /\ DOMAIN shelf = 0 .. now /\ now' = now + 1
    BY DEF Minute, Kept, RowsAreTyped
  <1>2. shelf' = [minute \in 0 .. now' |-> IF minute \in DOMAIN shelf THEN shelf[minute]
                                           ELSE IF seen' = NoSnapshot THEN Unseen ELSE Glimpse(seen')]
    BY DEF Minute
  <1>3. \A minute \in 0 .. now : shelf'[minute] = shelf[minute]
    BY <1>1, <1>2
  <1>4. shelf'[now'] = IF seen' = NoSnapshot THEN Unseen ELSE Glimpse(seen')
    BY <1>1, <1>2
  <1>5. shelf'[now'].inStock <=> SeenInStock'
    <2> DEFINE shown == InStock(seen')
    <2>1. shown \in BOOLEAN /\ (SeenInStock' <=> seen' # NoSnapshot /\ shown)
      BY DEF SeenInStock, InStock
    <2>2. Unseen.inStock = FALSE
      BY DEF Unseen
    <2>3. Glimpse(seen').inStock = shown
      BY DEF Glimpse
    <2> HIDE DEF shown
    <2> QED BY <1>4, <2>1, <2>2, <2>3
  <1> QED BY <1>1, <1>3, <1>5

(* So one more change may have happened: the one its alert tells of.       *)
LEMMA TheNewChange ==
    ASSUME TypeOK, BaselineDrift, Kept, TheShelfIsSeen, Minute
    PROVE  /\ Restocked' = Restocked \cup {minute \in {now + 1} : "STOCK_AVAILABLE" \in fired'}
           /\ SoldOut' = SoldOut \cup {minute \in {now + 1} : "OUT_OF_STOCK" \in fired'}
  <1>1. /\ now \in Nat /\ now' = now + 1
        /\ \A minute \in 0 .. now : shelf'[minute] = shelf[minute]
        /\ shelf'[now'].inStock <=> SeenInStock'
        /\ shelf[now].inStock <=> SeenInStock
    BY TheNewShelf DEF TheShelfIsSeen
  <1>2. /\ "STOCK_AVAILABLE" \in fired' <=> ~SeenInStock /\ SeenInStock'
        /\ "OUT_OF_STOCK" \in fired' <=> SeenInStock /\ ~SeenInStock'
    BY AlertsOfAMinute
  <1>3. \A minute \in 1 .. now' :
          /\ minute \in Restocked' <=> ~shelf'[minute - 1].inStock /\ shelf'[minute].inStock
          /\ minute \in SoldOut' <=> shelf'[minute - 1].inStock /\ ~shelf'[minute].inStock
    BY DEF Restocked, SoldOut
  <1>4. ASSUME NEW minute \in 1 .. now
        PROVE  /\ minute \in Restocked' <=> minute \in Restocked
               /\ minute \in SoldOut' <=> minute \in SoldOut
    <2>1. minute \in 1 .. now' /\ minute \in 0 .. now /\ minute - 1 \in 0 .. now
      BY <1>1
    <2>2. shelf'[minute] = shelf[minute] /\ shelf'[minute - 1] = shelf[minute - 1]
      BY <1>1, <2>1
    <2> QED BY <1>3, <2>1, <2>2 DEF Restocked, SoldOut
  <1>5. /\ now + 1 \in Restocked' <=> "STOCK_AVAILABLE" \in fired'
        /\ now + 1 \in SoldOut' <=> "OUT_OF_STOCK" \in fired'
    <2>1. now + 1 \in 1 .. now' /\ (now + 1) - 1 = now /\ now \in 0 .. now
      BY <1>1
    <2>2. shelf'[now] = shelf[now]
      BY <1>1, <2>1
    <2> QED BY <1>1, <1>2, <1>3, <2>1, <2>2
  <1>6. \A minute : minute \in 1 .. now' <=> minute \in 1 .. now \/ minute = now + 1
    BY <1>1
  <1>7. /\ Restocked \subseteq 1 .. now /\ SoldOut \subseteq 1 .. now
        /\ Restocked' \subseteq 1 .. now' /\ SoldOut' \subseteq 1 .. now'
    BY DEF Restocked, SoldOut
  <1>8. Restocked' = Restocked \cup {minute \in {now + 1} : "STOCK_AVAILABLE" \in fired'}
    BY <1>4, <1>5, <1>6, <1>7
  <1>9. SoldOut' = SoldOut \cup {minute \in {now + 1} : "OUT_OF_STOCK" \in fired'}
    BY <1>4, <1>5, <1>6, <1>7
  <1> QED BY <1>8, <1>9

LEMMA ToldStep == TypeOK /\ BaselineDrift /\ Kept /\ Told /\ Minute => Told'
  <1> SUFFICES ASSUME TypeOK, BaselineDrift, Kept, Told, Minute PROVE Told'
    OBVIOUS
  <1>1. /\ now \in Nat /\ now' = now + 1
        /\ \A minute \in 0 .. now : shelf'[minute] = shelf[minute]
        /\ shelf'[now'].inStock <=> SeenInStock'
    BY TheNewShelf
  <1>2. /\ \A e \in DOMAIN history : e \in DOMAIN history' /\ history'[e] = history[e]
        /\ \A e \in DOMAIN history' \ DOMAIN history :
              /\ history'[e].type \in fired'
              /\ history'[e].created_at = now + 1
    BY HistoryStep
  <1>3. /\ \A e \in DOMAIN history, later \in DOMAIN history' : later \notin DOMAIN history => e < later
        /\ \A e, other \in DOMAIN history' \ DOMAIN history :
              history'[e].type = history'[other].type => e = other
        /\ \A type \in fired' : \E e \in DOMAIN history' \ DOMAIN history : history'[e].type = type
    BY NewRows
  <1>4. /\ Restocked' = Restocked \cup {minute \in {now + 1} : "STOCK_AVAILABLE" \in fired'}
        /\ SoldOut' = SoldOut \cup {minute \in {now + 1} : "OUT_OF_STOCK" \in fired'}
    BY TheNewChange DEF Told
  <1>5. \A e \in DOMAIN history :
          /\ history[e].created_at \in 1 .. now
          /\ \A later \in DOMAIN history : e < later => history[e].created_at <= history[later].created_at
    BY DEF Told, RowsAreInOrder
  <1>6. \A e \in DOMAIN history \cup DOMAIN history' : e \in Nat
    <2>1. history \in Seq(EventRows) /\ history' \in Seq(EventRows)
      BY HistoryStep DEF Kept, RowsAreTyped
    <2>2. DOMAIN history = 1 .. Len(history) /\ DOMAIN history' = 1 .. Len(history')
      BY <2>1, LenProperties
    <2> QED BY <2>2
  <1>7. RowsAreInOrder'
    <2> SUFFICES ASSUME NEW e \in DOMAIN history'
                 PROVE  /\ history'[e].created_at \in 1 .. now'
                        /\ \A later \in DOMAIN history' :
                              e < later => history'[e].created_at <= history'[later].created_at
      BY DEF RowsAreInOrder
    <2>1. \A k \in DOMAIN history' : history'[k].created_at \in 1 .. now'
      BY <1>1, <1>2, <1>5
    <2>2. ASSUME NEW later \in DOMAIN history', e < later
          PROVE  history'[e].created_at <= history'[later].created_at
      <3>1. CASE later \in DOMAIN history
        <4>1. e \in DOMAIN history
          BY <1>3, <1>6, <2>2, <3>1
        <4> QED BY <1>2, <1>5, <2>2, <3>1, <4>1
      <3>2. CASE later \notin DOMAIN history
        BY <1>1, <1>2, <2>1, <3>2
      <3> QED BY <3>1, <3>2
    <2> QED BY <2>1, <2>2
  <1>8. EventsAreToldOnce'
    <2> SUFFICES ASSUME NEW e \in DOMAIN history', NEW other \in DOMAIN history',
                        history'[e].type = history'[other].type,
                        history'[e].created_at = history'[other].created_at
                 PROVE  e = other
      BY DEF EventsAreToldOnce
    <2>1. CASE e \in DOMAIN history /\ other \in DOMAIN history
      BY <1>2, <2>1 DEF Told, EventsAreToldOnce
    <2>2. CASE e \notin DOMAIN history /\ other \notin DOMAIN history
      BY <1>3, <2>2
    <2>3. CASE e \in DOMAIN history /\ other \notin DOMAIN history
      BY <1>1, <1>2, <1>5, <2>3
    <2>4. CASE e \notin DOMAIN history /\ other \in DOMAIN history
      BY <1>1, <1>2, <1>5, <2>4
    <2> QED BY <2>1, <2>2, <2>3, <2>4
  <1>9. AlertsAreChanges'
    BY <1>2, <1>4 DEF Told, AlertsAreChanges
  <1>10. ChangesAreAlerts'
    <2>1. ASSUME NEW minute \in Restocked'
          PROVE  \E e \in DOMAIN history' : Tells(e, "STOCK_AVAILABLE", minute)'
      <3>1. CASE minute \in Restocked
        BY <1>2, <3>1 DEF Told, ChangesAreAlerts, Tells
      <3>2. CASE minute = now + 1 /\ "STOCK_AVAILABLE" \in fired'
        BY <1>2, <1>3, <3>2 DEF Tells
      <3> QED BY <1>4, <3>1, <3>2
    <2>2. ASSUME NEW minute \in SoldOut'
          PROVE  \E e \in DOMAIN history' : Tells(e, "OUT_OF_STOCK", minute)'
      <3>1. CASE minute \in SoldOut
        BY <1>2, <3>1 DEF Told, ChangesAreAlerts, Tells
      <3>2. CASE minute = now + 1 /\ "OUT_OF_STOCK" \in fired'
        BY <1>2, <1>3, <3>2 DEF Tells
      <3> QED BY <1>4, <3>1, <3>2
    <2> QED BY <2>1, <2>2 DEF ChangesAreAlerts
  <1>11. TheShelfIsSeen'
    BY <1>1 DEF Told, TheShelfIsSeen
  <1>12. TheClockIsBounded'
    BY <1>1, AnalyticsAssumption DEF Minute, TheClockIsBounded
  <1> QED BY <1>7, <1>8, <1>9, <1>10, <1>11, <1>12 DEF Told

LEMMA ToldInit == StreamInit => Told
  <1> SUFFICES ASSUME StreamInit PROVE Told
    OBVIOUS
  <1>1. /\ now = 0 /\ history = <<>> /\ seen = NoSnapshot
        /\ shelf = [minute \in {0} |-> Unseen]
    BY DEF StreamInit, Init
  <1>2. DOMAIN history = {} /\ Restocked = {} /\ SoldOut = {}
    BY <1>1 DEF Restocked, SoldOut
  <1>3. ~shelf[0].inStock /\ ~SeenInStock
    BY <1>1 DEF Unseen, SeenInStock
  <1> QED BY <1>1, <1>2, <1>3, AnalyticsAssumption DEF Told, RowsAreInOrder, EventsAreToldOnce, AlertsAreChanges,
          ChangesAreAlerts, TheShelfIsSeen, TheClockIsBounded

LEMMA ToldNext == TypeOK /\ BaselineDrift /\ Kept /\ Told /\ [Minute]_streamVars => Told'
  <1>1. CASE Minute
    BY <1>1, ToldStep
  <1>2. CASE UNCHANGED streamVars
    BY <1>2 DEF streamVars, vars, Told, RowsAreInOrder, EventsAreToldOnce, AlertsAreChanges,
                ChangesAreAlerts, TheShelfIsSeen, TheClockIsBounded, Restocked, SoldOut, Tells, SeenInStock
  <1> QED BY <1>1, <1>2
-----------------------------------------------------------------------------
(* The order of the naturals, as a relation: what is proved along the rows *)
(* is proved of the first row where it fails.                              *)
LEMMA NatOrder == IsWellFoundedOn({p \in Nat \X Nat : p[1] < p[2]}, Nat)
  <1>1. {p \in Nat \X Nat : p[1] < p[2]} \cap (Nat \X Nat) \subseteq OpToRel(<, Nat)
    BY DEF OpToRel
  <1> QED BY <1>1, NatLessThanWellFounded, IsWellFoundedOnSubrelation

LEMMA LeastNatural ==
    ASSUME NEW S \in SUBSET Nat, S # {}
    PROVE  \E m \in S : \A n \in S : m <= n
  <1> DEFINE R == {p \in Nat \X Nat : p[1] < p[2]}
  <1>1. PICK m \in S : \A n \in S : ~ (<<n, m>> \in R)
    <2> HIDE DEF R
    <2>1. IsWellFoundedOn(R, Nat)
      BY NatOrder DEF R
    <2> QED BY <2>1, WFMin
  <1>2. ASSUME NEW n \in S PROVE m <= n
    <2>1. ~ (<<n, m>> \in R) /\ n \in Nat /\ m \in Nat
      BY <1>1
    <2>2. ~(n < m)
      BY <2>1
    <2> QED BY <2>1, <2>2
  <1> QED BY <1>2

LEMMA EveryNatural ==
    ASSUME NEW S \in SUBSET Nat, 0 \in S, \A n \in S : n + 1 \in S
    PROVE  \A n \in Nat : n \in S
  <1> SUFFICES ASSUME Nat \ S # {} PROVE FALSE
    OBVIOUS
  <1>1. PICK m \in Nat \ S : \A n \in Nat \ S : m <= n
    BY LeastNatural
  <1>2. m # 0 /\ m - 1 \in Nat /\ ~(m <= m - 1) /\ (m - 1) + 1 = m
    BY <1>1
  <1>3. m - 1 \in S
    BY <1>1, <1>2
  <1> QED BY <1>1, <1>2, <1>3

(* The loop over the rows is well defined: it starts with no outage open,  *)
(* and each row of the page is walked once.                                *)
Start == [open |-> None, downtime |-> 0, outages |-> 0]
Step(page, walk, i) == IF i \in page THEN Walk(walk, history[i]) ELSE walk

LEMMA WalksExist ==
    ASSUME NEW page, NEW length \in Nat
    PROVE  \E walk : walk = [i \in 0 .. length |-> IF i = 0 THEN Start ELSE Step(page, walk[i - 1], i)]
  <1> DEFINE S == {n \in Nat : \E walk :
                      walk = [i \in 0 .. n |-> IF i = 0 THEN Start ELSE Step(page, walk[i - 1], i)]}
  <1>1. 0 \in S
    <2> DEFINE walk == [i \in 0 .. 0 |-> Start]
    <2>1. walk = [i \in 0 .. 0 |-> IF i = 0 THEN Start ELSE Step(page, walk[i - 1], i)]
      OBVIOUS
    <2> HIDE DEF walk
    <2> QED BY <2>1
  <1>2. ASSUME NEW n \in S PROVE n + 1 \in S
    <2>1. PICK walk : walk = [i \in 0 .. n |-> IF i = 0 THEN Start ELSE Step(page, walk[i - 1], i)]
      OBVIOUS
    <2> DEFINE longer == [i \in 0 .. n + 1 |-> IF i = n + 1 THEN Step(page, walk[n], n + 1) ELSE walk[i]]
               Body(i) == IF i = 0 THEN Start ELSE Step(page, longer[i - 1], i)
    <2>2. n \in Nat
      OBVIOUS
    <2>3. ASSUME NEW i \in 0 .. n + 1 PROVE longer[i] = Body(i)
      <3>1. CASE i = 0
        <4>1. longer[i] = walk[0] /\ walk[0] = Start
          BY <2>1, <2>2, <3>1
        <4> QED BY <3>1, <4>1
      <3>2. CASE i # 0 /\ i # n + 1
        <4>1. i \in 0 .. n /\ i - 1 \in 0 .. n /\ i - 1 \in 0 .. n + 1 /\ i - 1 # n + 1
          BY <2>2, <3>2
        <4>2. walk[i] = Step(page, walk[i - 1], i)
          BY <2>1, <3>2, <4>1
        <4>3. longer[i] = walk[i] /\ longer[i - 1] = walk[i - 1]
          BY <3>2, <4>1
        <4> QED BY <3>2, <4>2, <4>3
      <3>3. CASE i = n + 1
        <4>1. n \in 0 .. n + 1 /\ n # n + 1 /\ (n + 1) - 1 = n /\ n + 1 # 0
          BY <2>2
        <4>2. longer[n] = walk[n] /\ longer[n + 1] = Step(page, walk[n], n + 1)
          BY <4>1
        <4> QED BY <3>3, <4>1, <4>2
      <3> QED BY <3>1, <3>2, <3>3
    <2>4. longer = [i \in 0 .. n + 1 |-> longer[i]]
      OBVIOUS
    <2>5. longer = [i \in 0 .. n + 1 |-> Body(i)]
      <3> HIDE DEF longer, Body
      <3> QED BY ONLY <2>3, <2>4
    <2> HIDE DEF longer
    <2> QED BY <2>2, <2>5
  <1>3. S \in SUBSET Nat
    OBVIOUS
  <1>4. \A n \in Nat : n \in S
    <2> HIDE DEF S
    <2> QED BY <1>1, <1>2, <1>3, EveryNatural
  <1> QED BY <1>4

LEMMA WalkedRows ==
    ASSUME NEW page, Len(history) \in Nat
    PROVE  /\ Walked(page)[0] = Start
           /\ \A i \in 1 .. Len(history) : Walked(page)[i] = Step(page, Walked(page)[i - 1], i)
  <1> DEFINE N == Len(history)
             Recursion(walk) == walk = [i \in 0 .. N |-> IF i = 0 THEN Start ELSE Step(page, walk[i - 1], i)]
  <1>1. Walked(page) = CHOOSE walk : Recursion(walk)
    BY DEF Walked, Start, Step
  <1>2. \E walk : Recursion(walk)
    BY WalksExist
  <1>3. Recursion(Walked(page))
    BY <1>1, <1>2
  <1> DEFINE whole == Walked(page)
  <1>4. whole = [i \in 0 .. N |-> IF i = 0 THEN Start ELSE Step(page, whole[i - 1], i)]
    BY <1>3
  <1> HIDE DEF whole
  <1>5. whole[0] = Start
    BY <1>4
  <1>6. \A i \in 1 .. N : whole[i] = Step(page, whole[i - 1], i)
    BY <1>4
  <1> QED BY <1>5, <1>6 DEF whole

-----------------------------------------------------------------------------
(* The shelf between two minutes: it changes where an alert tells so, and  *)
(* while it does not, the minutes out of stock are all of them or none.    *)
LEMMA ARestockBetween ==
    ASSUME now \in Nat, NEW a \in Out, NEW b \in 0 .. now, a <= b, b \notin Out
    PROVE  \E m \in Restocked : a < m /\ m <= b
  <1> DEFINE S == {m \in 0 .. now : a <= m /\ shelf[m].inStock}
  <1>1. S \in SUBSET Nat /\ b \in S
    BY DEF Out
  <1>2. PICK m \in S : \A n \in S : m <= n
    <2> HIDE DEF S
    <2> QED BY <1>1, LeastNatural
  <1>3. a \in 0 .. now /\ ~shelf[a].inStock
    BY DEF Out
  <1>4. a < m /\ m <= b /\ m \in 1 .. now /\ m - 1 \in 0 .. now /\ a <= m - 1 /\ ~(m <= m - 1)
    BY <1>1, <1>2, <1>3
  <1>5. ~shelf[m - 1].inStock
    BY <1>2, <1>4
  <1> QED BY <1>4, <1>5 DEF Restocked

LEMMA ASellOutBetween ==
    ASSUME now \in Nat, NEW a \in 0 .. now, a \notin Out, NEW b \in Out, a <= b
    PROVE  \E m \in SoldOut : a < m /\ m <= b
  <1> DEFINE S == {m \in 0 .. now : a <= m /\ ~shelf[m].inStock}
  <1>1. S \in SUBSET Nat /\ b \in S
    BY DEF Out
  <1>2. PICK m \in S : \A n \in S : m <= n
    <2> HIDE DEF S
    <2> QED BY <1>1, LeastNatural
  <1>3. b \in 0 .. now /\ shelf[a].inStock
    BY DEF Out
  <1>4. a < m /\ m <= b /\ m \in 1 .. now /\ m - 1 \in 0 .. now /\ a <= m - 1 /\ ~(m <= m - 1)
    BY <1>1, <1>2, <1>3
  <1>5. shelf[m - 1].inStock
    BY <1>2, <1>4
  <1> QED BY <1>4, <1>5 DEF SoldOut

LEMMA MinutesOut ==
    ASSUME now \in Nat, NEW start \in Int, NEW end \in Int
    PROVE  IsFiniteSet(OutIn(start, end)) /\ Cardinality(OutIn(start, end)) \in Nat
  <1>1. IsFiniteSet(0 .. now)
    BY FS_Interval
  <1>2. OutIn(start, end) \in SUBSET (0 .. now)
    BY DEF OutIn, Out
  <1> QED BY <1>1, <1>2, FS_Subset, FS_CardinalityType

LEMMA AllOut ==
    ASSUME now \in Nat, NEW start \in Nat, NEW a \in Nat, NEW b \in Nat,
           start <= a, a <= b, \A m \in a .. b - 1 : m \in Out
    PROVE  Cardinality(OutIn(start, b)) = Cardinality(OutIn(start, a)) + (b - a)
  <1> DEFINE early == OutIn(start, a)
             late == a .. b - 1
  <1>1. IsFiniteSet(early) /\ Cardinality(early) \in Nat
    BY MinutesOut
  <1>2. IsFiniteSet(late) /\ Cardinality(late) = b - a
    <2>1. a \in Int /\ b - 1 \in Int
      OBVIOUS
    <2>2. /\ IsFiniteSet(a .. b - 1)
          /\ Cardinality(a .. b - 1) = IF a > b - 1 THEN 0 ELSE (b - 1) - a + 1
      BY <2>1, FS_Interval
    <2> QED BY <2>2
  <1>3. OutIn(start, b) = early \cup late
    BY DEF OutIn, Out
  <1>4. early \cap late = {}
    BY DEF OutIn, Out
  <1> HIDE DEF early, late
  <1>5. Cardinality(early \cup late) = Cardinality(early) + Cardinality(late) - Cardinality(early \cap late)
    BY <1>1, <1>2, FS_Union
  <1>6. Cardinality(early \cap late) = 0
    BY <1>4, FS_EmptySet
  <1> QED BY <1>1, <1>2, <1>3, <1>5, <1>6 DEF early

(* A page of which the alerts from some minute on tell all changes of the  *)
(* shelf: it was in stock before that minute, or the minute is yet to come.*)
TellsFrom(page, start) ==
    /\ page \in SUBSET DOMAIN history
    /\ start \in 1 .. now + 1
    /\ start <= now => start - 1 \notin Out
    /\ \A minute \in SoldOut : start <= minute => \E e \in page : Tells(e, "OUT_OF_STOCK", minute)
    /\ \A minute \in Restocked : start <= minute => \E e \in page : Tells(e, "STOCK_AVAILABLE", minute)
    /\ \A e \in page : history[e].type = "OUT_OF_STOCK" => start <= history[e].created_at

(* No alert of a sell-out in between: the product stayed in stock.         *)
LEMMA StaysInStock ==
    ASSUME now \in Nat, NEW page, NEW start, TellsFrom(page, start),
           NEW a \in start - 1 .. now, a < now => a \notin Out,
           NEW b \in 0 .. now, a <= b,
           \A e \in page : history[e].type = "OUT_OF_STOCK" =>
                ~(a < history[e].created_at /\ history[e].created_at < b)
    PROVE  OutIn(start, b) = OutIn(start, a)
  <1>1. start \in Nat /\ start >= 1 /\ a \in 0 .. now
    BY DEF TellsFrom
  <1>2. ASSUME NEW m \in Out, a <= m, m < b PROVE FALSE
    <2>1. m \in 0 .. now /\ a < now /\ a \notin Out
      BY <1>1, <1>2 DEF Out
    <2>2. PICK k \in SoldOut : a < k /\ k <= m
      BY <1>1, <1>2, <2>1, ASellOutBetween
    <2>3. k \in 1 .. now /\ start <= k
      BY <1>1, <2>2 DEF SoldOut
    <2>4. PICK e \in page : Tells(e, "OUT_OF_STOCK", k)
      BY <2>3 DEF TellsFrom
    <2> QED BY <1>2, <2>1, <2>2, <2>3, <2>4 DEF Tells
  <1>3. \A m \in Out : m \in Int
    BY DEF Out
  <1>4. \A m \in Out : start <= m /\ m < b => m < a
    BY <1>1, <1>2, <1>3
  <1>5. \A m \in Out : m < a => m < b
    BY <1>1, <1>3
  <1> QED BY <1>4, <1>5 DEF OutIn

(* No alert of a restock in between: it stayed out of stock.               *)
LEMMA StaysOut ==
    ASSUME now \in Nat, NEW page, NEW start, TellsFrom(page, start),
           NEW a \in Out, start <= a, NEW b \in 0 .. now, a <= b,
           \A e \in page : history[e].type = "STOCK_AVAILABLE" =>
                ~(a < history[e].created_at /\ history[e].created_at < b)
    PROVE  Cardinality(OutIn(start, b)) = Cardinality(OutIn(start, a)) + (b - a)
  <1>1. start \in Nat /\ a \in 0 .. now
    BY DEF TellsFrom, Out
  <1>2. ASSUME NEW m \in a .. b - 1, m \notin Out PROVE FALSE
    <2>1. m \in 0 .. now /\ a <= m /\ m < b
      BY <1>1
    <2>2. PICK k \in Restocked : a < k /\ k <= m
      BY <1>2, <2>1, ARestockBetween
    <2>3. k \in 1 .. now /\ start <= k
      BY <1>1, <2>2 DEF Restocked
    <2>4. PICK e \in page : Tells(e, "STOCK_AVAILABLE", k)
      BY <2>3 DEF TellsFrom
    <2> QED BY <1>1, <2>1, <2>2, <2>3, <2>4 DEF Tells
  <1> QED BY <1>1, <1>2, AllOut

-----------------------------------------------------------------------------
(* The walk over such a page.                                              *)
Walks == [open : Nat, downtime : Int, outages : Nat]

LEMMA WhatARowDoes ==
    ASSUME NEW walk \in Walks, NEW e, e.created_at \in Nat
    PROVE  /\ Opened(walk, e) \in Walks
           /\ Opened(walk, e).open = e.created_at
           /\ Opened(walk, e).downtime = walk.downtime
           /\ Opened(walk, e).outages = walk.outages
           /\ Closed(walk, e) \in Walks
           /\ Closed(walk, e).open = None
           /\ Closed(walk, e).downtime = walk.downtime + (e.created_at - walk.open)
           /\ Closed(walk, e).outages = walk.outages + 1
  <1> DEFINE minute == e.created_at
  <1>1. /\ Opened(walk, e) = [walk EXCEPT !.open = minute]
        /\ Closed(walk, e) = [walk EXCEPT !.downtime = @ + (minute - walk.open),
                                          !.outages = @ + 1, !.open = None]
    BY DEF Opened, Closed
  <1>2. minute \in Nat /\ None \in Nat
    BY AnalyticsAssumption DEF None
  <1> HIDE DEF minute
  <1>3. /\ Opened(walk, e) \in Walks
        /\ Opened(walk, e).open = minute
        /\ Opened(walk, e).downtime = walk.downtime
        /\ Opened(walk, e).outages = walk.outages
    BY <1>1, <1>2 DEF Walks
  <1>4. /\ Closed(walk, e) \in Walks
        /\ Closed(walk, e).open = None
        /\ Closed(walk, e).downtime = walk.downtime + (minute - walk.open)
        /\ Closed(walk, e).outages = walk.outages + 1
    <2> DEFINE down == walk.downtime + (minute - walk.open)
               count == walk.outages + 1
               next == Closed(walk, e)
    <2>1. down \in Int /\ count \in Nat
      BY <1>2 DEF Walks
    <2>2. next = [walk EXCEPT !.downtime = down, !.outages = count, !.open = None]
      BY <1>1
    <2> HIDE DEF down, count, next
    <2>3. next \in Walks /\ next.open = None /\ next.downtime = down /\ next.outages = count
      BY <1>2, <2>1, <2>2 DEF Walks
    <2> QED BY <2>3 DEF next, down, count
  <1> QED BY <1>3, <1>4 DEF minute

LEMMA TheStart ==
    Start \in Walks /\ Start.open = None /\ Start.downtime = 0 /\ Start.outages = 0
  <1>1. None \in Nat
    BY AnalyticsAssumption DEF None
  <1> QED BY <1>1 DEF Start, Walks

LEMMA HistoryRows ==
    ASSUME Kept, Told
    PROVE  /\ now \in Nat /\ Len(history) \in Nat /\ DOMAIN history = 1 .. Len(history)
           /\ \A e \in DOMAIN history : history[e].created_at \in 1 .. now /\ None # history[e].created_at
  <1>1. now \in Nat /\ history \in Seq(EventRows)
    BY DEF Kept, RowsAreTyped
  <1>2. Len(history) \in Nat /\ DOMAIN history = 1 .. Len(history)
    BY <1>1, LenProperties
  <1>3. \A e \in DOMAIN history : history[e].created_at \in 1 .. now
    BY DEF Told, RowsAreInOrder
  <1>4. \A m \in 1 .. now : None # m
    BY <1>1, AnalyticsAssumption DEF Told, TheClockIsBounded, None
  <1> QED BY <1>1, <1>2, <1>3, <1>4

LEMMA WalksAreTyped ==
    ASSUME Kept, Told, NEW page, NEW i \in 0 .. Len(history)
    PROVE  Walked(page)[i] \in Walks
  <1> DEFINE N == Len(history)
             S == {n \in Nat : n <= N => Walked(page)[n] \in Walks}
  <1>1. N \in Nat /\ DOMAIN history = 1 .. N /\ \A e \in 1 .. N : history[e].created_at \in Nat
    BY HistoryRows
  <1>2. /\ Walked(page)[0] = Start
        /\ \A n \in 1 .. N : Walked(page)[n] = Step(page, Walked(page)[n - 1], n)
    BY <1>1, WalkedRows
  <1> HIDE DEF N
  <1>3. 0 \in S
    BY <1>2, TheStart
  <1>4. ASSUME NEW n \in S PROVE n + 1 \in S
    <2> SUFFICES ASSUME n + 1 <= N PROVE Walked(page)[n + 1] \in Walks
      OBVIOUS
    <2>1. n + 1 \in 1 .. N /\ (n + 1) - 1 = n /\ Walked(page)[n] \in Walks
      BY <1>1
    <2>2. Walked(page)[n + 1] = Step(page, Walked(page)[n], n + 1)
      BY <1>2, <2>1
    <2>3. history[n + 1].created_at \in Nat
      BY <1>1, <2>1
    <2>4. /\ Opened(Walked(page)[n], history[n + 1]) \in Walks
          /\ Closed(Walked(page)[n], history[n + 1]) \in Walks
      BY <2>1, <2>3, WhatARowDoes
    <2> QED BY <2>1, <2>2, <2>4 DEF Step, Walk
  <1>5. \A n \in Nat : n \in S
    <2>1. S \in SUBSET Nat
      OBVIOUS
    <2> HIDE DEF S
    <2> QED BY <1>3, <1>4, <2>1, EveryNatural
  <1>6. i \in Nat /\ i <= N
    BY <1>1 DEF N
  <1> QED BY <1>5, <1>6

(* What the walk knows up to a row.  With no outage open, it has counted   *)
(* the minutes out of stock up to some minute with the product in stock,   *)
(* after every sell-out so far: that of a restock, or the one before the   *)
(* page begins.                                                            *)
CountedTo(page, start, i, walk, minute) ==
    /\ minute \in start - 1 .. now
    /\ \/ minute = start - 1
       \/ \E e \in page : e <= i /\ Tells(e, "STOCK_AVAILABLE", minute)
    /\ walk.downtime = Cardinality(OutIn(start, minute))
    /\ \A e \in page : e <= i /\ history[e].type = "OUT_OF_STOCK" => history[e].created_at <= minute

(* With an outage open, it has counted those up to its beginning, after    *)
(* every restock so far.                                                   *)
CountedToTheOutage(page, start, i, walk) ==
    /\ \E e \in page : e <= i /\ Tells(e, "OUT_OF_STOCK", walk.open)
    /\ walk.downtime = Cardinality(OutIn(start, walk.open))
    /\ \A e \in page : e <= i /\ history[e].type = "STOCK_AVAILABLE" => history[e].created_at <= walk.open

Counted(page, start, i, walk) ==
    IF walk.open = None THEN \E minute \in start - 1 .. now : CountedTo(page, start, i, walk, minute)
    ELSE CountedToTheOutage(page, start, i, walk)

LEMMA CountedAtFirst ==
    ASSUME Kept, Told, NEW page, NEW start, TellsFrom(page, start)
    PROVE  Counted(page, start, 0, Start)
  <1>1. now \in Nat /\ start \in 1 .. now + 1 /\ start - 1 \in start - 1 .. now
    BY HistoryRows DEF TellsFrom
  <1>2. \A e \in page : e \in Nat /\ ~(e <= 0)
    BY HistoryRows DEF TellsFrom
  <1>3. Cardinality(OutIn(start, start - 1)) = 0
    <2>1. OutIn(start, start - 1) = {}
      BY <1>1 DEF OutIn, Out
    <2> QED BY <2>1, FS_EmptySet
  <1>4. CountedTo(page, start, 0, Start, start - 1)
    BY <1>1, <1>2, <1>3, TheStart DEF CountedTo
  <1> QED BY <1>1, <1>4, TheStart DEF Counted

(* At a minute that is counted to, the product was in stock.               *)
LEMMA InStockWhenCounted ==
    ASSUME Kept, Told, NEW page, NEW start, TellsFrom(page, start), NEW i \in Nat,
           NEW walk, NEW minute, CountedTo(page, start, i, walk, minute)
    PROVE  minute < now => minute \notin Out
  <1> SUFFICES ASSUME minute < now PROVE minute \notin Out
    OBVIOUS
  <1>1. now \in Nat /\ start \in 1 .. now + 1 /\ minute \in start - 1 .. now
    BY HistoryRows DEF TellsFrom, CountedTo
  <1>2. CASE minute = start - 1
    BY <1>1, <1>2 DEF TellsFrom
  <1>3. ASSUME NEW e \in page, Tells(e, "STOCK_AVAILABLE", minute)
        PROVE  minute \notin Out
    <2>1. minute \in Restocked
      BY <1>3 DEF Told, AlertsAreChanges, Tells, TellsFrom
    <2> QED BY <2>1 DEF Restocked, Out
  <1> QED BY <1>2, <1>3 DEF CountedTo

(* A sell-out on the page opens an outage, up to which is counted.         *)
LEMMA ASellOutOpens ==
    ASSUME Kept, Told, NEW page, NEW start, TellsFrom(page, start),
           NEW i \in page, history[i].type = "OUT_OF_STOCK",
           NEW walk \in Walks, Counted(page, start, i - 1, walk)
    PROVE  Counted(page, start, i, Opened(walk, history[i]))
  <1> DEFINE c == history[i].created_at
             next == Opened(walk, history[i])
  <1>1. /\ now \in Nat /\ i \in Nat /\ i - 1 \in Nat /\ c \in 1 .. now /\ c # None
        /\ start \in 1 .. now + 1 /\ start <= c
        /\ page \in SUBSET DOMAIN history
    <2>1. i \in DOMAIN history /\ start \in 1 .. now + 1 /\ start <= c /\ page \in SUBSET DOMAIN history
      BY DEF TellsFrom
    <2> QED BY <2>1, HistoryRows
  <1>2. next.open = c /\ next.downtime = walk.downtime
    BY <1>1, WhatARowDoes
  <1>3. c \in SoldOut /\ c \in Out /\ c - 1 \notin Out /\ c - 1 \in 0 .. now
    <2>1. c \in SoldOut
      BY <1>1 DEF Told, AlertsAreChanges
    <2> QED BY <1>1, <2>1 DEF SoldOut, Out
  <1>4. \A e \in page : /\ e \in Nat /\ history[e].created_at \in 1 .. now
                        /\ e <= i => history[e].created_at <= c
                        /\ history[e].created_at < c => e <= i - 1
    <2> SUFFICES ASSUME NEW e \in page
                 PROVE  /\ e \in Nat /\ history[e].created_at \in 1 .. now
                        /\ e <= i => history[e].created_at <= c
                        /\ history[e].created_at < c => e <= i - 1
      OBVIOUS
    <2>1. e \in DOMAIN history /\ e \in Nat /\ history[e].created_at \in 1 .. now /\ i \in DOMAIN history
      BY <1>1, HistoryRows
    <2>2. /\ e < i => history[e].created_at <= c
          /\ i < e => c <= history[e].created_at
      BY <2>1 DEF Told, RowsAreInOrder
    <2> QED BY <1>1, <2>1, <2>2
  <1> HIDE DEF c, next
  <1>5. walk.downtime = Cardinality(OutIn(start, c))
    <2>1. CASE walk.open = None
      <3>1. PICK minute \in start - 1 .. now : CountedTo(page, start, i - 1, walk, minute)
        BY <2>1 DEF Counted
      <3>2. minute < now => minute \notin Out
        BY <1>1, <3>1, InStockWhenCounted
      <3>3. minute <= c
        <4>1. CASE minute = start - 1
          BY <1>1, <4>1
        <4>2. ASSUME NEW e \in page, e <= i - 1, Tells(e, "STOCK_AVAILABLE", minute)
              PROVE  minute <= c
          BY <1>1, <1>4, <4>2 DEF Tells
        <4> QED BY <3>1, <4>1, <4>2 DEF CountedTo
      <3>4. \A e \in page : history[e].type = "OUT_OF_STOCK" =>
                ~(minute < history[e].created_at /\ history[e].created_at < c)
        <4> SUFFICES ASSUME NEW e \in page, history[e].type = "OUT_OF_STOCK",
                            minute < history[e].created_at, history[e].created_at < c
                     PROVE  FALSE
          OBVIOUS
        <4>1. history[e].created_at <= minute
          BY <1>4, <3>1 DEF CountedTo
        <4> QED BY <1>1, <1>4, <4>1
      <3>5. c \in 0 .. now
        BY <1>1
      <3>6. OutIn(start, c) = OutIn(start, minute)
        BY <1>1, <3>2, <3>3, <3>4, <3>5, StaysInStock
      <3> QED BY <3>1, <3>6 DEF CountedTo
    <2>2. CASE walk.open # None
      <3> DEFINE open == walk.open
      <3>1. /\ \E e \in page : e <= i - 1 /\ Tells(e, "OUT_OF_STOCK", open)
            /\ walk.downtime = Cardinality(OutIn(start, open))
            /\ \A e \in page : e <= i - 1 /\ history[e].type = "STOCK_AVAILABLE" => history[e].created_at <= open
        BY <2>2 DEF Counted, CountedToTheOutage
      <3>2. open \in 1 .. now /\ open <= c /\ start <= open
        BY <1>1, <1>4, <3>1 DEF Tells, TellsFrom
      <3>3. open \in Out
        <4>1. open \in SoldOut
          BY <1>1, <3>1 DEF Told, AlertsAreChanges, Tells
        <4> QED BY <4>1 DEF SoldOut, Out
      <3>4. CASE open = c
        BY <3>1, <3>4
      <3>5. CASE open < c
        <4>1. open <= c - 1
          BY <1>1, <3>2, <3>5
        <4>2. PICK m \in Restocked : open < m /\ m <= c - 1
          BY <1>1, <1>3, <3>3, <4>1, ARestockBetween
        <4>3. m \in 1 .. now /\ start <= m /\ m < c
          BY <1>1, <3>2, <4>2 DEF Restocked
        <4>4. PICK e \in page : Tells(e, "STOCK_AVAILABLE", m)
          BY <4>3 DEF TellsFrom
        <4>5. m <= open
          BY <1>4, <3>1, <4>3, <4>4 DEF Tells
        <4> QED BY <3>2, <4>2, <4>3, <4>5
      <3> QED BY <1>1, <3>2, <3>4, <3>5
    <2> QED BY <2>1, <2>2
  <1>6. CountedToTheOutage(page, start, i, next)
    <2>1. i <= i /\ Tells(i, "OUT_OF_STOCK", next.open)
      BY <1>1, <1>2 DEF Tells, c
    <2>2. next.downtime = Cardinality(OutIn(start, next.open))
      BY <1>2, <1>5
    <2> QED BY <1>2, <1>4, <2>1, <2>2 DEF CountedToTheOutage
  <1> QED BY <1>1, <1>2, <1>6 DEF Counted, next

(* A restock on the page closes the open outage, which lasted until then.  *)
LEMMA ARestockCloses ==
    ASSUME Kept, Told, NEW page, NEW start, TellsFrom(page, start),
           NEW i \in page, history[i].type = "STOCK_AVAILABLE",
           NEW walk \in Walks, walk.open # None, Counted(page, start, i - 1, walk)
    PROVE  Counted(page, start, i, Closed(walk, history[i]))
  <1> DEFINE c == history[i].created_at
             next == Closed(walk, history[i])
             open == walk.open
  <1>1. /\ now \in Nat /\ i \in Nat /\ i - 1 \in Nat /\ c \in 1 .. now
        /\ start \in 1 .. now + 1
        /\ page \in SUBSET DOMAIN history
    <2>1. i \in DOMAIN history /\ start \in 1 .. now + 1 /\ page \in SUBSET DOMAIN history
      BY DEF TellsFrom
    <2> QED BY <2>1, HistoryRows
  <1>2. next.open = None /\ next.downtime = walk.downtime + (c - open)
    BY <1>1, WhatARowDoes
  <1>3. c \notin Out
    <2>1. c \in Restocked
      BY <1>1 DEF Told, AlertsAreChanges
    <2> QED BY <2>1 DEF Restocked, Out
  <1>4. \A e \in page : /\ e \in Nat /\ history[e].created_at \in 1 .. now
                        /\ e <= i => history[e].created_at <= c
                        /\ history[e].created_at < c => e <= i - 1
    <2> SUFFICES ASSUME NEW e \in page
                 PROVE  /\ e \in Nat /\ history[e].created_at \in 1 .. now
                        /\ e <= i => history[e].created_at <= c
                        /\ history[e].created_at < c => e <= i - 1
      OBVIOUS
    <2>1. e \in DOMAIN history /\ e \in Nat /\ history[e].created_at \in 1 .. now /\ i \in DOMAIN history
      BY <1>1, HistoryRows
    <2>2. /\ e < i => history[e].created_at <= c
          /\ i < e => c <= history[e].created_at
      BY <2>1 DEF Told, RowsAreInOrder
    <2> QED BY <1>1, <2>1, <2>2
  <1> HIDE DEF c, next
  <1>5. /\ \E e \in page : e <= i - 1 /\ Tells(e, "OUT_OF_STOCK", open)
        /\ walk.downtime = Cardinality(OutIn(start, open))
        /\ \A e \in page : e <= i - 1 /\ history[e].type = "STOCK_AVAILABLE" => history[e].created_at <= open
    BY DEF Counted, CountedToTheOutage
  <1> HIDE DEF open
  <1>6. open \in 1 .. now /\ open <= c /\ start <= open
    BY <1>1, <1>4, <1>5 DEF Tells, TellsFrom
  <1>7. open \in Out
    <2>1. open \in SoldOut
      BY <1>1, <1>5 DEF Told, AlertsAreChanges, Tells
    <2> QED BY <2>1 DEF SoldOut, Out
  <1>8. \A e \in page : history[e].type = "STOCK_AVAILABLE" =>
            ~(open < history[e].created_at /\ history[e].created_at < c)
    <2> SUFFICES ASSUME NEW e \in page, history[e].type = "STOCK_AVAILABLE",
                        open < history[e].created_at, history[e].created_at < c
                 PROVE  FALSE
      OBVIOUS
    <2>1. history[e].created_at <= open
      BY <1>4, <1>5
    <2> QED BY <1>1, <1>4, <1>6, <2>1
  <1>9. Cardinality(OutIn(start, c)) = Cardinality(OutIn(start, open)) + (c - open)
    <2>1. c \in 0 .. now
      BY <1>1
    <2> QED BY <1>1, <1>6, <1>7, <1>8, <2>1, StaysOut
  <1>10. CountedTo(page, start, i, next, c)
    <2>1. c \in start - 1 .. now
      BY <1>1, <1>6
    <2>2. i <= i /\ Tells(i, "STOCK_AVAILABLE", c)
      BY <1>1 DEF Tells, c
    <2> QED BY <1>2, <1>4, <1>5, <1>9, <2>1, <2>2 DEF CountedTo
  <1>11. c \in start - 1 .. now
    BY <1>1, <1>6
  <1> QED BY <1>2, <1>10, <1>11 DEF Counted, next

(* Any other row, on the page or not, leaves the walk as it is.            *)
LEMMA OtherRowsDoNothing ==
    ASSUME Kept, Told, NEW page, NEW start, TellsFrom(page, start), NEW i \in Nat \ {0},
           NEW walk \in Walks, Counted(page, start, i - 1, walk),
           i \in page => /\ history[i].type # "OUT_OF_STOCK"
                         /\ history[i].type = "STOCK_AVAILABLE" => walk.open = None
    PROVE  Counted(page, start, i, walk)
  <1>1. \A e \in page : e \in Nat
    BY HistoryRows DEF TellsFrom
  <1>2. \A e \in page : /\ e <= i - 1 => e <= i
                        /\ e <= i => e <= i - 1 \/ e = i
    BY <1>1
  <1>3. CASE walk.open = None
    <2>1. PICK minute \in start - 1 .. now : CountedTo(page, start, i - 1, walk, minute)
      BY <1>3 DEF Counted
    <2>2. CountedTo(page, start, i, walk, minute)
      BY <1>2, <2>1 DEF CountedTo
    <2> QED BY <1>3, <2>2 DEF Counted
  <1>4. CASE walk.open # None
    <2>1. CountedToTheOutage(page, start, i - 1, walk)
      BY <1>4 DEF Counted
    <2>2. CountedToTheOutage(page, start, i, walk)
      BY <1>2, <1>4, <2>1 DEF CountedToTheOutage
    <2> QED BY <1>4, <2>2 DEF Counted
  <1> QED BY <1>3, <1>4

LEMMA CountedStep ==
    ASSUME Kept, Told, NEW page, NEW start, TellsFrom(page, start), NEW i \in 1 .. Len(history),
           NEW walk \in Walks, Counted(page, start, i - 1, walk)
    PROVE  Counted(page, start, i, Step(page, walk, i))
  <1>1. i \in Nat \ {0}
    BY HistoryRows
  <1>2. CASE i \in page /\ history[i].type = "OUT_OF_STOCK"
    <2>1. Step(page, walk, i) = Opened(walk, history[i])
      BY <1>2 DEF Step, Walk
    <2> QED BY <1>2, <2>1, ASellOutOpens
  <1>3. CASE i \in page /\ history[i].type = "STOCK_AVAILABLE" /\ walk.open # None
    <2>1. Step(page, walk, i) = Closed(walk, history[i])
      BY <1>3 DEF Step, Walk
    <2> QED BY <1>3, <2>1, ARestockCloses
  <1>4. CASE i \in page => /\ history[i].type # "OUT_OF_STOCK"
                           /\ history[i].type = "STOCK_AVAILABLE" => walk.open = None
    <2>1. Step(page, walk, i) = walk
      BY <1>4 DEF Step, Walk
    <2> QED BY <1>1, <1>4, <2>1, OtherRowsDoNothing
  <1> QED BY <1>2, <1>3, <1>4

LEMMA AlwaysCounted ==
    ASSUME Kept, Told, NEW page, NEW start, TellsFrom(page, start), NEW i \in 0 .. Len(history)
    PROVE  Counted(page, start, i, Walked(page)[i])
  <1> DEFINE N == Len(history)
             S == {n \in Nat : n <= N => Counted(page, start, n, Walked(page)[n])}
  <1>1. N \in Nat
    BY HistoryRows
  <1>2. /\ Walked(page)[0] = Start
        /\ \A n \in 1 .. N : Walked(page)[n] = Step(page, Walked(page)[n - 1], n)
    BY <1>1, WalkedRows
  <1>3. \A n \in 0 .. N : Walked(page)[n] \in Walks
    BY WalksAreTyped
  <1>4. 0 \in S
    BY <1>2, CountedAtFirst
  <1>5. ASSUME NEW n \in S PROVE n + 1 \in S
    <2> SUFFICES ASSUME n + 1 <= N PROVE Counted(page, start, n + 1, Walked(page)[n + 1])
      OBVIOUS
    <2>1. /\ n + 1 \in 1 .. N /\ (n + 1) - 1 = n /\ n \in 0 .. N
          /\ Counted(page, start, n, Walked(page)[n])
      BY <1>1
    <2>2. Walked(page)[n + 1] = Step(page, Walked(page)[n], n + 1)
      BY <1>2, <2>1
    <2>3. Walked(page)[n] \in Walks
      BY <1>3, <2>1
    <2>4. Counted(page, start, n + 1, Step(page, Walked(page)[n], n + 1))
      BY <2>1, <2>3, CountedStep
    <2> QED BY <2>2, <2>4
  <1>6. \A n \in Nat : n \in S
    <2>1. S \in SUBSET Nat
      OBVIOUS
    <2> HIDE DEF S
    <2> QED BY <1>4, <1>5, <2>1, EveryNatural
  <1>7. i \in Nat /\ i <= N
    BY <1>1
  <1> QED BY <1>6, <1>7

(* At the end, an outage that lasts is counted until now.                  *)
LEMMA TheWholeDowntime ==
    ASSUME Kept, Told, NEW page, NEW start, TellsFrom(page, start)
    PROVE  ComputeAvailabilitySummary(page, now).downtime = Cardinality(OutIn(start, now))
  <1> DEFINE N == Len(history)
             walk == Walked(page)[N]
             whole == UntilTheEnd(walk, now)
  <1>1. now \in Nat /\ N \in Nat /\ N \in 0 .. N /\ now \in 0 .. now /\ start \in 1 .. now + 1
    BY HistoryRows DEF TellsFrom
  <1>2. \A e \in page : e <= N /\ history[e].created_at \in 1 .. now /\ e \in DOMAIN history
    BY HistoryRows DEF TellsFrom
  <1>3. walk \in Walks /\ Counted(page, start, N, walk)
    BY <1>1, WalksAreTyped, AlwaysCounted
  <1>4. ComputeAvailabilitySummary(page, now).downtime = whole.downtime
    BY DEF ComputeAvailabilitySummary
  <1> HIDE DEF walk, N
  <1>5. CASE walk.open = None
    <2>1. PICK minute \in start - 1 .. now : CountedTo(page, start, N, walk, minute)
      BY <1>3, <1>5 DEF Counted
    <2>2. minute < now => minute \notin Out
      BY <1>1, <2>1, InStockWhenCounted
    <2>3. \A e \in page : history[e].type = "OUT_OF_STOCK" =>
              ~(minute < history[e].created_at /\ history[e].created_at < now)
      <3> SUFFICES ASSUME NEW e \in page, history[e].type = "OUT_OF_STOCK",
                          minute < history[e].created_at
                   PROVE  FALSE
        OBVIOUS
      <3>1. history[e].created_at <= minute
        BY <1>2, <2>1 DEF CountedTo
      <3> QED BY <1>1, <1>2, <3>1
    <2>4. OutIn(start, now) = OutIn(start, minute)
      BY <1>1, <2>2, <2>3, StaysInStock
    <2>5. whole = walk
      BY <1>5 DEF UntilTheEnd
    <2> QED BY <1>4, <2>1, <2>4, <2>5 DEF CountedTo
  <1>6. CASE walk.open # None
    <2> DEFINE open == walk.open
               last == [created_at |-> now]
    <2>1. /\ \E e \in page : e <= N /\ Tells(e, "OUT_OF_STOCK", open)
          /\ walk.downtime = Cardinality(OutIn(start, open))
          /\ \A e \in page : e <= N /\ history[e].type = "STOCK_AVAILABLE" => history[e].created_at <= open
      BY <1>3, <1>6 DEF Counted, CountedToTheOutage
    <2>2. open \in 1 .. now /\ start <= open
      BY <1>1, <1>2, <2>1 DEF Tells, TellsFrom
    <2>3. open \in Out
      <3>1. open \in SoldOut
        BY <1>2, <2>1 DEF Told, AlertsAreChanges, Tells
      <3> QED BY <3>1 DEF SoldOut, Out
    <2>4. \A e \in page : history[e].type = "STOCK_AVAILABLE" =>
              ~(open < history[e].created_at /\ history[e].created_at < now)
      <3> SUFFICES ASSUME NEW e \in page, history[e].type = "STOCK_AVAILABLE",
                          open < history[e].created_at
                   PROVE  FALSE
        OBVIOUS
      <3>1. history[e].created_at <= open
        BY <1>2, <2>1
      <3> QED BY <1>1, <1>2, <2>2, <3>1
    <2>5. Cardinality(OutIn(start, now)) = Cardinality(OutIn(start, open)) + (now - open)
      BY <1>1, <2>2, <2>3, <2>4, StaysOut
    <2>6. whole = Closed(walk, last)
      BY <1>6 DEF UntilTheEnd
    <2>7. whole.downtime = walk.downtime + (now - open)
      <3>1. last.created_at = now
        OBVIOUS
      <3> HIDE DEF last, whole
      <3> QED BY <1>1, <1>3, <2>6, <3>1, WhatARowDoes
    <2> QED BY <1>4, <2>1, <2>5, <2>7
  <1> QED BY <1>5, <1>6

-----------------------------------------------------------------------------
(* The pages that the query may return.                                    *)
LEMMA PagesAreOfThePeriod ==
    ASSUME NEW limit, NEW start, NEW page \in ListForWatchTarget(limit, start)
    PROVE  page \in SUBSET EventsSince(start)
  BY DEF ListForWatchTarget, EventsSince

(* A period with no more events than the limit is shown whole.             *)
LEMMA ShortPeriodsAreShownWhole ==
    ASSUME history \in Seq(EventRows), NEW limit \in Nat, NEW start \in Nat,
           Cardinality(EventsSince(start)) <= limit,
           NEW page \in ListForWatchTarget(limit, start)
    PROVE  page = EventsSince(start)
  <1> DEFINE rows == {i \in DOMAIN history : history[i].created_at >= start}
             After(i) == {j \in rows : history[j].created_at > history[i].created_at}
             Beside(i) == {j \in rows : history[j].created_at = history[i].created_at}
             certain == {i \in rows : Cardinality(After(i)) + Cardinality(Beside(i)) <= limit}
             onTheCut == {i \in rows \ certain : Cardinality(After(i)) < limit}
  <1>1. \E chosen \in SUBSET onTheCut : page = certain \union chosen
    BY DEF ListForWatchTarget
  <1>2. rows = EventsSince(start) /\ IsFiniteSet(rows) /\ Cardinality(rows) \in Nat
    <2>1. DOMAIN history = 1 .. Len(history) /\ Len(history) \in Nat
      BY LenProperties
    <2>2. IsFiniteSet(1 .. Len(history))
      BY <2>1, FS_Interval
    <2>3. rows \in SUBSET (1 .. Len(history))
      BY <2>1
    <2>4. rows = EventsSince(start)
      BY DEF EventsSince
    <2> HIDE DEF rows
    <2> QED BY <2>1, <2>2, <2>3, <2>4, FS_Subset, FS_CardinalityType
  <1>3. \A j \in rows : history[j].created_at \in Nat
    <2> TAKE j \in rows
    <2>1. j \in 1 .. Len(history)
      BY LenProperties
    <2>2. history[j] \in EventRows
      BY <2>1, ElementOfSeq
    <2> QED BY <2>2 DEF EventRows
  <1>4. ASSUME NEW k \in rows PROVE Cardinality(After(k)) + Cardinality(Beside(k)) <= limit
    <2>1. /\ After(k) \in SUBSET rows /\ Beside(k) \in SUBSET rows
          /\ After(k) \cup Beside(k) \in SUBSET rows /\ After(k) \cap Beside(k) = {}
      BY <1>3
    <2> HIDE DEF After, Beside, rows
    <2>2. /\ IsFiniteSet(After(k)) /\ IsFiniteSet(Beside(k))
          /\ Cardinality(After(k)) \in Nat /\ Cardinality(Beside(k)) \in Nat
      BY <1>2, <2>1, FS_Subset, FS_CardinalityType
    <2>3. Cardinality(After(k) \cup Beside(k))
            = Cardinality(After(k)) + Cardinality(Beside(k)) - Cardinality(After(k) \cap Beside(k))
      BY <2>2, FS_Union
    <2>4. Cardinality(After(k) \cap Beside(k)) = 0
      BY <2>1, FS_EmptySet
    <2>5. Cardinality(After(k) \cup Beside(k)) <= Cardinality(rows)
      BY <1>2, <2>1, FS_Subset
    <2>6. Cardinality(rows) <= limit
      BY <1>2
    <2> QED BY <1>2, <2>2, <2>3, <2>4, <2>5, <2>6
  <1>5. certain = rows /\ onTheCut = {}
    <2>1. certain = rows
      BY <1>4
    <2> QED BY <2>1
  <1> QED BY <1>1, <1>2, <1>5

(* A page shows what is newer than what it shows: from the first sell-out  *)
(* on it, it tells all changes.                                            *)
LEMMA PagesTellFromASellOut ==
    ASSUME Kept, Told, NEW start \in Nat, start <= now, NEW page \in ListForWatchTarget(Limit, start)
    PROVE  \E first \in start .. now + 1 : TellsFrom(page, first)
  <1> DEFINE S == {history[e].created_at : e \in {i \in page : history[i].type = "OUT_OF_STOCK"}}
  <1>1. /\ now \in Nat /\ history \in Seq(EventRows)
        /\ \A e \in DOMAIN history : history[e].created_at \in 1 .. now
    BY HistoryRows DEF Kept, RowsAreTyped
  <1>2. /\ page \in SUBSET DOMAIN history
        /\ \A i \in page : history[i].created_at >= start
        /\ \A i \in page : \A k \in DOMAIN history :
              /\ history[k].created_at >= start
              /\ history[i].created_at < history[k].created_at
              => k \in page
    BY <1>1, PagesAreCutByTime, PagesAreOfThePeriod, AnalyticsAssumption DEF EventsSince
  <1>3. CASE S = {}
    <2>1. \A e \in page : history[e].type # "OUT_OF_STOCK"
      BY <1>3
    <2>2. \A minute \in SoldOut \cup Restocked : ~(now + 1 <= minute)
      BY <1>1 DEF SoldOut, Restocked
    <2>3. now + 1 \in 1 .. now + 1 /\ ~(now + 1 <= now)
      BY <1>1
    <2>4. TellsFrom(page, now + 1)
      BY <1>2, <2>1, <2>2, <2>3 DEF TellsFrom
    <2>5. now + 1 \in start .. now + 1
      BY <1>1
    <2> QED BY <2>4, <2>5
  <1>4. CASE S # {}
    <2>1. S \in SUBSET Nat
      BY <1>1, <1>2
    <2>2. PICK first \in S : \A n \in S : first <= n
      <3> HIDE DEF S
      <3> QED BY <1>4, <2>1, LeastNatural
    <2>3. PICK i \in page : history[i].type = "OUT_OF_STOCK" /\ history[i].created_at = first
      OBVIOUS
    <2>4. \A e \in page : history[e].type = "OUT_OF_STOCK" => first <= history[e].created_at
      BY <2>2
    <2>5. first \in 1 .. now /\ start <= first
      BY <1>1, <1>2, <2>3
    <2>6. first \in SoldOut
      BY <1>2, <2>3 DEF Told, AlertsAreChanges
    <2>7. first - 1 \notin Out /\ first \in Out
      BY <1>1, <2>6 DEF SoldOut, Out
    <2> HIDE DEF S
    <2>8. ASSUME NEW k \in DOMAIN history, first < history[k].created_at PROVE k \in page
      BY <1>1, <1>2, <2>3, <2>5, <2>8
    <2>9. ASSUME NEW minute \in SoldOut, first <= minute
          PROVE  \E e \in page : Tells(e, "OUT_OF_STOCK", minute)
      <3>1. CASE minute = first
        BY <2>3, <3>1 DEF Tells
      <3>2. CASE minute # first
        <4>1. PICK e \in DOMAIN history : Tells(e, "OUT_OF_STOCK", minute)
          BY DEF Told, ChangesAreAlerts
        <4>2. first < minute
          BY <1>1, <2>5, <2>9, <3>2 DEF SoldOut
        <4> QED BY <2>8, <4>1, <4>2 DEF Tells
      <3> QED BY <3>1, <3>2
    <2>10. ASSUME NEW minute \in Restocked, first <= minute
           PROVE  \E e \in page : Tells(e, "STOCK_AVAILABLE", minute)
      <3>1. PICK e \in DOMAIN history : Tells(e, "STOCK_AVAILABLE", minute)
        BY DEF Told, ChangesAreAlerts
      <3>2. minute # first
        BY <2>7 DEF Restocked, Out
      <3>3. first < minute
        BY <1>1, <2>5, <2>10, <3>2 DEF Restocked
      <3> QED BY <2>8, <3>1, <3>3 DEF Tells
    <2>11. first \in 1 .. now + 1 /\ first \in start .. now + 1
      BY <1>1, <2>5
    <2>12. TellsFrom(page, first)
      BY <1>2, <2>4, <2>7, <2>9, <2>10, <2>11 DEF TellsFrom
    <2> QED BY <2>11, <2>12
  <1> QED BY <1>3, <1>4

LEMMA NeverOverstated == Kept /\ Told => DowntimeIsNeverOverstated
  <1> SUFFICES ASSUME Kept, Told, NEW length \in 1 .. now,
                      NEW page \in ListForWatchTarget(Limit, now - length)
               PROVE  ComputeAvailabilitySummary(page, now).downtime
                        <= Cardinality(OutIn(now - length, now))
    BY DEF DowntimeIsNeverOverstated, AvailabilitySummary
  <1> DEFINE start == now - length
  <1>1. now \in Nat /\ start \in Nat /\ start <= now
    BY HistoryRows
  <1> HIDE DEF start
  <1>2. PICK first \in start .. now + 1 : TellsFrom(page, first)
    BY <1>1, PagesTellFromASellOut DEF start
  <1>3. ComputeAvailabilitySummary(page, now).downtime = Cardinality(OutIn(first, now))
    BY <1>2, TheWholeDowntime
  <1>4. /\ IsFiniteSet(OutIn(start, now)) /\ Cardinality(OutIn(start, now)) \in Nat
        /\ Cardinality(OutIn(first, now)) \in Nat
    <2>1. start \in Int /\ first \in Int /\ now \in Int
      BY <1>1, <1>2
    <2> QED BY <1>1, <2>1, MinutesOut
  <1>5. OutIn(first, now) \in SUBSET OutIn(start, now)
    <2>1. \A m \in Out : m \in Nat /\ (first <= m => start <= m)
      BY <1>1, <1>2 DEF Out
    <2> QED BY <2>1 DEF OutIn
  <1>6. Cardinality(OutIn(first, now)) <= Cardinality(OutIn(start, now))
    BY <1>4, <1>5, FS_Subset
  <1> QED BY <1>3, <1>6 DEF start

-----------------------------------------------------------------------------
(* The outages and the restocks of a period shown whole.                   *)
RestocksOn(page, i) == {e \in page : e <= i /\ history[e].type = "STOCK_AVAILABLE"}

(* Every restock on the page closes an outage.                             *)
LEMMA RestocksFindAnOutage ==
    ASSUME Kept, Told, NEW page, NEW start, TellsFrom(page, start),
           NEW i \in page, history[i].type = "STOCK_AVAILABLE", start <= history[i].created_at,
           NEW walk \in Walks, Counted(page, start, i - 1, walk)
    PROVE  walk.open # None
  <1> SUFFICES ASSUME walk.open = None PROVE FALSE
    OBVIOUS
  <1> DEFINE c == history[i].created_at
  <1>1. /\ now \in Nat /\ i \in Nat /\ i - 1 \in Nat /\ c \in 1 .. now
        /\ start \in 1 .. now + 1
        /\ page \in SUBSET DOMAIN history /\ i \in DOMAIN history
        /\ \A e \in page : e \in Nat /\ history[e].created_at \in 1 .. now
    <2>1. i \in DOMAIN history /\ start \in 1 .. now + 1 /\ page \in SUBSET DOMAIN history
      BY DEF TellsFrom
    <2> QED BY <2>1, HistoryRows
  <1>2. PICK minute \in start - 1 .. now : CountedTo(page, start, i - 1, walk, minute)
    BY DEF Counted
  <1>3. minute < c
    <2>1. CASE minute = start - 1
      BY <1>1, <2>1
    <2>2. ASSUME NEW e \in page, e <= i - 1, Tells(e, "STOCK_AVAILABLE", minute)
          PROVE  minute < c
      <3>1. e \in DOMAIN history /\ e < i /\ e # i
        BY <1>1, <2>2
      <3>2. history[e].created_at <= c
        BY <1>1, <3>1 DEF Told, RowsAreInOrder
      <3>3. history[e].created_at # c
        BY <1>1, <2>2, <3>1 DEF Told, EventsAreToldOnce, Tells
      <3> QED BY <1>1, <2>2, <3>2, <3>3 DEF Tells
    <2> QED BY <1>2, <2>1, <2>2 DEF CountedTo
  <1>4. c - 1 \in Out
    <2>1. c \in Restocked
      BY <1>1 DEF Told, AlertsAreChanges
    <2> QED BY <1>1, <2>1 DEF Restocked, Out
  <1>5. minute \notin Out /\ minute \in 0 .. now /\ minute <= c - 1
    <2>1. minute < now => minute \notin Out
      BY <1>1, <1>2, InStockWhenCounted
    <2> QED BY <1>1, <1>2, <1>3, <2>1
  <1>6. PICK k \in SoldOut : minute < k /\ k <= c - 1
    BY <1>1, <1>4, <1>5, ASellOutBetween
  <1>7. k \in 1 .. now /\ start <= k
    BY <1>1, <1>2, <1>6 DEF SoldOut
  <1>8. PICK e \in page : Tells(e, "OUT_OF_STOCK", k)
    BY <1>7 DEF TellsFrom
  <1>9. history[e].created_at = k /\ k < c
    BY <1>1, <1>6, <1>7, <1>8 DEF Tells
  <1>10. ~(i < e) /\ e # i
    <2>1. i < e => c <= history[e].created_at
      BY <1>1 DEF Told, RowsAreInOrder
    <2> QED BY <1>1, <1>7, <1>9, <2>1
  <1>11. e <= i - 1
    BY <1>1, <1>10
  <1>12. k <= minute
    BY <1>2, <1>8, <1>11 DEF CountedTo, Tells
  <1> QED BY <1>1, <1>2, <1>6, <1>7, <1>12

LEMMA RestocksAreFinite ==
    ASSUME Kept, Told, NEW page \in SUBSET DOMAIN history, NEW i
    PROVE  IsFiniteSet(RestocksOn(page, i)) /\ Cardinality(RestocksOn(page, i)) \in Nat
  <1>1. IsFiniteSet(DOMAIN history)
    BY HistoryRows, FS_Interval
  <1>2. RestocksOn(page, i) \in SUBSET DOMAIN history
    BY DEF RestocksOn
  <1> QED BY <1>1, <1>2, FS_Subset, FS_CardinalityType

LEMMA OutagesAreRestocks ==
    ASSUME Kept, Told, NEW page, NEW start, TellsFrom(page, start),
           \A e \in page : start <= history[e].created_at, NEW i \in 0 .. Len(history)
    PROVE  Walked(page)[i].outages = Cardinality(RestocksOn(page, i))
  <1> DEFINE N == Len(history)
             Agree(n) == Walked(page)[n].outages = Cardinality(RestocksOn(page, n))
             S == {n \in Nat : n <= N => Agree(n)}
  <1>1. N \in Nat /\ DOMAIN history = 1 .. N /\ page \in SUBSET DOMAIN history
    BY HistoryRows DEF TellsFrom
  <1>2. /\ Walked(page)[0] = Start
        /\ \A n \in 1 .. N : Walked(page)[n] = Step(page, Walked(page)[n - 1], n)
    BY <1>1, WalkedRows
  <1>3. \A n \in 0 .. N : Walked(page)[n] \in Walks /\ Counted(page, start, n, Walked(page)[n])
    BY WalksAreTyped, AlwaysCounted
  <1>4. 0 \in S
    <2>1. \A e \in page : ~(e <= 0)
      BY <1>1
    <2>2. RestocksOn(page, 0) = {}
      BY <2>1 DEF RestocksOn
    <2> QED BY <1>2, <2>2, FS_EmptySet, TheStart
  <1>5. ASSUME NEW n \in S PROVE n + 1 \in S
    <2> SUFFICES ASSUME n + 1 <= N PROVE Agree(n + 1)
      OBVIOUS
    <2> DEFINE next == n + 1
               walk == Walked(page)[n]
    <2>1. /\ n \in Nat /\ next \in 1 .. N /\ next - 1 = n /\ n \in 0 .. N
          /\ walk.outages = Cardinality(RestocksOn(page, n))
      BY <1>1
    <2>2. Walked(page)[next] = Step(page, walk, next)
      BY <1>2, <2>1
    <2>3. walk \in Walks /\ Counted(page, start, next - 1, walk)
      BY <1>3, <2>1
    <2>4. history[next].created_at \in Nat
      BY <1>1, <2>1, HistoryRows
    <2>5. /\ IsFiniteSet(RestocksOn(page, n)) /\ Cardinality(RestocksOn(page, n)) \in Nat
          /\ next \notin RestocksOn(page, n)
      <3>1. IsFiniteSet(RestocksOn(page, n)) /\ Cardinality(RestocksOn(page, n)) \in Nat
        BY <1>1, RestocksAreFinite
      <3>2. next \notin RestocksOn(page, n)
        BY <2>1 DEF RestocksOn
      <3> QED BY <3>1, <3>2
    <2>6. CASE next \in page /\ history[next].type = "STOCK_AVAILABLE"
      <3>1. walk.open # None
        BY <2>3, <2>6, RestocksFindAnOutage
      <3>2. Step(page, walk, next) = Closed(walk, history[next])
        BY <2>6, <3>1 DEF Step, Walk
      <3>3. Closed(walk, history[next]).outages = walk.outages + 1
        BY <2>3, <2>4, WhatARowDoes
      <3>4. RestocksOn(page, next) = RestocksOn(page, n) \cup {next}
        <4>1. \A e \in page : e <= next <=> e <= n \/ e = next
          BY <1>1, <2>1
        <4> QED BY <2>6, <4>1 DEF RestocksOn
      <3>5. Cardinality(RestocksOn(page, n) \cup {next}) = Cardinality(RestocksOn(page, n)) + 1
        BY <2>5, FS_AddElement
      <3> QED BY <2>1, <2>2, <3>2, <3>3, <3>4, <3>5
    <2>7. CASE ~(next \in page /\ history[next].type = "STOCK_AVAILABLE")
      <3>1. Step(page, walk, next).outages = walk.outages
        <4>1. CASE next \in page /\ history[next].type = "OUT_OF_STOCK"
          <5>1. Step(page, walk, next) = Opened(walk, history[next])
            BY <4>1 DEF Step, Walk
          <5> QED BY <2>3, <2>4, <5>1, WhatARowDoes
        <4>2. CASE ~(next \in page /\ history[next].type = "OUT_OF_STOCK")
          BY <2>7, <4>2 DEF Step, Walk
        <4> QED BY <4>1, <4>2
      <3>2. RestocksOn(page, next) = RestocksOn(page, n)
        <4>1. \A e \in page : e <= next <=> e <= n \/ e = next
          BY <1>1, <2>1
        <4> QED BY <2>7, <4>1 DEF RestocksOn
      <3> QED BY <2>1, <2>2, <3>1, <3>2
    <2> QED BY <2>6, <2>7
  <1>6. \A n \in Nat : n \in S
    <2>1. S \in SUBSET Nat
      OBVIOUS
    <2> HIDE DEF S
    <2> QED BY <1>4, <1>5, <2>1, EveryNatural
  <1>7. i \in Nat /\ i <= N
    BY <1>1
  <1> QED BY <1>6, <1>7

(* There is one restock on the page for each restock of the shelf.         *)
LEMMA RestocksOfThePeriod ==
    ASSUME Kept, Told, NEW page, NEW start, TellsFrom(page, start),
           \A e \in page : start <= history[e].created_at
    PROVE  Cardinality({i \in page : history[i].type = "STOCK_AVAILABLE"})
             = Cardinality(RestocksIn(start, now))
  <1> DEFINE alerts == {i \in page : history[i].type = "STOCK_AVAILABLE"}
             restocks == RestocksIn(start, now)
             minuteOf == [i \in alerts |-> history[i].created_at]
  <1>1. /\ now \in Nat /\ start \in 1 .. now + 1 /\ page \in SUBSET DOMAIN history
        /\ DOMAIN history = 1 .. Len(history) /\ Len(history) \in Nat
    BY HistoryRows DEF TellsFrom
  <1>2. restocks = {m \in Restocked : start <= m}
    <2>1. ASSUME NEW m \in start .. now
          PROVE  m \in Restocked <=> m - 1 \in Out /\ m \notin Out
      <3>1. m \in 1 .. now /\ m - 1 \in 0 .. now /\ m \in 0 .. now
        BY <1>1
      <3> QED BY <3>1 DEF Restocked, Out
    <2>2. \A m \in Restocked : start <= m => m \in start .. now
      BY <1>1 DEF Restocked
    <2>3. \A m \in start .. now : start <= m /\ m > 0
      BY <1>1
    <2> QED BY <2>1, <2>2, <2>3 DEF RestocksIn
  <1>3. IsFiniteSet(alerts)
    <2>1. IsFiniteSet(1 .. Len(history))
      BY <1>1, FS_Interval
    <2>2. alerts \in SUBSET (1 .. Len(history))
      BY <1>1
    <2> HIDE DEF alerts
    <2> QED BY <2>1, <2>2, FS_Subset
  <1>4. minuteOf \in [alerts -> restocks]
    <2>1. \A i \in alerts : history[i].created_at \in Restocked /\ start <= history[i].created_at
      BY <1>1 DEF Told, AlertsAreChanges
    <2> HIDE DEF restocks
    <2> QED BY <1>2, <2>1
  <1>5. \A i, j \in alerts : minuteOf[i] = minuteOf[j] => i = j
    BY <1>1 DEF Told, EventsAreToldOnce
  <1>6. \A m \in restocks : \E i \in alerts : minuteOf[i] = m
    <2> TAKE m \in restocks
    <2>1. PICK i \in page : Tells(i, "STOCK_AVAILABLE", m)
      BY <1>2 DEF TellsFrom
    <2> QED BY <2>1 DEF Tells
  <1>7. minuteOf \in Bijection(alerts, restocks)
    <2> HIDE DEF minuteOf, alerts, restocks
    <2> QED BY <1>4, <1>5, <1>6 DEF Bijection, Injection, Surjection, IsInjective
  <1>8. Cardinality(restocks) = Cardinality(alerts)
    <2>1. ExistsBijection(alerts, restocks)
      <3> HIDE DEF minuteOf, alerts, restocks
      <3> QED BY <1>7 DEF ExistsBijection
    <2> HIDE DEF alerts, restocks
    <2> QED BY <1>3, <2>1, FS_Bijection
  <1> QED BY <1>8

LEMMA Exact == Kept /\ Told => DowntimeIsExact
  <1> SUFFICES ASSUME Kept, Told, NEW length \in 1 .. now,
                      now - length > 0, (now - length) - 1 \notin Out,
                      Cardinality(EventsSince(now - length)) <= Limit,
                      NEW page \in ListForWatchTarget(Limit, now - length)
               PROVE  LET summary == ComputeAvailabilitySummary(page, now)
                      IN  /\ summary.downtime = Cardinality(OutIn(now - length, now))
                          /\ summary.restocks = Cardinality(RestocksIn(now - length, now))
                          /\ summary.outages - summary.restocks \in {0, 1}
    BY DEF DowntimeIsExact, AvailabilitySummary
  <1> DEFINE start == now - length
             N == Len(history)
             walk == Walked(page)[N]
             whole == UntilTheEnd(walk, now)
             summary == ComputeAvailabilitySummary(page, now)
             alerts == {i \in page : history[i].type = "STOCK_AVAILABLE"}
  <1>1. now \in Nat /\ start \in Nat /\ start \in 1 .. now + 1 /\ N \in Nat /\ N \in 0 .. N
    BY HistoryRows
  <1>2. page = EventsSince(start)
    BY <1>1, ShortPeriodsAreShownWhole, AnalyticsAssumption DEF Kept, RowsAreTyped
  <1>3. /\ page \in SUBSET DOMAIN history
        /\ \A e \in page : start <= history[e].created_at
        /\ \A e \in DOMAIN history : start <= history[e].created_at => e \in page
    <2>1. \A e \in DOMAIN history : history[e].created_at \in Nat
      BY HistoryRows
    <2> QED BY <1>1, <1>2, <2>1 DEF EventsSince
  <1>4. TellsFrom(page, start)
    <2>1. ASSUME NEW minute \in SoldOut, start <= minute
          PROVE  \E e \in page : Tells(e, "OUT_OF_STOCK", minute)
      BY <1>3, <2>1 DEF Told, ChangesAreAlerts, Tells
    <2>2. ASSUME NEW minute \in Restocked, start <= minute
          PROVE  \E e \in page : Tells(e, "STOCK_AVAILABLE", minute)
      BY <1>3, <2>2 DEF Told, ChangesAreAlerts, Tells
    <2> QED BY <1>1, <1>3, <2>1, <2>2 DEF TellsFrom
  <1>5. /\ summary.downtime = whole.downtime
        /\ summary.outages = whole.outages
        /\ summary.restocks = Cardinality(alerts)
    BY DEF ComputeAvailabilitySummary
  <1>6. summary.downtime = Cardinality(OutIn(start, now))
    BY <1>4, TheWholeDowntime
  <1>7. summary.restocks = Cardinality(RestocksIn(start, now))
    BY <1>3, <1>4, <1>5, RestocksOfThePeriod
  <1>8. walk \in Walks /\ walk.outages = Cardinality(alerts) /\ Cardinality(alerts) \in Nat
    <2>1. walk \in Walks /\ walk.outages = Cardinality(RestocksOn(page, N))
      BY <1>1, <1>3, <1>4, WalksAreTyped, OutagesAreRestocks
    <2>2. RestocksOn(page, N) = alerts
      BY <1>3, HistoryRows DEF RestocksOn
    <2>3. Cardinality(RestocksOn(page, N)) \in Nat
      BY <1>3, RestocksAreFinite
    <2> HIDE DEF walk, alerts
    <2> QED BY <2>1, <2>2, <2>3
  <1>9. whole.outages \in {walk.outages, walk.outages + 1}
    <2> DEFINE last == [created_at |-> now]
    <2>1. last.created_at \in Nat
      BY <1>1
    <2>2. whole = walk \/ whole = Closed(walk, last)
      BY DEF UntilTheEnd
    <2> HIDE DEF walk, last, whole
    <2>3. Closed(walk, last).outages = walk.outages + 1
      BY <1>8, <2>1, WhatARowDoes
    <2> QED BY <2>2, <2>3
  <1>10. summary.outages - summary.restocks \in {0, 1}
    <2> HIDE DEF walk, whole, summary, alerts
    <2> QED BY <1>5, <1>8, <1>9
  <1> QED BY <1>6, <1>7, <1>10

(* What is always true of the rows: they are kept, and they tell the       *)
(* changes of the shelf.                                                   *)
LEMMA AlwaysTold == StreamSpec => [](Kept /\ Told)
<1> QED BY KeptInit, KeptStep, ToldInit, ToldNext, StreamChecks, TypeCorrect, BaselineDriftIsBounded,
           PTL DEF StreamSpec

(* The availability summary of a period that begins with the product in    *)
(* stock, and whose events fit into the limit, is exact: the minutes out   *)
(* of stock, the outages and the restocks, over any number of checks.      *)
THEOREM DowntimeIsAlwaysExact == StreamSpec => []DowntimeIsExact
<1> QED BY AlwaysTold, Exact, PTL

(* Any other summary misses outages, but never calls a minute in stock     *)
(* downtime, wherever the period begins and the limit cuts.                *)
THEOREM DowntimeIsNeverTooLong == StreamSpec => []DowntimeIsNeverOverstated
<1> QED BY AlwaysTold, NeverOverstated, PTL
=============================================================================
