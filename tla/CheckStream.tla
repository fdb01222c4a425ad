---------------------------- MODULE CheckStream ----------------------------
(***************************************************************************)
(* The stream of checks of ONE watch target when every check completes:    *)
(* MonitoringService.check_watch_target run again and again, each one      *)
(* diffing the scrape against the latest stored snapshot and storing a new *)
(* snapshot only when an event fired.  Failures and interleavings are in   *)
(* module Monitor; this module asks what the stored baseline and the       *)
(* events are worth over a long sequence of checks.                        *)
(***************************************************************************)
EXTENDS Diffing

CONSTANTS Prices, Variants, Etas, Stores

Observations == Observation(Prices, Variants, Etas, Stores)

ASSUME NoSnapshotAssumption == NoSnapshot \notin Observations

VARIABLES
    stored,  \* the latest Snapshot row, what get_latest returns
    seen,    \* what the last non-empty scrape returned
    fired,   \* the event types the last check fired
    view,    \* what a reader of the events knows of the product
    bell     \* the last STOCK_AVAILABLE / OUT_OF_STOCK event

vars == <<stored, seen, fired, view, bell>>

StockAlerts == {"STOCK_AVAILABLE", "OUT_OF_STOCK"}

TypeOK ==
    /\ stored \in Observations \cup {NoSnapshot}
    /\ seen \in Observations \cup {NoSnapshot}
    /\ fired \in SUBSET EventTypes
    /\ view \in Observations \cup {NoSnapshot}
    /\ bell \in StockAlerts \cup {"none"}

Init ==
    /\ stored = NoSnapshot
    /\ seen = NoSnapshot
    /\ fired = {}
    /\ view = NoSnapshot
    /\ bell = "none"
-----------------------------------------------------------------------------
(* A reader opens, for each event, the snapshot it refers to, and takes    *)
(* from it what the event announces; the first event shows everything.     *)
ReadEvents(known, events, snapshot) ==
    IF events = {} THEN known
    ELSE IF known = NoSnapshot THEN snapshot
    ELSE [availability |-> IF events \cap (StockAlerts \cup {"LOW_STOCK"}) # {}
                           THEN snapshot.availability ELSE known.availability,
          price    |-> IF "PRICE_CHANGED" \in events THEN snapshot.price ELSE known.price,
          variants |-> IF "NEW_VARIANT" \in events THEN snapshot.variants ELSE known.variants,
          eta      |-> IF "ETA_CHANGED" \in events THEN snapshot.eta ELSE known.eta,
          store    |-> IF "STORE_CHANGED" \in events THEN snapshot.store ELSE known.store]

(* The baseline after a check: lines 99-110 store a snapshot only when an  *)
(* event fired.                                                            *)
BaselineOnStockAlert(before, current) ==   \* mutant: only stock alerts store one
    IF DiffSnapshots(before, current) \cap StockAlerts = {} THEN before ELSE current

BaselineAfter(before, current) ==
    IF DiffSnapshots(before, current) = {} THEN before ELSE current

(* A check whose search returned nothing: marked as checked, nothing else. *)
CheckEmpty ==
    /\ fired' = {}
    /\ UNCHANGED <<stored, seen, view, bell>>

(* A check whose search returned current.                                  *)
Check(current) ==
    LET events == DiffSnapshots(stored, current)
    IN  /\ seen' = current
        /\ fired' = events
        /\ stored' = BaselineAfter(stored, current)
        /\ view' = ReadEvents(view, events, current)
        /\ IF events \cap StockAlerts = {} THEN bell' = bell
                                           ELSE bell' \in events \cap StockAlerts

Next == CheckEmpty \/ \E current \in Observations : Check(current)

Spec == Init /\ [][Next]_vars
-----------------------------------------------------------------------------
SeenInStock == seen # NoSnapshot /\ InStock(seen)

(* What the stored baseline may miss of the last scrape, and nothing more: *)
(* a LOW_STOCK that became AVAILABLE, and variants that disappeared        *)
(* (diffing.py compares neither), or, before any snapshot is stored,       *)
(* scrapes that were all out of stock (previous is None returns early).    *)
BaselineDrift ==
    /\ stored = NoSnapshot => ~SeenInStock
    /\ stored # NoSnapshot =>
          /\ seen # NoSnapshot
          /\ stored.price = seen.price
          /\ stored.eta = seen.eta
          /\ stored.store = seen.store
          /\ seen.variants \subseteq stored.variants
          /\ \/ stored.availability = seen.availability
             \/ stored.availability = "LOW_STOCK" /\ seen.availability = "AVAILABLE"

(* Following the events alone gives the right price, delivery time, store  *)
(* and stock state at every moment, over any sequence of checks, although  *)
(* each event announces a single field and the baseline drifts.            *)
ReaderIsRight ==
    /\ view = NoSnapshot => ~SeenInStock
    /\ view # NoSnapshot =>
          /\ seen # NoSnapshot
          /\ InStock(view) = InStock(seen)
          /\ view.price = seen.price
          /\ view.eta = seen.eta
          /\ view.store = seen.store

Feed == INSTANCE StockFeed WITH shelf <- SeenInStock, bell <- bell

(* The checks implement the abstract alert feed: a stock alert at every    *)
(* change of the stock state seen by consecutive checks, and only then.    *)
ImplementsStockFeed == Feed!Spec
=============================================================================
