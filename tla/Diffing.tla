------------------------------ MODULE Diffing ------------------------------
(***************************************************************************)
(* backend/app/application/diffing.py: which events a fresh scrape fires   *)
(* against the stored snapshot of the same watch target.                   *)
(*                                                                         *)
(* The function is pure.  Its result is a list whose order is fixed by the *)
(* order of the tests in the code, so it is modelled as the SET of event   *)
(* types fired together with Rank, the place of each type in that order.   *)
(***************************************************************************)
EXTENDS Naturals

(* Stands for previous = None: the target has no stored snapshot yet.      *)
CONSTANT NoSnapshot

Availability == {"AVAILABLE", "LOW_STOCK", "OUT_OF_STOCK"}

EventTypes == {"STOCK_AVAILABLE", "OUT_OF_STOCK", "LOW_STOCK", "PRICE_CHANGED",
               "NEW_VARIANT", "ETA_CHANGED", "STORE_CHANGED"}

(* The part of a scraped product, and of a snapshot, that diffing reads.   *)
Observation(prices, variants, etas, stores) ==
    [availability : Availability, price : prices, variants : SUBSET variants,
     eta : etas, store : stores]

(* "In stock" as diffing.py groups the availabilities in its first two     *)
(* tests.                                                                  *)
InStock(observation) == observation.availability \in {"AVAILABLE", "LOW_STOCK"}

PreviousAvailability(previous) ==
    IF previous = NoSnapshot THEN "OUT_OF_STOCK" ELSE previous.availability

AvailabilityEventsForgetLow(previous, current) ==   \* mutant: a low stock cannot sell out
    LET before == PreviousAvailability(previous)
        now    == current.availability
    IN  {type \in {"STOCK_AVAILABLE"} : before = "OUT_OF_STOCK" /\ InStock(current)}
        \cup {type \in {"OUT_OF_STOCK"} : before = "AVAILABLE" /\ now = "OUT_OF_STOCK"}
        \cup {type \in {"LOW_STOCK"} : before = "AVAILABLE" /\ now = "LOW_STOCK"}

(* The if / elif / elif chain: at most one of the three fires.             *)
AvailabilityEvents(previous, current) ==
    LET before == PreviousAvailability(previous)
        now    == current.availability
    IN  {type \in {"STOCK_AVAILABLE"} : before = "OUT_OF_STOCK" /\ InStock(current)}
        \cup {type \in {"OUT_OF_STOCK"} : before # "OUT_OF_STOCK" /\ now = "OUT_OF_STOCK"}
        \cup {type \in {"LOW_STOCK"} : before = "AVAILABLE" /\ now = "LOW_STOCK"}

FieldEvents(previous, current) ==
    {type \in {"PRICE_CHANGED"} : previous.price # current.price}
    \cup {type \in {"NEW_VARIANT"} : current.variants \ previous.variants # {}}
    \cup {type \in {"ETA_CHANGED"} : previous.eta # current.eta}
    \cup {type \in {"STORE_CHANGED"} : previous.store # current.store}

DiffSnapshots(previous, current) ==
    AvailabilityEvents(previous, current)
    \cup IF previous = NoSnapshot THEN {} ELSE FieldEvents(previous, current)

(* Position of an event type in the list the code returns; the three       *)
(* availability events exclude one another and share the first place.      *)
Rank(type) ==
    CASE type \in {"STOCK_AVAILABLE", "OUT_OF_STOCK", "LOW_STOCK"} -> 1
      [] type = "PRICE_CHANGED" -> 2
      [] type = "NEW_VARIANT" -> 3
      [] type = "ETA_CHANGED" -> 4
      [] type = "STORE_CHANGED" -> 5
=============================================================================
