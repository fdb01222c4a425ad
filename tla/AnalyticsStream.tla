--------------------------- MODULE AnalyticsStream ---------------------------
(***************************************************************************)
(* What the charts of a watch are worth: the price history is read from    *)
(* the snapshots, the history from the events with their snapshots, and    *)
(* the availability summary from the events.  The checks of module         *)
(* CheckStream store a snapshot only when they fire an event, so these     *)
(* rows know of the product only what made an event, and the queries cut   *)
(* them at a period and at a limit.  Here every check takes a minute, its  *)
(* rows are kept, and what the endpoints return is compared with what the  *)
(* checks had seen.                                                        *)
(***************************************************************************)
EXTENDS CheckStream, Sequences, FiniteSets

CONSTANTS
    Limit,     \* events the summary asks for at most: 1000 in the code
    PageSize,  \* events the history asks for at most: 50 in the code
    MaxMinutes \* bound: minutes, with a check in each

ASSUME AnalyticsAssumption == Limit \in Nat /\ PageSize \in Nat /\ MaxMinutes \in Nat

VARIABLES
    now,
    snapshots,  \* the Snapshot rows, by id
    history,    \* the DetectionEvent rows, by id
    shelf       \* what the last non-empty scrape up to each minute had shown

streamVars == <<vars, now, snapshots, history, shelf>>

Glimpse(observation) == [inStock |-> InStock(observation), price |-> observation.price]
Unseen == [inStock |-> FALSE, price |-> 0]

(* SnapshotRepository.create and DetectionEventRepository.create: the      *)
(* snapshot and all its events bear the time of the scrape.                *)
SnapshotRow(observation, minute) ==
    [timestamp |-> minute, inStock |-> InStock(observation), price |-> observation.price]

EventOfThePrevious(type, minute) ==   \* mutant: refers to the snapshot before
    [type |-> type, created_at |-> minute, snapshot_id |-> Len(snapshots)]
Event(type, minute) ==
    [type |-> type, created_at |-> minute, snapshot_id |-> Len(snapshots')]

Before(types, type) == {other \in types : Rank(other) < Rank(type)}

(* The rows of a check's events, in the order of the list.                 *)
Recorded(types, minute) ==
    [i \in 1 .. Cardinality(types) |->
        Event(CHOOSE type \in types : Cardinality(Before(types, type)) = i - 1, minute)]

StreamInit == Init /\ now = 0 /\ snapshots = <<>> /\ history = <<>> /\ shelf = [minute \in {0} |-> Unseen]

Minute ==
    /\ now < MaxMinutes /\ now' = now + 1
    /\ CheckEmpty \/ \E current \in Observations : Check(current)
    /\ snapshots' = IF fired' = {} THEN snapshots ELSE Append(snapshots, SnapshotRow(stored', now'))
    /\ history' = history \o Recorded(fired', now')
    /\ shelf' = [minute \in 0 .. now' |->
                    IF minute \in DOMAIN shelf THEN shelf[minute]
                    ELSE IF seen' = NoSnapshot THEN Unseen ELSE Glimpse(seen')]

StreamSpec == StreamInit /\ [][Minute]_streamVars

------------------------------------------------------------------------------
(* SnapshotRepository.list_since: ids, which are in the order of time.     *)
ListSince(start) == {i \in DOMAIN snapshots : snapshots[i].timestamp >= start}

(* price_history: a point for each snapshot of the period.                 *)
PriceHistory(length) ==
    {[timestamp |-> snapshots[i].timestamp, price |-> snapshots[i].price] : i \in ListSince(now - length)}

(* list_for_watch_target: the newest events since start, at most limit of  *)
(* them.  They are ordered by created_at alone, which is the same for all  *)
(* events of a check, so the database chooses which of them the limit cuts *)
(* off: each of the sets of rows it may return.                            *)
ListForWatchTarget(limit, start) ==
    LET rows      == {i \in DOMAIN history : history[i].created_at >= start}
        After(i)  == {j \in rows : history[j].created_at > history[i].created_at}
        Beside(i) == {j \in rows : history[j].created_at = history[i].created_at}
        certain   == {i \in rows : Cardinality(After(i)) + Cardinality(Beside(i)) <= limit}
        onTheCut  == {i \in rows \ certain : Cardinality(After(i)) < limit}
    IN  {certain \union chosen : chosen \in {c \in SUBSET onTheCut :
            onTheCut # {} => Cardinality(c) = limit - Cardinality(certain)}}

(* SnapshotRepository.get_by_id finds a row, and does not return None.     *)
SnapshotFound(id) == id \in DOMAIN snapshots

(* get_history: each event of the page with its snapshot; an event whose   *)
(* snapshot is not found is skipped.                                       *)
GetHistory ==
    {{[created_at |-> history[i].created_at, type |-> history[i].type,
       snapshot |-> snapshots[history[i].snapshot_id]] :
           i \in {e \in page : SnapshotFound(history[e].snapshot_id)}} :
     page \in ListForWatchTarget(PageSize, 0)}

None == MaxMinutes + 1   \* open_outage_start

Opened(walk, e) == [walk EXCEPT !.open = e.created_at]
StillOpen(walk, e) ==   \* mutant: the outage stays open
    [walk EXCEPT !.downtime = @ + (e.created_at - walk.open), !.outages = @ + 1]
Closed(walk, e) ==
    [walk EXCEPT !.downtime = @ + (e.created_at - walk.open), !.outages = @ + 1, !.open = None]

Walk(walk, e) ==
    IF e.type = "OUT_OF_STOCK" THEN Opened(walk, e)
    ELSE IF e.type = "STOCK_AVAILABLE" /\ walk.open # None THEN Closed(walk, e)
    ELSE walk

EndForgotten(walk, end) == walk   \* mutant: an outage that lasts is not counted
UntilTheEnd(walk, end) == IF walk.open = None THEN walk ELSE Closed(walk, [created_at |-> end])

(* The loop over the events of the page, after each row of the history:    *)
(* the code sorts them by their time, which is that of the rows, and at    *)
(* most one event of a check is read by the walk.                          *)
Walked(page) ==
    LET walk[i \in 0 .. Len(history)] ==
            IF i = 0 THEN [open |-> None, downtime |-> 0, outages |-> 0]
            ELSE IF i \in page THEN Walk(walk[i - 1], history[i])
            ELSE walk[i - 1]
    IN  walk

ComputeAvailabilitySummary(page, end) ==
    LET whole == UntilTheEnd(Walked(page)[Len(history)], end)
    IN  [downtime |-> whole.downtime, outages |-> whole.outages,
         restocks |-> Cardinality({i \in page : history[i].type = "STOCK_AVAILABLE"})]

(* The endpoint, over a period of some length that ends now: the summaries *)
(* it may return.                                                          *)
AvailabilitySummary(length) ==
    {ComputeAvailabilitySummary(page, now) : page \in ListForWatchTarget(Limit, now - length)}

------------------------------------------------------------------------------
Out == {minute \in 0 .. now : ~shelf[minute].inStock}
OutIn(start, end) == {minute \in Out : start <= minute /\ minute < end}

(* The minutes of the period at whose end a check had turned the product   *)
(* from out to in stock.                                                   *)
RestocksIn(start, end) == {minute \in start .. end : minute > 0 /\ minute - 1 \in Out /\ minute \notin Out}

EventsSince(start) == {i \in DOMAIN history : history[i].created_at >= start}

(* If the last check before the period had seen the product in stock, and  *)
(* the query did not cut events off, the summary is exact: the minutes out *)
(* of stock, the outages and the restocks of the period, whatever the      *)
(* checks between stored and whatever they found nothing to say about.     *)
DowntimeIsExact ==
    \A length \in 1 .. now :
        LET start == now - length
        IN  (start > 0 /\ start - 1 \notin Out /\ Cardinality(EventsSince(start)) <= Limit) =>
                \A summary \in AvailabilitySummary(length) :
                    /\ summary.downtime = Cardinality(OutIn(start, now))
                    /\ summary.restocks = Cardinality(RestocksIn(start, now))
                    /\ summary.outages - summary.restocks \in {0, 1}

(* The summary errs on one side only.  An outage that began before the     *)
(* period, or whose start was cut off, is not counted, even if it lasts    *)
(* all through it (docstring of availability_summary: events from before   *)
(* the period cannot skew the result); a minute in stock is never called   *)
(* downtime.                                                               *)
DowntimeIsNeverOverstated ==
    \A length \in 1 .. now : \A summary \in AvailabilitySummary(length) :
        summary.downtime <= Cardinality(OutIn(now - length, now))

(* Of points with a time, those a chart shows at a minute: the last ones   *)
(* not after it.                                                           *)
LastUpTo(points, minute, TimeOf(_)) ==
    {p \in points : TimeOf(p) <= minute /\ \A q \in points : TimeOf(q) <= minute => TimeOf(q) <= TimeOf(p)}

(* The price history of a period holds one point for each stored snapshot, *)
(* and most checks store none; drawn as steps, it still shows at every     *)
(* minute from its first point on the price the last scrape had found.     *)
PricesAreExact ==
    \A length \in 0 .. now : \A minute \in now - length .. now :
        \A point \in LastUpTo(PriceHistory(length), minute, LAMBDA p : p.timestamp) :
            point.price = shelf[minute].price

(* A page of the history shows one entry for each event, cut anywhere,     *)
(* also between the events of one check, whose order is open; read as      *)
(* steps, it still shows from its oldest entry on the stock state and the  *)
(* price that the last scrape had found, and its newest entry those of     *)
(* now.                                                                    *)
HistoryIsExact ==
    \A page \in GetHistory : \A minute \in 0 .. now :
        \A entry \in LastUpTo(page, minute, LAMBDA e : e.created_at) :
            /\ entry.snapshot.inStock = shelf[minute].inStock
            /\ entry.snapshot.price = shelf[minute].price
            /\ entry.type = "STOCK_AVAILABLE" => entry.snapshot.inStock
            /\ entry.type = "OUT_OF_STOCK" => ~entry.snapshot.inStock

(* Both charts of a watch show what the checks saw.                        *)
ChartsAreExact == PricesAreExact /\ HistoryIsExact
==============================================================================
