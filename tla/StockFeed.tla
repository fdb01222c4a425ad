----------------------------- MODULE StockFeed -----------------------------
(***************************************************************************)
(* What the stock alerts of one watch target promise their reader,         *)
(* whatever the scraper, the database and the diffing do in between: the   *)
(* alert changes exactly when the product goes in or out of stock, never   *)
(* twice the same way in a row, and the first one is a restock.            *)
(***************************************************************************)
VARIABLES
    shelf,   \* is the product in stock, as of the last completed check
    bell     \* the last stock alert given, "none" before the first

feedVars == <<shelf, bell>>

Init == shelf = FALSE /\ bell = "none"

Restock == /\ ~shelf
           /\ bell # "STOCK_AVAILABLE"
           /\ shelf' = TRUE
           /\ bell' = "STOCK_AVAILABLE"

SellOut == /\ shelf
           /\ bell = "STOCK_AVAILABLE"
           /\ shelf' = FALSE
           /\ bell' = "OUT_OF_STOCK"

Next == Restock \/ SellOut

Spec == Init /\ [][Next]_feedVars
=============================================================================
