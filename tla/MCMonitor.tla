----------------------------- MODULE MCMonitor -----------------------------
(* Three observations are enough for a first event, for a diff that fires  *)
(* two events at once (restock at another price) and for one that fires    *)
(* none.                                                                   *)
EXTENDS Monitor, TLC

CONSTANTS t1, t2

MCObservation(availability, price) ==
    [availability |-> availability, price |-> price, variants |-> {},
     eta |-> 8, store |-> "s1"]

Gone == MCObservation("OUT_OF_STOCK", 10)
Back == MCObservation("AVAILABLE", 12)
Cheap == MCObservation("AVAILABLE", 10)

TwoObservations == {Gone, Back}
ThreeObservations == {Gone, Back, Cheap}

OneRetailer == [t \in Targets |-> "blinkit"]
TwoRetailers == [t \in Targets |-> IF t = t1 THEN "blinkit" ELSE "zepto"]

(* Sound for the runs whose targets all belong to OneRetailer.             *)
TargetSymmetry == Permutations(Targets)
=============================================================================
