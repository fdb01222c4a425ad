---------------------------- MODULE ChangeFeed ----------------------------
(***************************************************************************)
(* What the history and the jobs of the monitor promise their readers,     *)
(* with no mention of sessions, flushes, checks or ticks: every change of  *)
(* a target is kept as a numbered snapshot, and all of its events are told *)
(* once each, in order, before the target changes again.                   *)
(***************************************************************************)
EXTENDS Diffing

CONSTANTS Targets, Observations

VARIABLES
    latest,   \* the newest snapshot kept of each target, or NoSnapshot
    number,   \* how many changes each target has had
    untold,   \* the event types of its last change still to be told
    told      \* the events told so far

changeVars == <<latest, number, untold, told>>

Event(t, type) == [target |-> t, change |-> number[t], type |-> type]

Init ==
    /\ latest = [t \in Targets |-> NoSnapshot]
    /\ number = [t \in Targets |-> 0]
    /\ untold = [t \in Targets |-> {}]
    /\ told = {}

(* A target is seen different from its latest snapshot.                    *)
Change(t) ==
    /\ untold[t] = {}
    /\ \E seen \in Observations :
          /\ DiffSnapshots(latest[t], seen) # {}
          /\ latest' = [latest EXCEPT ![t] = seen]
          /\ untold' = [untold EXCEPT ![t] = DiffSnapshots(latest[t], seen)]
    /\ number' = [number EXCEPT ![t] = @ + 1]
    /\ UNCHANGED told

(* The first event still to be told is.                                    *)
Tell(t) ==
    /\ \E type \in untold[t] :
          /\ \A other \in untold[t] : Rank(type) <= Rank(other)
          /\ Event(t, type) \notin told
          /\ told' = told \cup {Event(t, type)}
          /\ untold' = [untold EXCEPT ![t] = @ \ {type}]
    /\ UNCHANGED <<latest, number>>

Next == \E t \in Targets : Change(t) \/ Tell(t)

Spec == Init /\ [][Next]_changeVars
=============================================================================
