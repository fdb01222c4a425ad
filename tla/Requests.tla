------------------------------ MODULE Requests ------------------------------
(***************************************************************************)
(* A request to the API, whatever it asks for: it comes in, its handler    *)
(* goes from one await to the next, and it is over when it was answered.   *)
(* Its session commits after a handler that returned, and rolls back after *)
(* one that raised.  What the steps do to the tables is up to the modules  *)
(* that extend this one.                                                   *)
(***************************************************************************)
EXTENDS Naturals, Sequences, FiniteSets

CONSTANT Requests   \* the requests that may run at once

ASSUME RequestsAssumption == IsFiniteSet(Requests)

VARIABLES
    pc,    \* the await each request is at
    call,  \* what it asks for
    seen   \* what it remembers of the tables

NoCall == [op |-> "none", user |-> "none", row |-> "none", value |-> 0]
Steps == {"idle", "check", "act", "account", "commit", "create"}

InitRequests ==
    /\ pc = [r \in Requests |-> "idle"]
    /\ call = [r \in Requests |-> NoCall] /\ seen = [r \in Requests |-> 0]

Receive(r, op, user, row, value, step) ==
    /\ pc[r] = "idle"
    /\ pc' = [pc EXCEPT ![r] = step]
    /\ call' = [call EXCEPT ![r] = [op |-> op, user |-> user, row |-> row, value |-> value]]
    /\ UNCHANGED seen

Runs(r, op, step) == pc[r] = step /\ call[r].op = op

GoOn(r, step) == pc' = [pc EXCEPT ![r] = step] /\ UNCHANGED <<call, seen>>

Remember(r, what, step) ==
    /\ pc' = [pc EXCEPT ![r] = step] /\ seen' = [seen EXCEPT ![r] = what]
    /\ UNCHANGED call

Over(r) ==
    /\ pc' = [pc EXCEPT ![r] = "idle"]
    /\ call' = [call EXCEPT ![r] = NoCall] /\ seen' = [seen EXCEPT ![r] = 0]
==============================================================================
