----------------------------- MODULE MCNotifier -----------------------------
(* Two users of one target, events of one kind: the first user has two     *)
(* watches and two channels, the second one of each.                       *)
EXTENDS Notifier, TLC

CONSTANTS u1, u2, x1, x2, x3, c1, c2, c3

MCOwnerOf == x1 :> u1 @@ x2 :> u1 @@ x3 :> u2 @@ c1 :> u1 @@ c2 :> u1 @@ c3 :> u2
MCWatchedBy == [x \in Watches |-> "milk"]
MCTargetOf == [e \in Events |-> "milk"]
MCTypeOf == [e \in Events |-> "stock_available"]

(* The first user's watches are alike, and so are the channels.            *)
JobSymmetry == UNION {Permutations(S) : S \in {Workers, Events, {x1, x2}, {c1, c2}}}
=============================================================================
