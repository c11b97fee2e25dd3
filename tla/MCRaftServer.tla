---------------------------- MODULE MCRaftServer ----------------------------
(* RaftServer for TLC: what each run explores together. *)
EXTENDS RaftServer

CONSTANTS w1, w2

Calls(a, b) == [w \in Client |-> IF w = w1 THEN a ELSE b]
P(c, may, terms, idxs) == [calls |-> c, may |-> may, terms |-> terms, idxs |-> idxs]

\* Waiters of two terms at one index; a read and an entry that a snapshot jumps over; an
\* entry settled by a snapshot; abort(), trigger_snapshot() and removal among all that.
ServerPlans ==
  [rivals  |-> P(Calls("committed", "committed"), {}, 2, 3),
   jump    |-> P(Calls("applied", "none"), {"others", "snapshot"}, 2, 3),
   settled |-> P(Calls("committed", "none"), {"others", "snapshot"}, 2, 3),
   stop    |-> P(Calls("applied", "read"), {"others", "snapshot", "abort"}, 1, 3),
   request |-> P(Calls("read", "none"), {"others", "snapshot", "trigger"}, 1, 3),
   removed |-> P(Calls("committed", "none"), {"others", "leave", "cancel"}, 1, 3)]

DroppedPlans == [late |-> P(Calls("applied", "applied"), {}, 3, 3)]
TriggerPlans == [request |-> P(Calls("none", "none"), {"others", "snapshot", "trigger"}, 2, 3)]
=============================================================================
