----------------------------- MODULE PaxosPlans -----------------------------
(* Scenarios of Paxos for TLC. *)

\* A write at coordinator "at" whose learn waits for cl acks, and a read.
Write(at, cl) == [write |-> TRUE, at |-> at, cl |-> cl, near |-> TRUE,
                  timeouts |-> {}, after |-> {}, late |-> 0]
Serial(at) == [Write(at, 1) EXCEPT !.write = FALSE]

\* Two writes at once; a write and a read at once, with room to try again; a write
\* that is given up halfway, followed by a write whose repair may fail, and a read.
QuorumPlans ==
  [race |-> [requests |-> [w1 |-> [Write(1, 2) EXCEPT !.late = 1],
                           w2 |-> [Write(2, 2) EXCEPT !.near = FALSE]],
             max_ts |-> 2],
   retry |-> [requests |-> [w1 |-> Write(1, 2), r1 |-> Serial(2)], max_ts |-> 3],
   abandoned |-> [requests |-> [w1 |-> [Write(1, 2) EXCEPT !.timeouts = {"accept", "learn"}, !.late = 1],
                                w2 |-> [Write(2, 2) EXCEPT !.after = {"w1"}, !.timeouts = {"repair"}],
                                r1 |-> [Serial(3) EXCEPT !.after = {"w2"}]],
                  max_ts |-> 4]]

\* Two writes with consistency level ONE, the second one after the first.
PrunePlans ==
  [prune |-> [requests |-> [w1 |-> Write(1, 1), w2 |-> [Write(2, 1) EXCEPT !.after = {"w1"}, !.late = 1]],
              max_ts |-> 4]]
=============================================================================
