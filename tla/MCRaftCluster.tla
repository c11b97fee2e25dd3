--------------------------- MODULE MCRaftCluster ---------------------------
(* Instances of RaftCluster for TLC. *)
EXTENDS RaftCluster

CONSTANTS s1, s2, s3

AllVote == [s \in Server |-> TRUE]
Only1 == [s \in {s1} |-> TRUE]
Only2 == [s \in {s2} |-> TRUE]
Pair12 == [s \in {s1, s2} |-> TRUE]
Learner == (s1 :> TRUE) @@ (s2 :> FALSE)   \* s2 is a member without a vote

\* Nothing on disk yet.
FreshLog == [s \in Server |-> [term |-> 0, vote |-> Nil, log |-> << >>]]

\* s1 led in term 1 and s2 in term 2, and both crashed before they replicated the
\* first entry of their log; s1 has heard of term 2 since.
TwoUnreplicated ==
  (s1 :> [term |-> 2, vote |-> Nil, log |-> <<Entry(1, 1, "dummy", Dummy)>>])
  @@ (s2 :> [term |-> 2, vote |-> s2, log |-> <<Entry(1, 2, "dummy", Dummy)>>])
  @@ (s3 :> [term |-> 2, vote |-> s2, log |-> << >>])

\* s3 led in term 1 and crashed before it replicated any of its entries; s1 led in
\* term 2 and has replicated its first entry to s2.
StaleTail ==
  (s3 :> [term |-> 1, vote |-> s3,
          log |-> <<Entry(1, 1, "dummy", Dummy), Entry(2, 1, "command", "stale")>>])
  @@ [s \in {s1, s2} |-> [term |-> 2, vote |-> s1, log |-> <<Entry(1, 2, "dummy", Dummy)>>]]

\* s1 led in term 1, committed its first entry, and crashed after it had appended
\* the joint configuration that leaves it alone in the group.
JointPending ==
  LET first == Entry(1, 1, "dummy", Dummy)
      joint == Entry(2, 1, "configuration", [current |-> Only1, previous |-> AllVote])
  IN  (s1 :> [term |-> 1, vote |-> s1, log |-> <<first, joint>>])
      @@ [s \in {s2, s3} |-> [term |-> 1, vote |-> s1, log |-> <<first>>]]

ServerSymmetry == Permutations(Server)

----------------------------------------------------------------------------
(* Scenarios                                                               *)

Budget(b) ==
  b @@ [w \in {"election", "crash", "fault", "read", "snapshot", "transfer", "ping", "tick"} |-> 0]

\* Three voters that start from nothing.
Plain(campaigners, b) ==
  [members |-> AllVote, disk |-> FreshLog, targets |-> {}, commands |-> {}, trailing |-> {},
   prevote |-> FALSE, idle_ticks |-> FALSE, max_idx |-> 2, campaigners |-> campaigners,
   crashing |-> Server, busy |-> 0, budget |-> Budget(b)]

ElectionPlans == [election |-> [Plain(Server, [election |-> 2, crash |-> 1]) EXCEPT !.busy = 1]]

SafetyPlans ==
  [old_term |-> [Plain({s1, s2}, [election |-> 2]) EXCEPT !.disk = TwoUnreplicated, !.busy = 2],
   stale_read |-> [Plain({s1, s3}, [election |-> 2, read |-> 1]) EXCEPT !.disk = StaleTail],
   stale_snapshot |-> [Plain({s1, s3}, [election |-> 2, snapshot |-> 1])
                         EXCEPT !.disk = StaleTail, !.trailing = {0}, !.prevote = TRUE],
   ping |-> [Plain({s1}, [election |-> 1, ping |-> 1]) EXCEPT !.prevote = TRUE],
   snapshot |-> [Plain({s1}, [election |-> 2, snapshot |-> 1, crash |-> 1, fault |-> 1])
                   EXCEPT !.members = Learner, !.crashing = {s1, s2}, !.commands = {"a"}, !.trailing = {0, 1},
                          !.max_idx = 3]]

\* In "crash" s1 and s2 could change places, so a crash of s1 stands for one of s2.
ReconfigurationPlans ==
  [joint |-> [Plain({s1, s2}, [election |-> 2]) EXCEPT !.disk = JointPending, !.max_idx = 4],
   shrink |-> [Plain({s1}, [election |-> 1]) EXCEPT !.targets = {Only1, AllVote}, !.max_idx = 5],
   grow |-> [Plain({s1, s2}, [election |-> 2, crash |-> 1, fault |-> 1])
               EXCEPT !.members = Only1, !.targets = {Pair12, Only2}, !.crashing = {s1, s2}, !.max_idx = 5],
   transfer |-> Plain({s1}, [election |-> 1, transfer |-> 1, tick |-> 1]),
   crash |-> [Plain({s1, s2}, [election |-> 2, crash |-> 1]) EXCEPT !.crashing = {s1}, !.busy = 1]]

LivenessPlans ==
  [faults |-> [Plain({s1}, [election |-> 1, fault |-> 2])
                 EXCEPT !.commands = {"a"}, !.idle_ticks = TRUE]]
=============================================================================
