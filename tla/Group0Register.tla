--------------------------- MODULE Group0Register ---------------------------
(* What group 0 promises to those who change its state (the comment on        *)
(* "Linearizing group 0 operations" in service/raft/raft_group0_client.cc): a *)
(* change takes effect at one moment between the start and the end of its     *)
(* operation, on exactly the state it was computed from, or it has no effect. *)
EXTENDS Naturals, Sequences

CONSTANT Op

VARIABLES
  state,      \* the changes that have taken effect, in their order
  outcome,    \* outcome[o]: "idle", "pending", "done", "conflict" or "lost"
  seen        \* seen[o]: the state that the change of a done o was computed from

Init ==
  /\ state = << >>
  /\ outcome = [o \in Op |-> "idle"]
  /\ seen = [o \in Op |-> << >>]

Start(o) ==
  /\ outcome[o] = "idle"
  /\ outcome' = [outcome EXCEPT ![o] = "pending"]
  /\ UNCHANGED <<state, seen>>

\* The change of an operation takes effect, while its caller waits or after it crashed.
Change(o) ==
  /\ outcome[o] \in {"pending", "lost"}
  /\ \A i \in DOMAIN state : state[i] # o
  /\ state' = Append(state, o)
  /\ UNCHANGED <<outcome, seen>>

Done(o) ==
  /\ outcome[o] = "pending"
  /\ \E i \in DOMAIN state :
       /\ state[i] = o
       /\ seen' = [seen EXCEPT ![o] = SubSeq(state, 1, i - 1)]
  /\ outcome' = [outcome EXCEPT ![o] = "done"]
  /\ UNCHANGED state

Conflict(o) ==
  /\ outcome[o] = "pending"
  /\ \A i \in DOMAIN state : state[i] # o
  /\ outcome' = [outcome EXCEPT ![o] = "conflict"]
  /\ UNCHANGED <<state, seen>>

\* The servers of the operations in S crash.
Lose(S) ==
  /\ \A o \in S : outcome[o] = "pending"
  /\ outcome' = [o \in Op |-> IF o \in S THEN "lost" ELSE outcome[o]]
  /\ UNCHANGED <<state, seen>>

Next ==
  \/ \E o \in Op : Start(o) \/ Change(o) \/ Done(o) \/ Conflict(o)
  \/ \E S \in SUBSET Op : Lose(S)

Spec == Init /\ [][Next]_<<state, outcome, seen>>
=============================================================================
