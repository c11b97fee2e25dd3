---------------------------- MODULE RaftTracker ----------------------------
(***************************************************************************)
(* Configurations (struct configuration, raft/raft.hh), the leader's view  *)
(* of its followers (class tracker) and a candidate's votes (class votes), *)
(* as pure operators (raft/tracker.cc, raft/tracker.hh).                   *)
(*                                                                         *)
(* A config_member_set is a function from the member ids to can_vote; a    *)
(* configuration is a record with the sets `current' and `previous', the   *)
(* second empty unless the configuration is joint.                         *)
(***************************************************************************)
EXTENDS RaftLog

NoMembers == [s \in {} |-> TRUE]

IsJoint(cfg) == cfg.previous # NoMembers
Voters(ms)   == {s \in DOMAIN ms : ms[s]}
Members(cfg) == DOMAIN cfg.current \cup DOMAIN cfg.previous
AllVoters(cfg) == Voters(cfg.current) \cup Voters(cfg.previous)
CanVote(cfg, s) == s \in AllVoters(cfg)

EnterJoint(cfg, ms) == [current |-> ms, previous |-> cfg.current]
LeaveJoint(cfg)     == [cfg EXCEPT !.previous = NoMembers]

\* Faulty variants: a joint configuration needs the majority of the new, or of the
\* old members only.
VoterSets_NewOnly(cfg) == {Voters(cfg.current)}
VoterSets_OldOnly(cfg) == {Voters(IF IsJoint(cfg) THEN cfg.previous ELSE cfg.current)}

\* The quorums that decide under cfg: one set of voters, two when joint.
VoterSets(cfg) ==
  {Voters(cfg.current)} \cup (IF IsJoint(cfg) THEN {Voters(cfg.previous)} ELSE {})

(***************************************************************************)
(* follower_progress                                                       *)
(***************************************************************************)
NewProgress(next) ==
  [next_idx |-> next, match_idx |-> 0, commit_idx |-> 0, max_acked_read |-> 0,
   state |-> "PROBE", probe_sent |-> FALSE, in_flight |-> 0]

BecomeProbe(p)    == [p EXCEPT !.state = "PROBE", !.probe_sent = FALSE]
BecomePipeline(p) ==
  IF p.state = "PIPELINE" THEN p ELSE [p EXCEPT !.state = "PIPELINE", !.in_flight = 0]
BecomeSnapshot(p, idx) == [p EXCEPT !.state = "SNAPSHOT", !.next_idx = idx + 1]

\* Faulty variant: the next index stays behind.
Accepted_KeepsNext(p, idx) == [p EXCEPT !.match_idx = MaxOf(idx, @)]

Accepted(p, idx) ==
  [p EXCEPT !.match_idx = MaxOf(idx, @), !.next_idx = MaxOf(idx + 1, @)]

IsStrayReject(p, nonMatching, lastIdx) ==
  \/ nonMatching <= p.match_idx
  \/ lastIdx < p.match_idx
  \/ p.state = "PROBE" /\ nonMatching # p.next_idx - 1
  \/ p.state = "SNAPSHOT"

\* Messages that may still be sent before an answer, given max_in_flight.
Window(p, maxInFlight) ==
  CASE p.state = "PROBE"    -> IF p.probe_sent THEN 0 ELSE 1
    [] p.state = "PIPELINE" -> maxInFlight - p.in_flight
    [] p.state = "SNAPSHOT" -> 0

(***************************************************************************)
(* tracker: a function from member ids to their progress.                  *)
(***************************************************************************)
\* set_configuration(): keep the progress of those who stay, forget the others.
SetConfiguration(tr, cfg, next) ==
  [s \in Members(cfg) |-> IF s \in DOMAIN tr THEN tr[s] ELSE NewProgress(next)]

\* can_vote of a progress entry: `current' has precedence in a joint configuration.
ProgressCanVote(cfg, s) ==
  IF s \in DOMAIN cfg.current THEN cfg.current[s]
  ELSE s \in DOMAIN cfg.previous /\ cfg.previous[s]

\* match_vector: the pivot of the sorted values of the voters in vs, provided a
\* majority of them is above prev.
SortedValue(vs, val, k) ==
  CHOOSE x \in {val[s] : s \in vs} :
    /\ Cardinality({s \in vs : val[s] < x}) < k
    /\ Cardinality({s \in vs : val[s] <= x}) >= k

MajorityAbove(vs, val, prev) ==
  Cardinality({s \in vs : val[s] > prev}) >= Cardinality(vs) \div 2 + 1

\* Faulty variant: off by one in the sorted values.
Pivot_Next(vs, val) ==
  SortedValue(vs, val, MinOf(Cardinality(vs), (Cardinality(vs) - 1) \div 2 + 2))

Pivot(vs, val) == SortedValue(vs, val, (Cardinality(vs) - 1) \div 2 + 1)

\* tracker::committed(): the index (or read id) acknowledged by a quorum.
Committed(cfg, val, prev) ==
  IF \A vs \in VoterSets(cfg) : MajorityAbove(vs, val, prev)
  THEN LET pivots == {Pivot(vs, val) : vs \in VoterSets(cfg)}
       IN  CHOOSE x \in pivots : \A y \in pivots : x <= y
  ELSE prev

(***************************************************************************)
(* votes: who answered and who of them said yes.                           *)
(***************************************************************************)
NoVotes == [responded |-> {}, granted |-> {}]

\* register_vote(): the first answer of a voter counts, others are ignored.
RegisterVote(v, cfg, from, yes) ==
  IF from \notin AllVoters(cfg) \/ from \in v.responded THEN v
  ELSE [responded |-> v.responded \cup {from},
        granted   |-> IF yes THEN v.granted \cup {from} ELSE v.granted]

Tally(v, vs) ==
  LET quorum  == Cardinality(vs) \div 2 + 1
      granted == Cardinality(v.granted \cap vs)
  IN  IF granted >= quorum THEN "WON"
      ELSE IF granted + Cardinality(vs \ v.responded) >= quorum THEN "UNKNOWN"
      ELSE "LOST"

\* Faulty variant: the previous configuration has no say.
TallyVotes_NewOnly(v, cfg) == Tally(v, Voters(cfg.current))

\* tally_votes(): the previous configuration decides first.
TallyVotes(v, cfg) ==
  IF IsJoint(cfg) /\ Tally(v, Voters(cfg.previous)) # "WON"
  THEN Tally(v, Voters(cfg.previous)) ELSE Tally(v, Voters(cfg.current))
=============================================================================
