-------------------------- MODULE RaftVotingProofs --------------------------
(***************************************************************************)
(* Proofs that RaftVoting keeps its promises for any set of servers, any   *)
(* system of intersecting quorums and any number of crashes; and that the  *)
(* majorities raft::tracker and raft::votes count are such a system, also  *)
(* while a configuration is joint.                                         *)
(***************************************************************************)
EXTENDS RaftVoting, RaftTracker, RaftLogProofs

\* The three copies of a server's term and vote are in the order of their age.
CopiesInOrder ==
  \A s \in Server : Follows(saved[s], durable[s]) /\ Follows(cur[s], saved[s])

\* A statement that was sent is safe with the disk, one that is still queued with
\* the memory of its author, and only claims by oneself are made.
StatementsCovered ==
  /\ \A x \in sent : Covered(x, durable[x.by])
  /\ \A s \in Server : \A x \in out[s] : x.by = s /\ Covered(x, cur[s])
  /\ \A x \in sent : x.kind = "claim" => x.for = x.by
  /\ \A s \in Server : \A x \in out[s] : x.kind = "claim" => x.for = s

\* Statements of one author about one term agree, queued ones included.
Consistent ==
  /\ VotesOnce
  /\ \A s \in Server : \A x, y \in out[s] : x.term = y.term => x.for = y.for
  /\ \A s \in Server : \A x \in out[s] : \A y \in sent :
       y.by = s /\ x.term = y.term => x.for = y.for

\* Leaders, and those who claim to be, have their votes.
LeadersElected ==
  /\ \A s \in Server : leading[s] => cur[s].vote = s /\ Elected(s, cur[s].term)
  /\ \A s \in Server : \A x \in out[s] : x.kind = "claim" => Elected(s, x.term)
  /\ \A x \in sent : x.kind = "claim" => Elected(x.by, x.term)

IInv == TypeOK /\ CopiesInOrder /\ StatementsCovered /\ Consistent /\ LeadersElected

\* Follows is reflexive and transitive, and what is covered stays so.
LEMMA FollowsRefl == \A p \in Promise : Follows(p, p)
  BY DEF Follows, Promise

LEMMA FollowsTrans ==
  \A p, q, r \in Promise : Follows(q, p) /\ Follows(r, q) => Follows(r, p)
  BY DEF Follows, Promise

LEMMA CoveredMono ==
  ASSUME NEW x \in Statement, NEW p \in Promise, NEW q \in Promise,
         Covered(x, p), Follows(q, p)
  PROVE  Covered(x, q)
  BY VotingAssumption DEF Covered, Follows, Promise, Statement

\* Votes are never taken back.
LEMMA ElectedMono ==
  ASSUME sent \subseteq sent'
  PROVE  \A s \in Server : \A t : Elected(s, t) => Elected(s, t)'
  BY DEF Elected

\* Handling an event keeps the invariant: what a server says from now on agrees with
\* what it said in the same term before.
LEMMA HandleStep ==
  ASSUME IInv, NEW s \in Server, Handle(s)
  PROVE  IInv'
<1> USE VotingAssumption DEF IInv
<1>0. PICK p \in Promise, lead \in BOOLEAN :
        /\ Follows(p, cur[s])
        /\ lead => \/ leading[s] /\ p.term = cur[s].term
                   \/ p.vote = s /\ Elected(s, p.term)
        /\ cur' = [cur EXCEPT ![s] = p]
        /\ leading' = [leading EXCEPT ![s] = lead]
        /\ \E new \in SUBSET MayState(s, p, lead) : out' = [out EXCEPT ![s] = @ \cup new]
        /\ UNCHANGED <<saved, durable, sent>>
  BY DEF Handle
<1>1. PICK new \in SUBSET MayState(s, p, lead) : out' = [out EXCEPT ![s] = @ \cup new]
  BY <1>0
<1>2. lead => p.vote = s /\ Elected(s, p.term)
  BY <1>0, <1>1 DEF LeadersElected, Follows, TypeOK, Promise
<1>3. \A x \in new : /\ x \in Statement /\ x.by = s /\ x.term = p.term /\ x.for = p.vote
                     /\ x.kind = "claim" => lead /\ x.for = s
  <2> TAKE x \in new
  <2>1. \/ p.vote # Nil /\ x = Vote(s, p.term, p.vote)
        \/ lead /\ x = Claim(s, p.term)
    BY DEF MayState
  <2>2. p.term \in 0..MaxTerm /\ (p.vote # Nil => p.vote \in Server)
    BY DEF Promise
  <2> QED BY <1>2, <2>1, <2>2 DEF Vote, Claim, Statement
<1>4. Follows(cur'[s], cur[s]) /\ cur'[s] = p
  BY <1>0, <1>1 DEF TypeOK
<1>5. TypeOK'
  BY <1>0, <1>1, <1>3 DEF TypeOK
<1>6. CopiesInOrder'
  BY <1>0, <1>1, <1>4, FollowsTrans DEF CopiesInOrder, TypeOK
<1>7. \A x \in out[s] : x \in Statement /\ Covered(x, p)
  BY <1>0, <1>1, CoveredMono DEF StatementsCovered, TypeOK
<1>8. StatementsCovered'
  BY <1>0, <1>1, <1>3, <1>7 DEF StatementsCovered, TypeOK, Covered
<1>9. \A x \in sent : x \in Statement /\ (x.by = s => Covered(x, p))
  <2>1. Follows(p, durable[s])
    BY <1>0, <1>1, FollowsTrans DEF CopiesInOrder, TypeOK
  <2> QED BY <2>1, CoveredMono DEF StatementsCovered, TypeOK
<1>10. Consistent'
  <2>1. VotesOnce'
    BY <1>0, <1>1 DEF Consistent, VotesOnce
  <2>2. \A x \in new : \A y \in out[s] : x.term = y.term => x.for = y.for
    BY <1>3, <1>7 DEF Covered, Promise, Statement
  <2>3. \A x \in new : \A y \in sent : y.by = s /\ x.term = y.term => x.for = y.for
    BY <1>3, <1>9 DEF Covered, Promise, Statement
  <2>4. \A x, y \in new : x.for = y.for
    BY <1>3
  <2> QED BY <1>0, <1>1, <2>1, <2>2, <2>3, <2>4 DEF Consistent, TypeOK
<1>11. LeadersElected'
  <2>1. \A t \in Server : \A n : Elected(t, n) => Elected(t, n)'
    BY <1>0, <1>1, ElectedMono
  <2>2. \A t \in Server : leading'[t] => cur'[t].vote = t /\ Elected(t, cur'[t].term)
    BY <1>0, <1>1, <1>2 DEF LeadersElected, TypeOK
  <2>3. \A t \in Server : \A x \in out'[t] : x.kind = "claim" => Elected(t, x.term)
    BY <1>0, <1>1, <1>2, <1>3 DEF LeadersElected, TypeOK
  <2>4. \A x \in sent' : x.kind = "claim" => x.by \in Server /\ Elected(x.by, x.term)
    BY <1>0, <1>1 DEF LeadersElected, TypeOK, Statement
  <2> QED BY <2>1, <2>2, <2>3, <2>4 DEF LeadersElected
<1> QED BY <1>5, <1>6, <1>8, <1>10, <1>11

\* Taking a copy keeps the invariant; the claims made meanwhile are those of an
\* elected leader.
LEMMA PollStep ==
  ASSUME IInv, NEW s \in Server, Poll(s)
  PROVE  IInv'
<1> USE VotingAssumption DEF IInv
<1>0. /\ saved' = [saved EXCEPT ![s] = cur[s]]
      /\ UNCHANGED <<cur, durable, leading, sent>>
  BY DEF Poll
<1>1. PICK new \in SUBSET {x \in MayState(s, cur[s], leading[s]) : x.kind = "claim"} :
        out' = [out EXCEPT ![s] = @ \cup new]
  BY DEF Poll
<1>2. \A x \in new : /\ x = Claim(s, cur[s].term) /\ x \in Statement /\ leading[s]
                     /\ cur[s].vote = s /\ Elected(s, cur[s].term)
  <2> TAKE x \in new
  <2>1. x = Claim(s, cur[s].term) /\ leading[s]
    BY DEF MayState, Vote, Claim
  <2> QED BY <2>1 DEF Claim, Statement, LeadersElected, TypeOK, Promise
<1>3. TypeOK'
  BY <1>0, <1>1, <1>2 DEF TypeOK
<1>4. CopiesInOrder'
  BY <1>0, FollowsTrans, FollowsRefl DEF CopiesInOrder, TypeOK
<1>5. StatementsCovered'
  BY <1>0, <1>1, <1>2 DEF StatementsCovered, TypeOK, Covered, Claim
<1>6. Consistent'
  <2>1. \A x \in new : \A y \in out[s] : x.term = y.term => x.for = y.for
    BY <1>2 DEF Covered, Promise, Statement, StatementsCovered, TypeOK, Claim
  <2>2. \A x \in new : \A y \in sent : y.by = s /\ x.term = y.term => x.for = y.for
    <3>1. \A y \in sent : y \in Statement /\ (y.by = s => Covered(y, cur[s]))
      BY CoveredMono, FollowsTrans DEF StatementsCovered, CopiesInOrder, TypeOK
    <3> QED BY <1>2, <3>1 DEF Covered, Promise, Statement, TypeOK, Claim
  <2>3. \A x, y \in new : x.for = y.for
    BY <1>2
  <2>4. VotesOnce'
    BY <1>0 DEF Consistent, VotesOnce
  <2> QED BY <1>0, <1>1, <2>1, <2>2, <2>3, <2>4 DEF Consistent, TypeOK
<1>7. LeadersElected'
  <2>1. \A t \in Server : \A n : Elected(t, n) => Elected(t, n)'
    BY <1>0, ElectedMono
  <2>2. \A t \in Server : leading'[t] => cur'[t].vote = t /\ Elected(t, cur'[t].term)
    BY <1>0 DEF LeadersElected
  <2>3. \A t \in Server : \A x \in out'[t] : x.kind = "claim" => Elected(t, x.term)
    BY <1>1, <1>2 DEF LeadersElected, TypeOK, Claim
  <2>4. \A x \in sent' : x.kind = "claim" => x.by \in Server /\ Elected(x.by, x.term)
    BY <1>0 DEF LeadersElected, TypeOK, Statement
  <2> QED BY <2>1, <2>2, <2>3, <2>4 DEF LeadersElected
<1> QED BY <1>3, <1>4, <1>5, <1>6, <1>7

\* Common to Process and Crash: statements that leave once p is on the disk of s.
\* Nothing but the memory of s may change, and only back to p.
LEMMA SendStep ==
  ASSUME IInv, TypeOK', NEW s \in Server, NEW p \in Promise,
         p \in {durable[s], saved[s]},
         durable' = [durable EXCEPT ![s] = p],
         NEW now \in SUBSET {x \in out[s] : Covered(x, p)}, sent' = sent \cup now,
         \A t \in Server : out'[t] \subseteq out[t],
         \A t \in Server \ {s} : /\ cur'[t] = cur[t] /\ saved'[t] = saved[t]
                                 /\ leading'[t] = leading[t],
         \/ cur'[s] = cur[s] /\ saved'[s] = saved[s] /\ p = saved[s] /\ leading'[s] = leading[s]
         \/ cur'[s] = p /\ saved'[s] = p /\ out'[s] = {} /\ ~leading'[s]
  PROVE  IInv'
<1> USE VotingAssumption DEF IInv
<1>1. Follows(p, durable[s])
  BY FollowsRefl DEF CopiesInOrder, TypeOK
<1>2. \A x \in now : x \in Statement /\ x.by = s /\ x \in out[s]
  BY DEF StatementsCovered, TypeOK
<1>3. CopiesInOrder'
  BY FollowsRefl DEF CopiesInOrder, TypeOK
<1>4. StatementsCovered'
  <2>1. \A x \in sent : Covered(x, durable'[x.by])
    BY <1>1, CoveredMono DEF StatementsCovered, TypeOK, Statement
  <2>2. \A x \in now : Covered(x, durable'[x.by])
    BY <1>2 DEF TypeOK
  <2>3. \A x \in sent' : x.kind = "claim" => x.for = x.by
    BY <1>2 DEF StatementsCovered
  <2>4. \A t \in Server : \A x \in out'[t] : /\ x.by = t /\ Covered(x, cur'[t])
                                           /\ x.kind = "claim" => x.for = t
    BY DEF StatementsCovered
  <2> QED BY <2>1, <2>2, <2>3, <2>4 DEF StatementsCovered
<1>5. Consistent'
  <2>1. VotesOnce'
    BY <1>2 DEF Consistent, VotesOnce
  <2>2. \A t \in Server : \A x, y \in out'[t] : x.term = y.term => x.for = y.for
    BY DEF Consistent
  <2>3. \A t \in Server : \A x \in out'[t] : \A y \in sent' :
          y.by = t /\ x.term = y.term => x.for = y.for
    BY <1>2 DEF Consistent
  <2> QED BY <2>1, <2>2, <2>3 DEF Consistent
<1>6. LeadersElected'
  <2>1. \A t \in Server : \A n : Elected(t, n) => Elected(t, n)'
    BY ElectedMono
  <2>2. \A t \in Server : leading'[t] => cur'[t].vote = t /\ Elected(t, cur'[t].term)
    BY DEF LeadersElected
  <2>3. \A t \in Server : \A x \in out'[t] : x.kind = "claim" => Elected(t, x.term)
    BY DEF LeadersElected
  <2>4. \A x \in sent' : x.kind = "claim" => x.by \in Server /\ Elected(x.by, x.term)
    BY <1>2 DEF LeadersElected, TypeOK, Statement
  <2> QED BY <2>1, <2>2, <2>3, <2>4 DEF LeadersElected
<1> QED BY <1>3, <1>4, <1>5, <1>6

\* Storing the copy and sending what it covers keeps the invariant.
LEMMA ProcessStep ==
  ASSUME IInv, NEW s \in Server, Process(s)
  PROVE  IInv'
<1>1. PICK now \in SUBSET {x \in out[s] : Covered(x, saved[s])} :
        sent' = sent \cup now
  BY DEF Process
<1>2. durable' = [durable EXCEPT ![s] = saved[s]] /\ UNCHANGED <<cur, saved, leading>>
  BY DEF Process
<1>3. PICK rest \in SUBSET out[s] : out' = [out EXCEPT ![s] = rest]
  BY DEF Process
<1>4. TypeOK' /\ \A t \in Server : out'[t] \subseteq out[t]
  BY <1>1, <1>2, <1>3 DEF IInv, TypeOK
<1>5. saved[s] \in Promise
  BY DEF IInv, TypeOK
<1> QED BY <1>1, <1>2, <1>4, <1>5, SendStep

\* A crash keeps the invariant: what is forgotten was never sent.
LEMMA CrashStep ==
  ASSUME IInv, NEW s \in Server, Crash(s)
  PROVE  IInv'
<1>1. PICK p \in {durable[s], saved[s]} :
        /\ durable' = [durable EXCEPT ![s] = p]
        /\ cur' = [cur EXCEPT ![s] = p]
        /\ saved' = [saved EXCEPT ![s] = p]
        /\ leading' = [leading EXCEPT ![s] = FALSE]
        /\ \E now \in SUBSET {x \in out[s] : Covered(x, p)} : sent' = sent \cup now
        /\ out' = [out EXCEPT ![s] = {}]
  BY DEF Crash
<1>2. PICK now \in SUBSET {x \in out[s] : Covered(x, p)} : sent' = sent \cup now
  BY <1>1
<1>3. p \in Promise
  BY DEF IInv, TypeOK
<1>4. TypeOK'
  BY <1>1, <1>2, <1>3 DEF IInv, TypeOK
<1>5. \A t \in Server : out'[t] \subseteq out[t]
  BY <1>1 DEF IInv, TypeOK
<1>6. cur'[s] = p /\ saved'[s] = p /\ out'[s] = {} /\ ~leading'[s]
  BY <1>1 DEF IInv, TypeOK
<1>7. \A t \in Server \ {s} : /\ cur'[t] = cur[t] /\ saved'[t] = saved[t]
                              /\ leading'[t] = leading[t]
  BY <1>1 DEF IInv, TypeOK
<1> QED BY <1>1, <1>2, <1>3, <1>4, <1>5, <1>6, <1>7, SendStep

\* The inductive invariant holds in every state of every behaviour.
THEOREM Inductive == Spec => []IInv
<1>1. Init => IInv
  <2> SUFFICES ASSUME Init PROVE IInv
    OBVIOUS
  <2>1. TypeOK
    BY DEF Init, TypeOK
  <2>2. CopiesInOrder
    BY FollowsRefl DEF Init, CopiesInOrder
  <2> QED BY <2>1, <2>2
      DEF Init, IInv, StatementsCovered, Consistent, VotesOnce, LeadersElected
<1>2. IInv /\ [Next]_vars => IInv'
  <2> SUFFICES ASSUME IInv, [Next]_vars PROVE IInv'
    OBVIOUS
  <2>1. CASE UNCHANGED vars
    BY <2>1 DEF vars, IInv, TypeOK, CopiesInOrder, StatementsCovered, Consistent,
                VotesOnce, LeadersElected, Elected
  <2>2. CASE Next
    BY <2>2, HandleStep, PollStep, ProcessStep, CrashStep DEF Next
  <2> QED BY <2>1, <2>2
<1> QED BY <1>1, <1>2, PTL DEF Spec

\* Type correctness.
THEOREM TypeCorrect == Spec => []TypeOK
<1>1. IInv => TypeOK
  BY DEF IInv
<1> QED BY <1>1, Inductive, PTL

\* A server never supports two candidates in a term, whatever it forgets in crashes:
\* process_fsm_output() stores term and vote before it sends.
THEOREM VoteSafety == Spec => []VotesOnce
<1>1. IInv => VotesOnce
  BY DEF IInv, Consistent
<1> QED BY <1>1, Inductive, PTL

\* Two quorums that elected leaders of the same term share a server, and that server
\* supported both: its own statements and votes agree.
LEMMA SameTermSameLeader ==
  ASSUME IInv, NEW x \in sent, NEW y \in sent,
         x.kind = "claim", y.kind = "claim", x.term = y.term
  PROVE  x.by = y.by
<1> USE DEF IInv
<1>1. PICK Q \in Quorum : \A q \in Q \ {x.by} : Vote(q, x.term, x.by) \in sent
  BY DEF LeadersElected, Elected
<1>2. PICK R \in Quorum : \A q \in R \ {y.by} : Vote(q, y.term, y.by) \in sent
  BY DEF LeadersElected, Elected
<1>3. PICK q \in Q : q \in R
  BY VotingAssumption
<1>4. x.for = x.by /\ y.for = y.by
  BY DEF StatementsCovered
<1>5. q # x.by => Vote(q, x.term, x.by) \in sent
  BY <1>1, <1>3
<1>6. q # y.by => Vote(q, y.term, y.by) \in sent
  BY <1>2, <1>3
<1> QED BY <1>4, <1>5, <1>6 DEF Consistent, VotesOnce, Vote

\* At most one server ever sends messages as the leader of a term.
THEOREM ClaimSafety == Spec => []OneClaimPerTerm
<1>1. IInv => OneClaimPerTerm
  BY SameTermSameLeader DEF OneClaimPerTerm
<1> QED BY <1>1, Inductive, PTL

\* A vote that a leader has sent in its term, it has sent for itself.
LEMMA LeaderVotesForItself ==
  ASSUME IInv, NEW s \in Server, leading[s], NEW v, Vote(s, cur[s].term, v) \in sent
  PROVE  v = s
<1> USE DEF IInv
<1>1. Vote(s, cur[s].term, v) \in Statement /\ cur[s] \in Promise
  BY DEF TypeOK
<1>2. Covered(Vote(s, cur[s].term, v), cur[s])
  <2>1. Covered(Vote(s, cur[s].term, v), durable[s])
    BY DEF StatementsCovered, Vote
  <2>2. Follows(cur[s], durable[s]) /\ durable[s] \in Promise
    BY FollowsTrans DEF CopiesInOrder, TypeOK
  <2> QED BY <1>1, <2>1, <2>2, CoveredMono
<1>3. cur[s].vote = s
  BY DEF LeadersElected
<1> QED BY <1>1, <1>2, <1>3 DEF Covered, Vote, Promise

\* At no moment does a term have two leaders, nor a leader while another server has
\* sent messages as leader of that term.
THEOREM LeaderSafety == Spec => []OneLeaderPerTerm
<1>1. ASSUME IInv, NEW s \in Server, leading[s],
             NEW t \in Server, leading[t], cur[t].term = cur[s].term
      PROVE  s = t
  <2>1. PICK Q \in Quorum : \A q \in Q \ {s} : Vote(q, cur[s].term, s) \in sent
    BY <1>1 DEF IInv, LeadersElected, Elected
  <2>2. PICK R \in Quorum : \A q \in R \ {t} : Vote(q, cur[s].term, t) \in sent
    BY <1>1 DEF IInv, LeadersElected, Elected
  <2>3. PICK q \in Q : q \in R
    BY VotingAssumption
  <2>4. CASE q = s /\ q # t
    BY <1>1, <2>2, <2>3, <2>4, LeaderVotesForItself
  <2>5. CASE q = t /\ q # s
    BY <1>1, <2>1, <2>3, <2>5, LeaderVotesForItself
  <2>6. CASE q # s /\ q # t
    <3>1. Vote(q, cur[s].term, s) \in sent /\ Vote(q, cur[s].term, t) \in sent
      BY <2>1, <2>2, <2>3, <2>6
    <3> QED BY <1>1, <3>1 DEF IInv, Consistent, VotesOnce, Vote
  <2> QED BY <2>4, <2>5, <2>6
<1>2. ASSUME IInv, NEW s \in Server, leading[s],
             NEW x \in sent, x.kind = "claim", x.term = cur[s].term
      PROVE  x.by = s
  <2>1. PICK Q \in Quorum : \A q \in Q \ {s} : Vote(q, cur[s].term, s) \in sent
    BY <1>2 DEF IInv, LeadersElected, Elected
  <2>2. PICK R \in Quorum : \A q \in R \ {x.by} : Vote(q, cur[s].term, x.by) \in sent
    BY <1>2 DEF IInv, LeadersElected, Elected
  <2>3. PICK q \in Q : q \in R
    BY VotingAssumption
  <2>4. CASE q = s /\ q # x.by
    BY <1>2, <2>2, <2>3, <2>4, LeaderVotesForItself
  <2>5. CASE q # s
    <3>1. Vote(q, cur[s].term, s) \in sent
      BY <2>1, <2>3, <2>5
    <3>2. x.for = x.by
      BY <1>2 DEF IInv, StatementsCovered
    <3>3. q # x.by => Vote(q, cur[s].term, x.by) \in sent
      BY <2>2, <2>3
    <3> QED BY <1>2, <3>1, <3>2, <3>3 DEF IInv, Consistent, VotesOnce, Vote
  <2> QED BY <2>4, <2>5
<1>3. IInv => OneLeaderPerTerm
  BY <1>1, <1>2 DEF OneLeaderPerTerm
<1> QED BY <1>3, Inductive, PTL

----------------------------------------------------------------------------
\* Majorities of configurations.

\* A majority of vs is in Q, and Q has a majority wherever the configuration asks for one.
MajorityOf(vs, Q) == Cardinality({s \in vs : s \in Q}) >= Cardinality(vs) \div 2 + 1
Decides(cfg, Q) == \A vs \in VoterSets(cfg) : MajorityOf(vs, Q)

\* A configuration has members; configuration::check() asks even for a voter.
IsConfiguration(cfg) ==
  /\ cfg = [current |-> cfg.current, previous |-> cfg.previous]
  /\ IsFiniteSet(DOMAIN cfg.current) /\ DOMAIN cfg.current # {}
  /\ IsFiniteSet(DOMAIN cfg.previous)

\* What a configuration may be followed by: itself in another log, enter_joint(), leave_joint().
Successive(cfg, next) ==
  \/ next = cfg
  \/ next = LeaveJoint(cfg)
  \/ \E ms : next = EnterJoint(cfg, ms)

\* The voters of a configuration are finitely many.
LEMMA VotersAreFinite ==
  ASSUME NEW cfg, IsConfiguration(cfg), NEW vs \in VoterSets(cfg)
  PROVE  /\ IsFiniteSet(vs) /\ Cardinality(vs) \in Nat
         /\ vs \subseteq AllVoters(cfg)
<1>1. vs = Voters(cfg.current) \/ vs = Voters(cfg.previous)
  BY DEF VoterSets
<1>2. /\ Voters(cfg.current) \in SUBSET (DOMAIN cfg.current)
      /\ Voters(cfg.previous) \in SUBSET (DOMAIN cfg.previous)
  BY DEF Voters
<1>3. IsFiniteSet(vs)
  BY <1>1, <1>2, FS_Subset DEF IsConfiguration
<1>4. Cardinality(vs) \in Nat
  BY <1>3, FS_CardinalityType
<1> QED BY <1>1, <1>3, <1>4 DEF AllVoters

\* The parts of a finite set that a condition cuts it into.
LEMMA PartCount ==
  ASSUME NEW vs, IsFiniteSet(vs), NEW A \in SUBSET vs
  PROVE  /\ IsFiniteSet(A) /\ Cardinality(A) \in Nat /\ Cardinality(vs) \in Nat
         /\ Cardinality(A) <= Cardinality(vs)
         /\ Cardinality(vs \ A) = Cardinality(vs) - Cardinality(A)
<1>1. IsFiniteSet(A) /\ Cardinality(A) <= Cardinality(vs)
  BY FS_Subset
<1>2. Cardinality(A) \in Nat /\ Cardinality(vs) \in Nat
  BY <1>1, FS_CardinalityType
<1>3. vs \cap A = A
  OBVIOUS
<1>4. Cardinality(vs \ A) = Cardinality(vs) - Cardinality(vs \cap A)
  BY FS_Difference
<1> QED BY <1>1, <1>2, <1>3, <1>4

\* Two majorities of one set have a member in common.
LEMMA MajoritiesMeet ==
  ASSUME NEW vs, IsFiniteSet(vs), NEW Q, NEW R, MajorityOf(vs, Q), MajorityOf(vs, R)
  PROVE  \E s \in vs : s \in Q /\ s \in R
<1> SUFFICES ASSUME \A s \in vs : ~(s \in Q /\ s \in R) PROVE FALSE
  OBVIOUS
<1>1. PICK A, B : A = {s \in vs : s \in Q} /\ B = {s \in vs : s \in R}
  OBVIOUS
<1>2. A \in SUBSET vs /\ B \in SUBSET vs /\ B \in SUBSET (vs \ A)
  BY <1>1
<1>3. /\ Cardinality(A) \in Nat /\ Cardinality(B) \in Nat /\ Cardinality(vs) \in Nat
      /\ Cardinality(vs \ A) = Cardinality(vs) - Cardinality(A)
  BY <1>2, PartCount
<1>4. IsFiniteSet(vs \ A)
  BY FS_Difference
<1>5. Cardinality(B) <= Cardinality(vs \ A)
  BY <1>2, <1>4, FS_Subset
<1>6. /\ Cardinality(A) >= Cardinality(vs) \div 2 + 1
      /\ Cardinality(B) >= Cardinality(vs) \div 2 + 1
  BY <1>1 DEF MajorityOf
<1>7. \A n, a, b \in Nat : ~(a >= n \div 2 + 1 /\ b >= n \div 2 + 1 /\ b <= n - a)
  OBVIOUS
<1> QED BY <1>3, <1>5, <1>6, <1>7

\* What decides under a configuration and under the next has a voter in common, also while
\* some servers are in a joint configuration and others have not heard of it or have left it.
THEOREM DecisionsMeet ==
  ASSUME NEW cfg, NEW next, IsConfiguration(cfg), Successive(cfg, next),
         NEW Q, NEW R, Decides(cfg, Q), Decides(next, R)
  PROVE  Q \cap R # {}
<1>1. Voters(cfg.current) \in VoterSets(cfg)
  BY DEF VoterSets
<1>2. Voters(cfg.current) \in VoterSets(next)
  <2>1. CASE next = cfg
    BY <1>1, <2>1
  <2>2. CASE next = LeaveJoint(cfg)
    <3>1. next.current = cfg.current
      BY <2>2 DEF LeaveJoint, IsConfiguration
    <3> QED BY <3>1 DEF VoterSets
  <2>3. CASE \E ms : next = EnterJoint(cfg, ms)
    <3>1. next.previous = cfg.current
      BY <2>3 DEF EnterJoint
    <3>2. DOMAIN NoMembers = {} /\ DOMAIN cfg.current # {}
      BY DEF NoMembers, IsConfiguration
    <3>3. IsJoint(next)
      BY <3>1, <3>2 DEF IsJoint
    <3> QED BY <3>1, <3>3 DEF VoterSets
  <2> QED BY <2>1, <2>2, <2>3 DEF Successive
<1>3. IsFiniteSet(Voters(cfg.current))
  BY <1>1, VotersAreFinite
<1>4. MajorityOf(Voters(cfg.current), Q) /\ MajorityOf(Voters(cfg.current), R)
  BY <1>1, <1>2 DEF Decides
<1>5. \E s \in Voters(cfg.current) : s \in Q /\ s \in R
  BY <1>3, <1>4, MajoritiesMeet
<1> QED BY <1>5

\* votes::tally_votes(): a candidate wins with the votes that the configuration asks for.
LEMMA TallyIs ==
  ASSUME NEW cfg, NEW v
  PROVE  TallyVotes(v, cfg) = "WON" <=> Decides(cfg, v.granted)
<1>1. ASSUME NEW vs PROVE Tally(v, vs) = "WON" <=> MajorityOf(vs, v.granted)
  <2>1. v.granted \cap vs = {s \in vs : s \in v.granted}
    OBVIOUS
  <2> QED BY <2>1 DEF Tally, MajorityOf
<1>2. CASE IsJoint(cfg)
  <2>1. VoterSets(cfg) = {Voters(cfg.current), Voters(cfg.previous)}
    BY <1>2 DEF VoterSets
  <2>2. Decides(cfg, v.granted) <=> /\ MajorityOf(Voters(cfg.current), v.granted)
                                    /\ MajorityOf(Voters(cfg.previous), v.granted)
    BY <2>1 DEF Decides
  <2>3. TallyVotes(v, cfg) = "WON" <=> /\ Tally(v, Voters(cfg.current)) = "WON"
                                       /\ Tally(v, Voters(cfg.previous)) = "WON"
    BY <1>2 DEF TallyVotes
  <2> QED BY <1>1, <2>2, <2>3
<1>3. CASE ~IsJoint(cfg)
  <2>1. VoterSets(cfg) = {Voters(cfg.current)}
    BY <1>3 DEF VoterSets
  <2>2. Decides(cfg, v.granted) <=> MajorityOf(Voters(cfg.current), v.granted)
    BY <2>1 DEF Decides
  <2>3. TallyVotes(v, cfg) = "WON" <=> Tally(v, Voters(cfg.current)) = "WON"
    BY <1>3 DEF TallyVotes
  <2> QED BY <1>1, <2>2, <2>3
<1> QED BY <1>2, <1>3

\* The number of voters in vs whose value is at most x, and those who have x or more.
AtMost(vs, val, x) == Cardinality({s \in vs : val[s] <= x})
Have(vs, val, x) == {s \in vs : val[s] >= x}

\* The values of voters.
Values(vs, val, N) == N \in Nat /\ IsFiniteSet(vs) /\ \A s \in vs : val[s] \in 0..N

\* Those above x are the others.
LEMMA AtMostIs ==
  ASSUME NEW vs, NEW val, NEW N, Values(vs, val, N), NEW x \in Nat
  PROVE  /\ AtMost(vs, val, x) \in Nat /\ Cardinality(vs) \in Nat
         /\ Cardinality({s \in vs : val[s] > x}) = Cardinality(vs) - AtMost(vs, val, x)
<1>1. PICK A : A = {s \in vs : val[s] <= x}
  OBVIOUS
<1>2. vs \ A = {s \in vs : val[s] > x}
  BY <1>1 DEF Values
<1>3. A \in SUBSET vs
  BY <1>1
<1>4. /\ Cardinality(A) \in Nat /\ Cardinality(vs) \in Nat
      /\ Cardinality(vs \ A) = Cardinality(vs) - Cardinality(A)
  BY <1>3, PartCount DEF Values
<1> QED BY <1>1, <1>2, <1>4 DEF AtMost

\* std::nth_element(): there is a value with fewer than k values below it and at least k up
\* to it.
LEMMA SortedValueIs ==
  ASSUME NEW vs, NEW val, NEW N, Values(vs, val, N), NEW k \in Nat \ {0}, k <= Cardinality(vs),
         NEW x, x = SortedValue(vs, val, k)
  PROVE  /\ x \in Nat /\ x <= N /\ AtMost(vs, val, x) >= k
         /\ \A y \in Nat : y < x => AtMost(vs, val, y) < k
<1>1. N \in Nat /\ \A s \in vs : val[s] \in Nat /\ val[s] <= N
  BY DEF Values
<1>2. PICK S : S = {n \in Nat : AtMost(vs, val, n) >= k}
  OBVIOUS
<1>3. N \in S
  <2>1. {s \in vs : val[s] <= N} = vs
    BY <1>1
  <2> QED BY <1>1, <1>2, <2>1 DEF AtMost
<1>4. PICK z \in S : \A n \in S : z <= n
  BY <1>2, <1>3, LeastNumber
<1>5. z \in Nat /\ AtMost(vs, val, z) >= k
  BY <1>2
<1>6. Cardinality({s \in vs : val[s] < z}) < k
  <2>1. CASE z = 0
    <3>1. {s \in vs : val[s] < z} = {}
      BY <1>1, <2>1
    <3> QED BY <3>1, FS_EmptySet
  <2>2. CASE z # 0
    <3>1. z - 1 \in Nat /\ ~(z <= z - 1)
      BY <1>5, <2>2
    <3>2. z - 1 \notin S
      BY <1>4, <3>1
    <3>3. ~(AtMost(vs, val, z - 1) >= k)
      BY <1>2, <3>1, <3>2
    <3>4. AtMost(vs, val, z - 1) \in Nat
      BY <3>1, AtMostIs
    <3>5. {s \in vs : val[s] < z} = {s \in vs : val[s] <= z - 1}
      BY <1>1, <1>5
    <3> QED BY <3>3, <3>4, <3>5 DEF AtMost
  <2> QED BY <2>1, <2>2
<1>7. z \in {val[s] : s \in vs}
  <2> SUFFICES ASSUME z \notin {val[s] : s \in vs} PROVE FALSE
    OBVIOUS
  <2>1. {s \in vs : val[s] <= z} = {s \in vs : val[s] < z}
    BY <1>1, <1>5
  <2>2. AtMost(vs, val, z) \in Nat
    BY <1>5, AtMostIs
  <2>3. AtMost(vs, val, z) < k
    BY <1>6, <2>1 DEF AtMost
  <2> QED BY <1>5, <2>2, <2>3
<1>8. /\ x \in {val[s] : s \in vs}
      /\ Cardinality({s \in vs : val[s] < x}) < k /\ AtMost(vs, val, x) >= k
  BY <1>5, <1>6, <1>7 DEF SortedValue, AtMost
<1>9. x \in Nat /\ x <= N
  BY <1>1, <1>8
<1>10. ASSUME NEW y \in Nat, y < x PROVE AtMost(vs, val, y) < k
  <2>1. PICK A, B : A = {s \in vs : val[s] <= y} /\ B = {s \in vs : val[s] < x}
    OBVIOUS
  <2>2. A \in SUBSET B
    BY <1>1, <1>9, <1>10, <2>1
  <2>3. B \in SUBSET vs
    BY <2>1
  <2>4. IsFiniteSet(B) /\ Cardinality(B) \in Nat
    BY <2>3, PartCount DEF Values
  <2>5. Cardinality(A) <= Cardinality(B) /\ Cardinality(A) \in Nat
    BY <2>2, <2>4, PartCount
  <2>6. Cardinality(B) < k
    BY <1>8, <2>1
  <2> QED BY <2>1, <2>4, <2>5, <2>6 DEF AtMost
<1> QED BY <1>8, <1>9, <1>10

\* match_vector: the pivot is the largest value that a majority of vs has reached.
LEMMA PivotIs ==
  ASSUME NEW vs, NEW val, NEW N, Values(vs, val, N), vs # {}, NEW x, x = Pivot(vs, val)
  PROVE  /\ x \in Nat
         /\ MajorityOf(vs, Have(vs, val, x))
         /\ \A m \in Nat : m > x => ~MajorityOf(vs, Have(vs, val, m))
<1>1. PICK n : n = Cardinality(vs)
  OBVIOUS
<1>2. n \in Nat /\ n # 0
  BY <1>1, FS_CardinalityType, FS_EmptySet DEF Values
<1>3. PICK k : k = (n - 1) \div 2 + 1
  OBVIOUS
<1>4. k \in Nat \ {0} /\ k <= n /\ k + n \div 2 = n
  BY <1>2, <1>3
<1>5. x = SortedValue(vs, val, k)
  BY <1>1, <1>3 DEF Pivot
<1>6. /\ x \in Nat /\ AtMost(vs, val, x) >= k
      /\ \A y \in Nat : y < x => AtMost(vs, val, y) < k
  BY <1>1, <1>4, <1>5, SortedValueIs
<1>7. ASSUME NEW y \in Nat
      PROVE  MajorityOf(vs, Have(vs, val, y + 1)) <=> AtMost(vs, val, y) < k
  <2>1. {s \in vs : s \in Have(vs, val, y + 1)} = {s \in vs : val[s] > y}
    BY DEF Have, Values
  <2>2. AtMost(vs, val, y) \in Nat /\ Cardinality({s \in vs : val[s] > y}) = n - AtMost(vs, val, y)
    BY <1>1, AtMostIs
  <2>3. MajorityOf(vs, Have(vs, val, y + 1)) <=> n - AtMost(vs, val, y) >= n \div 2 + 1
    BY <1>1, <2>1, <2>2 DEF MajorityOf
  <2> QED BY <1>2, <1>4, <2>2, <2>3
<1>8. MajorityOf(vs, Have(vs, val, x))
  <2>1. CASE x = 0
    <3>1. {s \in vs : s \in Have(vs, val, x)} = vs
      BY <2>1 DEF Have, Values
    <3>2. n >= n \div 2 + 1
      BY <1>2
    <3> QED BY <1>1, <3>1, <3>2 DEF MajorityOf
  <2>2. CASE x # 0
    <3>1. x - 1 \in Nat /\ x - 1 < x /\ x - 1 + 1 = x
      BY <1>6, <2>2
    <3>2. AtMost(vs, val, x - 1) < k
      BY <1>6, <3>1
    <3>3. MajorityOf(vs, Have(vs, val, x - 1 + 1))
      BY <1>7, <3>1, <3>2
    <3> QED BY <3>1, <3>3
  <2> QED BY <2>1, <2>2
<1>9. ASSUME NEW m \in Nat, m > x, MajorityOf(vs, Have(vs, val, m)) PROVE FALSE
  <2>1. PICK A, B : A = {s \in vs : s \in Have(vs, val, m)} /\ B = {s \in vs : val[s] > x}
    OBVIOUS
  <2>2. A \in SUBSET B /\ B \in SUBSET vs
    BY <1>6, <1>9, <2>1 DEF Have, Values
  <2>3. IsFiniteSet(B) /\ Cardinality(B) \in Nat
    BY <2>2, PartCount DEF Values
  <2>4. Cardinality(A) <= Cardinality(B) /\ Cardinality(A) \in Nat
    BY <2>2, <2>3, PartCount
  <2>5. Cardinality(A) >= n \div 2 + 1
    BY <1>1, <1>9, <2>1 DEF MajorityOf
  <2>6. AtMost(vs, val, x) \in Nat /\ Cardinality(B) = n - AtMost(vs, val, x)
    BY <1>1, <1>6, <2>1, AtMostIs
  <2> QED BY <1>2, <1>4, <1>6, <2>3, <2>4, <2>5, <2>6
<1> QED BY <1>6, <1>8, <1>9

\* The voters that have acknowledged m.
Acked(cfg, val, m) == Have(AllVoters(cfg), val, m)

\* The values that the tracker of a configuration holds.
Tracked(cfg, val, N) == N \in Nat /\ \A s \in AllVoters(cfg) : val[s] \in 0..N

\* A majority of one set of voters.
LEMMA AckedIn ==
  ASSUME NEW cfg, NEW val, NEW vs, vs \subseteq AllVoters(cfg), NEW m
  PROVE  MajorityOf(vs, Acked(cfg, val, m)) <=> MajorityOf(vs, Have(vs, val, m))
<1>1. {s \in vs : s \in Acked(cfg, val, m)} = {s \in vs : s \in Have(vs, val, m)}
  BY DEF Acked, Have
<1> QED BY <1>1 DEF MajorityOf

\* More voters have acknowledged less.
LEMMA AckedLess ==
  ASSUME NEW cfg, IsConfiguration(cfg), NEW val, NEW N, Tracked(cfg, val, N),
         NEW vs \in VoterSets(cfg), NEW n \in Nat, NEW m \in Nat, n <= m,
         MajorityOf(vs, Acked(cfg, val, m))
  PROVE  MajorityOf(vs, Acked(cfg, val, n))
<1>1. PICK A, B : A = {s \in vs : s \in Acked(cfg, val, m)} /\ B = {s \in vs : s \in Acked(cfg, val, n)}
  OBVIOUS
<1>2. IsFiniteSet(vs) /\ Cardinality(vs) \in Nat
  BY VotersAreFinite
<1>3. A \in SUBSET B /\ B \in SUBSET vs
  BY <1>1 DEF Acked, Have, Tracked
<1>4. IsFiniteSet(B) /\ Cardinality(B) \in Nat
  BY <1>2, <1>3, PartCount
<1>5. Cardinality(A) <= Cardinality(B) /\ Cardinality(A) \in Nat
  BY <1>3, <1>4, PartCount
<1> QED BY <1>1, <1>2, <1>4, <1>5 DEF MajorityOf

\* tracker::committed() is the largest index, or read id, that is acknowledged wherever the
\* configuration asks for a majority; if none is above prev, it stays there.
THEOREM CommittedIs ==
  ASSUME NEW cfg, IsConfiguration(cfg), NEW val, NEW N, Tracked(cfg, val, N), NEW prev \in Nat,
         NEW n, n = Committed(cfg, val, prev)
  PROVE  /\ n \in Nat /\ n >= prev
         /\ n > prev => Decides(cfg, Acked(cfg, val, n))
         /\ \A m \in Nat : m > n => ~Decides(cfg, Acked(cfg, val, m))
<1>1. ASSUME NEW vs \in VoterSets(cfg)
      PROVE  /\ Values(vs, val, N) /\ vs \subseteq AllVoters(cfg) /\ IsFiniteSet(vs)
             /\ MajorityAbove(vs, val, prev) <=> MajorityOf(vs, Acked(cfg, val, prev + 1))
  <2>1. vs \subseteq AllVoters(cfg) /\ IsFiniteSet(vs)
    BY VotersAreFinite
  <2>2. Values(vs, val, N)
    BY <2>1 DEF Values, Tracked
  <2>3. {s \in vs : s \in Acked(cfg, val, prev + 1)} = {s \in vs : val[s] > prev}
    BY <2>1 DEF Acked, Have, Tracked
  <2> QED BY <2>1, <2>2, <2>3 DEF MajorityAbove, MajorityOf
<1>2. CASE ~(\A vs \in VoterSets(cfg) : MajorityAbove(vs, val, prev))
  <2>1. n = prev
    BY <1>2 DEF Committed
  <2>2. PICK vs \in VoterSets(cfg) : ~MajorityOf(vs, Acked(cfg, val, prev + 1))
    BY <1>1, <1>2
  <2>3. ASSUME NEW m \in Nat, m > n, Decides(cfg, Acked(cfg, val, m)) PROVE FALSE
    <3>1. prev + 1 \in Nat /\ prev + 1 <= m
      BY <2>1, <2>3
    <3>2. MajorityOf(vs, Acked(cfg, val, m))
      BY <2>3 DEF Decides
    <3> QED BY <2>2, <3>1, <3>2, AckedLess
  <2> QED BY <2>1, <2>3
<1>3. CASE \A vs \in VoterSets(cfg) : MajorityAbove(vs, val, prev)
  <2>1. PICK P : P = {Pivot(vs, val) : vs \in VoterSets(cfg)}
    OBVIOUS
  <2>2. n = CHOOSE x \in P : \A y \in P : x <= y
    BY <1>3, <2>1 DEF Committed
  <2>3. ASSUME NEW vs \in VoterSets(cfg)
        PROVE  /\ Pivot(vs, val) \in Nat /\ Pivot(vs, val) > prev
               /\ MajorityOf(vs, Acked(cfg, val, Pivot(vs, val)))
               /\ \A m \in Nat : m > Pivot(vs, val) => ~MajorityOf(vs, Acked(cfg, val, m))
    <3>1. PICK x : x = Pivot(vs, val)
      OBVIOUS
    <3>2. MajorityOf(vs, Acked(cfg, val, prev + 1))
      BY <1>1, <1>3
    <3>3. vs # {}
      <4> SUFFICES ASSUME vs = {} PROVE FALSE
        OBVIOUS
      <4>1. {s \in vs : s \in Acked(cfg, val, prev + 1)} = {}
        OBVIOUS
      <4>2. Cardinality({}) = 0
        BY FS_EmptySet
      <4>3. 0 >= 0 \div 2 + 1
        BY <3>2, <4>1, <4>2 DEF MajorityOf
      <4> QED BY <4>3
    <3>4. /\ x \in Nat
          /\ MajorityOf(vs, Have(vs, val, x))
          /\ \A m \in Nat : m > x => ~MajorityOf(vs, Have(vs, val, m))
      BY <1>1, <3>1, <3>3, PivotIs
    <3>5. /\ MajorityOf(vs, Acked(cfg, val, x))
          /\ \A m \in Nat : m > x => ~MajorityOf(vs, Acked(cfg, val, m))
      BY <1>1, <3>4, AckedIn
    <3>6. x > prev
      <4>1. prev + 1 \in Nat /\ ~(prev + 1 > x)
        BY <3>2, <3>5
      <4> QED BY <3>4, <4>1
    <3> QED BY <3>1, <3>4, <3>5, <3>6
  <2>4. P \in SUBSET Nat /\ P # {}
    <3>1. VoterSets(cfg) # {}
      BY DEF VoterSets
    <3> QED BY <2>1, <2>3, <3>1
  <2>5. \E x \in P : \A y \in P : x <= y
    BY <2>4, LeastNumber
  <2>6. n \in P /\ \A y \in P : n <= y
    BY <2>2, <2>5
  <2>7. n \in Nat /\ n > prev
    BY <2>1, <2>3, <2>6
  <2>8. Decides(cfg, Acked(cfg, val, n))
    <3> SUFFICES ASSUME NEW vs \in VoterSets(cfg) PROVE MajorityOf(vs, Acked(cfg, val, n))
      BY DEF Decides
    <3>1. n <= Pivot(vs, val)
      BY <2>1, <2>6
    <3> QED BY <2>3, <2>7, <3>1, AckedLess
  <2>9. ASSUME NEW m \in Nat, m > n, Decides(cfg, Acked(cfg, val, m)) PROVE FALSE
    <3>1. PICK vs \in VoterSets(cfg) : n = Pivot(vs, val)
      BY <2>1, <2>6
    <3>2. MajorityOf(vs, Acked(cfg, val, m))
      BY <2>9 DEF Decides
    <3> QED BY <2>3, <2>9, <3>1, <3>2
  <2> QED BY <2>7, <2>8, <2>9
<1> QED BY <1>2, <1>3

\* Two candidates that win under the same configuration, or under one and the next, have a
\* vote in common.
THEOREM ElectionsMeet ==
  ASSUME NEW cfg, NEW next, IsConfiguration(cfg), Successive(cfg, next),
         NEW v, NEW w, TallyVotes(v, cfg) = "WON", TallyVotes(w, next) = "WON"
  PROVE  v.granted \cap w.granted # {}
<1>1. Decides(cfg, v.granted) /\ Decides(next, w.granted)
  BY TallyIs
<1> QED BY <1>1, DecisionsMeet

\* A candidate that wins has the vote of a server that acknowledged what a leader has
\* committed, when leader and candidate have the same configuration, or one of them the next.
THEOREM CommitsMeetElections ==
  ASSUME NEW cfg, NEW next, IsConfiguration(cfg), IsConfiguration(next),
         Successive(cfg, next) \/ Successive(next, cfg),
         NEW val, NEW N, Tracked(cfg, val, N), NEW prev \in Nat,
         NEW n, n = Committed(cfg, val, prev), n > prev,
         NEW v, TallyVotes(v, next) = "WON"
  PROVE  \E s \in v.granted : s \in AllVoters(cfg) /\ val[s] >= n
<1>1. Decides(cfg, Acked(cfg, val, n))
  BY CommittedIs
<1>2. Decides(next, v.granted)
  BY TallyIs
<1>3. Acked(cfg, val, n) \cap v.granted # {}
  <2>1. CASE Successive(cfg, next)
    BY <1>1, <1>2, <2>1, DecisionsMeet
  <2>2. CASE Successive(next, cfg)
    <3>1. v.granted \cap Acked(cfg, val, n) # {}
      BY <1>1, <1>2, <2>2, DecisionsMeet
    <3> QED BY <3>1
  <2> QED BY <2>1, <2>2
<1> QED BY <1>3 DEF Acked, Have
=============================================================================
