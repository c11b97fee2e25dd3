----------------------------- MODULE RaftVoting -----------------------------
(***************************************************************************)
(* What a Raft group promises about elections, whatever its servers        *)
(* persist, lose in crashes and send: a server votes at most once in a     *)
(* term, and a term has at most one leader.                                *)
(*                                                                         *)
(* A server acts on a volatile term and vote (`cur').  Its I/O fiber takes *)
(* a copy of them (`saved', what fsm::get_output() returned last), writes  *)
(* the copy to disk (`durable'), and only then lets statements made so far *)
(* leave the server (server_impl::process_fsm_output()).  A statement is a *)
(* granted vote, or a claim to leadership: a message only leaders send.    *)
(***************************************************************************)
EXTENDS Integers

CONSTANTS
  Server,
  Nil,      \* no vote
  Quorum,   \* the sets of servers whose votes elect a leader
  MaxTerm   \* bound: the largest term

ASSUME VotingAssumption ==
  /\ Nil \notin Server
  /\ Quorum \subseteq SUBSET Server
  /\ \A Q, R \in Quorum : Q \cap R # {}
  /\ MaxTerm \in Nat

VARIABLES
  cur,      \* cur[s]: term and vote of s, in memory
  saved,    \* saved[s]: the copy its I/O fiber works on
  durable,  \* durable[s]: what is on its disk
  leading,  \* leading[s]: is s a leader (of the term of cur[s])?
  out,      \* out[s]: statements made but not yet sent
  sent      \* all statements sent so far
vars == <<cur, saved, durable, leading, out, sent>>

Promise   == [term : 0..MaxTerm, vote : Server \cup {Nil}]
Statement == [by : Server, term : 0..MaxTerm, for : Server, kind : {"vote", "claim"}]

\* Faulty variant: a vote may be changed.
Follows_AnyVote(q, p) == p.term <= q.term

\* A term and vote may follow another: terms grow, a vote once given stays.
Follows(q, p) == p.term < q.term \/ (p.term = q.term /\ p.vote \in {Nil, q.vote})

\* Faulty variant: having reached the term is enough.
Covered_TermOnly(x, p) == x.term <= p.term

\* A statement that a server with term and vote p will never contradict.
Covered(x, p) == x.term < p.term \/ (x.term = p.term /\ x.for = p.vote)

Vote(s, t, for) == [by |-> s, term |-> t, for |-> for, kind |-> "vote"]
Claim(s, t)     == [by |-> s, term |-> t, for |-> s, kind |-> "claim"]

\* Enough votes for s were sent, its own set aside.
Elected(s, t) == \E Q \in Quorum : \A q \in Q \ {s} : Vote(q, t, s) \in sent

Init ==
  /\ cur \in [Server -> Promise]
  /\ saved = cur /\ durable = cur
  /\ leading = [s \in Server |-> FALSE]
  /\ out = [s \in Server |-> {}]
  /\ sent = {}

\* Faulty variant: a refusal is stated as a vote.
MayState_Refusals(s, p, lead) ==
  {Vote(s, p.term, p.vote)} \cup (IF lead THEN {Claim(s, p.term)} ELSE {})

\* What a server with term and vote p, leader or not, may state.
MayState(s, p, lead) ==
  (IF p.vote = Nil THEN {} ELSE {Vote(s, p.term, p.vote)})
  \cup (IF lead THEN {Claim(s, p.term)} ELSE {})

\* Handling a message or a timeout: adopt a term, vote, become leader with the
\* votes of a quorum, stay leader, step down; and say so.
Handle(s) ==
  \E p \in Promise, lead \in BOOLEAN :
    /\ Follows(p, cur[s])
    /\ lead => \/ leading[s] /\ p.term = cur[s].term
               \/ p.vote = s /\ Elected(s, p.term)
    /\ cur' = [cur EXCEPT ![s] = p]
    /\ leading' = [leading EXCEPT ![s] = lead]
    /\ \E new \in SUBSET MayState(s, p, lead) :
         out' = [out EXCEPT ![s] = @ \cup new]
    /\ UNCHANGED <<saved, durable, sent>>

\* The I/O fiber takes a copy; a leader may make claims while it does.
Poll(s) ==
  /\ saved[s] = durable[s]
  /\ saved' = [saved EXCEPT ![s] = cur[s]]
  /\ \E new \in SUBSET {x \in MayState(s, cur[s], leading[s]) : x.kind = "claim"} :
       out' = [out EXCEPT ![s] = @ \cup new]
  /\ UNCHANGED <<cur, durable, leading, sent>>

\* Faulty variant: everything queued is sent.
Process_SendsAll(s) ==
  /\ durable' = [durable EXCEPT ![s] = saved[s]]
  /\ sent' = sent \cup out[s] /\ out' = [out EXCEPT ![s] = {}]
  /\ UNCHANGED <<cur, saved, leading>>

\* It writes the copy, then sends statements the copy covers.
Process(s) ==
  /\ durable' = [durable EXCEPT ![s] = saved[s]]
  /\ \E now \in SUBSET {x \in out[s] : Covered(x, saved[s])} : sent' = sent \cup now
  /\ \E rest \in SUBSET out[s] : out' = [out EXCEPT ![s] = rest]
  /\ UNCHANGED <<cur, saved, leading>>

\* A crash loses all that is not on disk; the copy in hand may have got there, and
\* then the statements it covers may have left.
Crash(s) ==
  \E p \in {durable[s], saved[s]} :
    /\ durable' = [durable EXCEPT ![s] = p]
    /\ cur' = [cur EXCEPT ![s] = p]
    /\ saved' = [saved EXCEPT ![s] = p]
    /\ leading' = [leading EXCEPT ![s] = FALSE]
    /\ \E now \in SUBSET {x \in out[s] : Covered(x, p)} : sent' = sent \cup now
    /\ out' = [out EXCEPT ![s] = {}]

Next == \E s \in Server : Handle(s) \/ Poll(s) \/ Process(s) \/ Crash(s)

Spec == Init /\ [][Next]_vars

----------------------------------------------------------------------------
\* Every variable has its type.
TypeOK ==
  /\ cur \in [Server -> Promise]
  /\ saved \in [Server -> Promise]
  /\ durable \in [Server -> Promise]
  /\ leading \in [Server -> BOOLEAN]
  /\ out \in [Server -> SUBSET Statement]
  /\ sent \in SUBSET Statement

\* Over the whole history, crashes included, a server supports one candidate per
\* term: in the votes it grants and in the claims it makes itself.
VotesOnce ==
  \A x, y \in sent : x.by = y.by /\ x.term = y.term => x.for = y.for

\* Over the whole history a term has one leader: no two servers send messages of a
\* leader of the same term, even if the first has crashed in between.
OneClaimPerTerm ==
  \A x, y \in sent : x.kind = "claim" /\ y.kind = "claim" /\ x.term = y.term => x.by = y.by

\* At no moment do two servers consider themselves leaders of the same term, or
\* does one while the other has sent messages as its leader.
OneLeaderPerTerm ==
  \A s \in Server : leading[s] =>
    /\ \A t \in Server : leading[t] /\ cur[t].term = cur[s].term => s = t
    /\ \A x \in sent : x.kind = "claim" /\ x.term = cur[s].term => x.by = s
=============================================================================
