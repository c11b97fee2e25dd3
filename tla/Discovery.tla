----------------------------- MODULE Discovery -----------------------------
(* How servers that start together agree on one group 0: service/raft/        *)
(* discovery.cc, persistent_discovery and join_group0() of raft_group0.cc.     *)
(*                                                                            *)
(* Each server extends the set of peers it knows by exchanging peer lists.     *)
(* The one whose peers have all responded, and which has the smallest id of    *)
(* them, creates the group; the others learn of it from a member.  Peers are   *)
(* known by address first and by Raft id later.  A server may crash at any     *)
(* moment and start over with the peers in its table; calls may be lost.       *)
EXTENDS Naturals, FiniteSets, Sequences

CONSTANTS
  Node,      \* servers: numbers, a server's number is its address and its id
  Plans      \* the scenarios to explore: a function from names to plans

VARIABLES
  plan,      \* the scenario
  server,    \* server[n]: the memory of n
  table,     \* table[n]: system.discovery, and the group 0 id n has stored
  exchanges, \* calls of group0_peer_exchange under way
  config,    \* config[g]: the members of group g
  left,      \* crashes and faults that may still happen
  forgotten  \* history: has the creator of a group crashed between the two writes below?
discoveryVars == <<plan, server, table, exchanges, config, left, forgotten>>

\* A scenario says what the seeds of each server are, which servers are up at first (the
\* others start at any time), which of them may crash in which phase (crashing), and how
\* many crashes and lost calls may happen.
Seeds == Plans[plan].seeds
Members == DOMAIN Seeds

\* What discovery.hh asks of the seeds: they are servers, and some server can be reached from
\* every other one, that is, it is in every set that contains the seeds of its servers.
Closed(A, seeds) == \A p \in A : seeds[p] \subseteq A
SeedsMeet(seeds) ==
  \E v \in DOMAIN seeds : \A A \in SUBSET DOMAIN seeds : A # {} /\ Closed(A, seeds) => v \in A
SoundPlans ==
  /\ Node \subseteq Nat \ {0}
  /\ \A p \in DOMAIN Plans :
       /\ Plans[p].up \subseteq DOMAIN Plans[p].seeds /\ DOMAIN Plans[p].seeds \subseteq Node
       /\ \A n \in DOMAIN Plans[p].seeds : Plans[p].seeds[n] \subseteq Node
       /\ SeedsMeet(Plans[p].seeds)
NoGroup == 0
Nothing == [kind |-> "nothing"]

\* A peer list: addresses, and those of them whose Raft id is known.
List(ips, ids) == [ips |-> ips, ids |-> ids]
Join(l, k) == List(l.ips \cup k.ips, l.ids \cup k.ids)
NoPeers == List({}, {})

Off == [phase |-> "off", peers |-> NoPeers, responded |-> {}, requests |-> {}, leader |-> FALSE,
        group |-> NoGroup, via |-> 0, started |-> NoGroup, announced |-> FALSE]

----------------------------------------------------------------------------
(* class discovery                                                         *)

\* _peer_list
PeerList(n, s) == Join(s.peers, List({n}, {n}))

\* Faulty variant: the peers need not have responded.
MaybeBecomeLeader_Unheard(n, s) == s.peers.ips = s.peers.ids /\ \A p \in s.peers.ips : n < p
\* maybe_become_leader(): the id of a peer that is not known yet counts as the smallest.
MaybeBecomeLeader(n, s) ==
  /\ s.responded = s.peers.ips
  /\ s.peers.ips = s.peers.ids
  /\ \A p \in s.peers.ips : n < p

\* step()
Learn(n, s, list) ==
  LET fresh == list.ips \ (s.peers.ips \cup {n})
      t == [s EXCEPT !.peers = Join(@, List(list.ips \ {n}, list.ids \ {n}))]
  IN  CASE s.leader -> s
        [] ~s.leader /\ MaybeBecomeLeader(n, t) -> [t EXCEPT !.leader = TRUE]
        [] OTHER -> [t EXCEPT !.requests = @ \cup {[to |-> p, list |-> PeerList(n, t)] : p \in fresh}]

\* response()
Response(n, s, from, list) == Learn(n, [s EXCEPT !.responded = @ \cup {from}], list)

\* Faulty variant: peers that did not respond are not asked again.
Again_New(n, s) == {}
\* tick() with nothing to send: whom to ask after the pause.
Again(n, s) ==
  IF s.responded = s.peers.ips THEN {[to |-> p, list |-> NoPeers] : p \in s.peers.ips}
  ELSE {[to |-> p, list |-> PeerList(n, s)] : p \in s.peers.ips \ s.responded}

----------------------------------------------------------------------------
(* persistent_discovery and join_group0()                                  *)

\* persistent_discovery::make(): the stored peers, or else the seeds.
Discovering(n, started) ==
  Learn(n, [Off EXCEPT !.phase = "discovering", !.started = started],
        IF table[n].peers.ips = {} THEN List(Seeds[n], {}) ELSE table[n].peers)

DiscoveryInit ==
  /\ plan \in DOMAIN Plans
  /\ table = [n \in Node |-> [peers |-> NoPeers, group |-> NoGroup]]
  /\ server = [n \in Node |-> IF n \in Plans[plan].up THEN Discovering(n, NoGroup) ELSE Off]
  /\ exchanges = {} /\ config = << >>
  /\ left = Plans[plan].left /\ forgotten = FALSE

\* The server starts; one that has stored a group 0 id belongs to it.
Start(n) ==
  /\ server[n].phase = "off" /\ n \in Members
  /\ server' = [server EXCEPT ![n] =
       IF table[n].group # NoGroup
       THEN [Off EXCEPT !.phase = "member", !.group = table[n].group, !.started = table[n].group,
                    !.announced = TRUE]
       ELSE Discovering(n, NoGroup)]
  /\ UNCHANGED <<plan, table, exchanges, config, left, forgotten>>

\* persistent_discovery stores what it has learned before that has consequences: before a
\* tick is acted upon and before a reply leaves.  A crash between the two is a crash before
\* both, and whoever else sees the new peers meanwhile stores them as well, so that each
\* of the two is one step here.
Store(n, list) == table' = [table EXCEPT ![n].peers = Join(@, list)]

\* run(), one turn of the loop, after the calls of the last one have ended: tick() returns
\* a new group, requests to send, or a pause.
Tick(n) ==
  LET s == server[n]
  IN  /\ s.phase = "discovering" /\ \A c \in exchanges : c.from = n => ~c.awaited
      /\ Store(n, PeerList(n, s))
      /\ \/ /\ s.leader
            /\ config' = Append(config, {n})
            /\ server' = [server EXCEPT ![n].phase = "found", ![n].group = Len(config'), ![n].via = n]
            /\ UNCHANGED exchanges
         \/ /\ ~s.leader /\ s.requests # {}
            /\ exchanges' = exchanges \cup
                 {[from |-> n, to |-> r.to, list |-> r.list, reply |-> Nothing, awaited |-> TRUE] :
                    r \in s.requests}
            /\ server' = [server EXCEPT ![n].requests = {}]
            /\ UNCHANGED config
         \/ /\ ~s.leader /\ s.requests = {}
            /\ server' = [server EXCEPT ![n].requests = Again(n, s)]
            /\ UNCHANGED <<exchanges, config>>
      /\ UNCHANGED <<plan, left, forgotten>>

\* peer_exchange(): the group 0 id in _group0, or what request() says of the peers, or
\* nothing, which just ends the call.
PeerExchange(c) ==
  LET s == server[c.to]
      t == Learn(c.to, s, c.list)
      list == PeerList(c.to, t)
      Reply(r) == exchanges' = (exchanges \ {c}) \cup
                    (IF c.awaited /\ r # Nothing THEN {[c EXCEPT !.reply = r]} ELSE {})
  IN  /\ c.reply = Nothing
      /\ \/ /\ s.phase = "discovering"
            /\ server' = [server EXCEPT ![c.to] = t]
            /\ Store(c.to, list)
            /\ Reply(IF t.leader THEN Nothing ELSE [kind |-> "peers", list |-> list])
         \/ /\ s.phase # "discovering"
            /\ Reply(IF s.announced THEN [kind |-> "group", group |-> s.group] ELSE Nothing)
            /\ UNCHANGED <<server, table>>
      /\ UNCHANGED <<plan, config, left, forgotten>>

\* n no longer waits for replies; what it has sent may still arrive.
GiveUp(n) ==
  {c \in exchanges : c.from # n} \cup
  {[c EXCEPT !.awaited = FALSE] : c \in {d \in exchanges : d.from = n /\ d.reply = Nothing}}

\* A reply arrives; the first group 0 id ends discovery and all its calls.
OnReply(c) ==
  LET n == c.from
  IN  /\ c.reply # Nothing
      /\ IF c.reply.kind = "group"
         THEN /\ server' = [server EXCEPT ![n].phase = "found", ![n].group = c.reply.group, ![n].via = c.to]
              /\ exchanges' = GiveUp(n)
         ELSE /\ server' = [server EXCEPT ![n] = Response(n, @, c.to, c.reply.list)]
              /\ exchanges' = exchanges \ {c}
      /\ UNCHANGED <<plan, table, config, left, forgotten>>

\* join_group0(): the Raft server of the group is started, unless it was before, for which
\* the group must be the same (or it is an internal error); start_server_for_group0() sets
\* _group0, before the group is stored.
StartServer(n) ==
  LET s == server[n]
  IN  /\ s.phase = "found" /\ s.started \in {NoGroup, s.group}
      /\ server' = [server EXCEPT ![n].started = IF @ = NoGroup THEN s.group ELSE @,
                                  ![n].announced = s.started = NoGroup,
                                  ![n].phase = IF n \in config[s.group] THEN "storing" ELSE "handshake"]
      /\ UNCHANGED <<plan, table, exchanges, config, left, forgotten>>

\* Can the server that n has learned of the group from add it?
CanAdd(n) ==
  LET s == server[n]
  IN  s.phase = "handshake" /\ server[s.via].announced /\ s.via \in config[s.group]

\* post_server_start() of the legacy handshaker: the server that told of the group adds
\* this one.  (Whether a majority of the group is up is left open.)
Handshake(n) ==
  /\ CanAdd(n)
  /\ config' = [config EXCEPT ![server[n].group] = @ \cup {n}]
  /\ server' = [server EXCEPT ![n].phase = "storing"]
  /\ UNCHANGED <<plan, table, exchanges, left, forgotten>>

\* set_raft_group0_id(), and _group0 is set (again).
StoreGroup(n) ==
  /\ server[n].phase = "storing"
  /\ table' = [table EXCEPT ![n].group = server[n].group]
  /\ server' = [server EXCEPT ![n].phase = "member", ![n].announced = TRUE]
  /\ UNCHANGED <<plan, exchanges, config, left, forgotten>>

----------------------------------------------------------------------------
(* Faults                                                                  *)

Spend(what) == left[what] > 0 /\ left' = [left EXCEPT ![what] = @ - 1]

\* A call times out; whatever it did where it arrived remains.
LoseCall(c) ==
  /\ IF c.awaited THEN Spend("fault") ELSE UNCHANGED left
  /\ exchanges' = exchanges \ {c}
  /\ UNCHANGED <<plan, server, table, config, forgotten>>

\* The handshake fails: nobody is there to do it, or the answer, or the request, is lost.
\* join_group0() starts discovery over.
FailHandshake(n) ==
  LET s == server[n]
  IN  /\ s.phase = "handshake"
      /\ \/ ~CanAdd(n) /\ UNCHANGED <<config, left>>
         \/ Spend("fault") /\ UNCHANGED config
         \/ Spend("fault") /\ config' = [config EXCEPT ![s.group] = @ \cup {n}]
      /\ server' = [server EXCEPT ![n] = Discovering(n, s.started)]
      /\ UNCHANGED <<plan, table, exchanges, forgotten>>

\* The memory is gone, and the calls that were made here or were to be served here.
CrashServer(n) ==
  /\ <<n, server[n].phase>> \in Plans[plan].crashing /\ Spend("crash")
  /\ forgotten' = (forgotten \/ (server[n].via = n /\ server[n].phase = "storing"))
  /\ server' = [server EXCEPT ![n] = Off]
  /\ exchanges' = {c \in GiveUp(n) : c.to # n \/ c.reply # Nothing}
  /\ UNCHANGED <<plan, table, config>>

----------------------------------------------------------------------------
Run(n) ==
  Start(n) \/ Tick(n) \/ StartServer(n) \/ Handshake(n) \/ StoreGroup(n)
Serve(c) == PeerExchange(c) \/ OnReply(c)

\* What follows after a creator has forgotten its group is not explored.
DiscoveryNext ==
  /\ ~forgotten
  /\ \/ \E n \in Node : Run(n) \/ FailHandshake(n) \/ CrashServer(n)
     \/ \E c \in exchanges : Serve(c) \/ LoseCall(c)

\* Servers start and run; a call that is not lost is answered.  A handshake that
\* nobody can do fails.
DiscoveryFairness ==
  /\ \A n \in Node :
       /\ WF_discoveryVars(~forgotten /\ Run(n))
       /\ WF_discoveryVars(~forgotten /\ ~CanAdd(n) /\ FailHandshake(n))
  /\ \A n, m \in Node :
       WF_discoveryVars(~forgotten /\ \E c \in exchanges : c.from = n /\ c.to = m /\ Serve(c))

DiscoverySpec == DiscoveryInit /\ [][DiscoveryNext]_discoveryVars /\ DiscoveryFairness

----------------------------------------------------------------------------
\* One group 0 comes out of discovery, whatever the order in which servers start, crash
\* and hear of each other: no two of them store different groups, a group that others were
\* added to is that group, and discovery run again finds the same one (the internal error
\* in join_group0()).  The exception is a creator that crashes after it has announced the
\* group and before it has stored it: it creates another one when it starts again.
OneGroup ==
  \/ forgotten
  \/ /\ \A n, m \in Node : Cardinality({table[n].group, table[m].group} \ {NoGroup}) <= 1
     /\ \A n \in Node, g \in 1..Len(config) :
          Cardinality(config[g]) > 1 => table[n].group \in {NoGroup, g}
     /\ \A n \in Node : server[n].phase = "found" => server[n].started \in {NoGroup, server[n].group}

\* Every server is in the group in the end (but for the same exception), although calls are
\* lost and servers crash, the leader of discovery among them: whoever did not respond is
\* asked again.
EveryoneJoins == <>[](forgotten \/ \A n \in Members : server[n].phase = "member")
=============================================================================
