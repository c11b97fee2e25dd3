-------------------------- MODULE FailureDetector --------------------------
(* direct_failure_detector/failure_detector.cc: which endpoints are pinged,    *)
(* and what the listeners are told about them.                                 *)
(*                                                                            *)
(* Requests to add and remove endpoints are collected on shard 0 and worked    *)
(* off by one fiber, which creates and destroys a worker per endpoint on some  *)
(* shard.  A worker has a fiber that pings and one that notifies listeners;    *)
(* the second sleeps on a condition variable that the first one signals.       *)
(*                                                                            *)
(* Time is the number of pings in a row that were not answered; each listener  *)
(* has a threshold of its own.  stop(), which comes after all subscriptions    *)
(* are gone, and the choice of a shard are not modelled.                       *)
EXTENDS Naturals, FiniteSets

CONSTANTS
  Endpoint,
  Listener,
  Threshold,    \* Threshold[l]: unanswered pings after which an endpoint is dead for l
  DetectorPlans \* the scenarios to explore: a function from names to plans

VARIABLES
  pingPlan,    \* the scenario
  wanted,      \* wanted[e]: the last request of the user (history)
  updates,     \* _endpoint_updates
  fiber,       \* what update_endpoint_fiber() is doing
  placed,      \* _workers on shard 0
  worker,      \* _shard_workers
  alive,       \* endpoint_liveness::alive by endpoint and listener
  marked,      \* endpoint_liveness::marked_alive
  view,        \* what a listener was told last
  registered,  \* _registered
  listening,   \* the listeners in _listeners_liveness
  answers,     \* answers[e]: does the endpoint answer pings in time?
  used         \* used[e]: how much of the bounds is used
detectorVars == <<pingPlan, wanted, updates, fiber, placed, worker, alive, marked, view, registered,
                  listening, answers, used>>

\* A scenario bounds the requests for each endpoint, how often it goes away or comes
\* back (flips), and how many listeners are unregistered (leaving).

NoUpdate == [step |-> "idle"]
NoTell == [alive |-> FALSE]
NoWorker == [phase |-> "none", ping |-> "ended", misses |-> 0, notify |-> "ended", tell |-> NoTell]
NewWorker ==
  [phase |-> "running", ping |-> "on", misses |-> 0, notify |-> "checking", tell |-> NoTell]
MaxMisses == CHOOSE k \in {Threshold[l] : l \in Listener} : \A l \in Listener : Threshold[l] <= k
AllDead(e) == \A l \in listening : ~alive[e][l]
Changed(e) == {l \in listening : alive[e][l] # marked[e][l]}

DetectorInit ==
  /\ pingPlan \in DOMAIN DetectorPlans
  /\ wanted = [e \in Endpoint |-> FALSE] /\ updates = [e \in Endpoint |-> "none"]
  /\ fiber = NoUpdate /\ placed = {} /\ worker = [e \in Endpoint |-> NoWorker]
  /\ alive = [e \in Endpoint |-> [l \in Listener |-> FALSE]]
  /\ marked = alive
  /\ view = [l \in Listener |-> [e \in Endpoint |-> FALSE]]
  /\ registered = Listener /\ listening = Listener
  /\ answers = [e \in Endpoint |-> TRUE]
  /\ used = [e \in Endpoint |-> [requests |-> 0, flips |-> 0]]

----------------------------------------------------------------------------
(* Shard 0                                                                 *)

\* add_endpoint(), remove_endpoint(): the last request for an endpoint replaces the others.
Request(e, update) ==
  /\ used[e].requests < DetectorPlans[pingPlan].requests[e]
  /\ used' = [used EXCEPT ![e].requests = @ + 1]
  /\ wanted' = [wanted EXCEPT ![e] = update = "added"]
  /\ updates' = [updates EXCEPT ![e] = update]
  /\ UNCHANGED <<pingPlan, fiber, placed, worker, alive, marked, view, registered, listening,
                 answers>>

\* Faulty variant: a request that came meanwhile is taken for served.
Served_Any(e, update) == [updates EXCEPT ![e] = "none"]
\* The update is done; one that the user has asked for meanwhile stays.
Served(e, update) == [updates EXCEPT ![e] = IF @ = update THEN "none" ELSE @]

\* update_endpoint_fiber() takes some update; adding what is there, or removing what is
\* not, is done at once.
TakeUpdate(e) ==
  LET update == updates[e]
      noop == (update = "added") = (e \in placed)
  IN  /\ fiber = NoUpdate /\ update # "none"
      /\ IF noop
         THEN updates' = Served(e, update) /\ UNCHANGED <<fiber, placed>>
         ELSE /\ fiber' = [step |-> IF update = "added" THEN "create" ELSE "destroy", ep |-> e]
              /\ placed' = IF update = "added" THEN placed \cup {e} ELSE placed
              /\ UNCHANGED updates
      /\ UNCHANGED <<pingPlan, wanted, worker, alive, marked, view, registered, listening, answers,
                     used>>

\* create_worker() on the shard chosen, and the end of add_endpoint().
CreateWorker ==
  LET e == fiber.ep
  IN  /\ fiber.step = "create"
      /\ worker' = [worker EXCEPT ![e] = NewWorker]
      /\ alive' = [alive EXCEPT ![e] = [l \in Listener |-> FALSE]]
      /\ marked' = [marked EXCEPT ![e] = [l \in Listener |-> FALSE]]
      /\ fiber' = NoUpdate /\ updates' = Served(e, "added")
      /\ UNCHANGED <<pingPlan, wanted, placed, view, registered, listening, answers, used>>

\* The condition variable is signalled: a fiber that waits looks again.
Signalled(w) == [w EXCEPT !.notify = IF @ = "waiting" THEN "checking" ELSE @]

\* destroy_worker(): abort, wait for the pings to end, call the endpoint dead and let the
\* listeners know, wait for the notifications to end.
AbortWorker ==
  /\ fiber.step = "destroy"
  /\ worker' = [worker EXCEPT ![fiber.ep].phase = "stopping"]
  /\ fiber' = [fiber EXCEPT !.step = "ping ends"]
  /\ UNCHANGED <<pingPlan, wanted, updates, placed, alive, marked, view, registered, listening,
                 answers, used>>
\* Faulty variant: the endpoint is forgotten as it is.
PingsEnded_AsIs ==
  LET e == fiber.ep
  IN  /\ fiber.step = "ping ends" /\ worker[e].ping = "ended"
      /\ worker' = [worker EXCEPT ![e].notify = IF @ = "waiting" THEN "ended" ELSE @]
      /\ fiber' = [fiber EXCEPT !.step = "notify ends"]
      /\ UNCHANGED <<pingPlan, wanted, updates, placed, alive, marked, view, registered, listening,
                     answers, used>>
PingsEnded ==
  LET e == fiber.ep
  IN  /\ fiber.step = "ping ends" /\ worker[e].ping = "ended"
      /\ alive' = [alive EXCEPT ![e] = [l \in Listener |-> FALSE]]
      /\ worker' = [worker EXCEPT ![e] = Signalled(@)]
      /\ fiber' = [fiber EXCEPT !.step = "notify ends"]
      /\ UNCHANGED <<pingPlan, wanted, updates, placed, marked, view, registered, listening,
                     answers, used>>
\* The end of destroy_worker() and of remove_endpoint().
WorkerDestroyed ==
  LET e == fiber.ep
  IN  /\ fiber.step = "notify ends" /\ worker[e].notify = "ended"
      /\ worker' = [worker EXCEPT ![e] = NoWorker]
      /\ placed' = placed \ {e}
      /\ fiber' = NoUpdate /\ updates' = Served(e, "removed")
      /\ UNCHANGED <<pingPlan, wanted, alive, marked, view, registered, listening, answers, used>>

----------------------------------------------------------------------------
(* A worker                                                                *)

\* ping_fiber(), one turn: a ping is answered, or the listeners whose threshold has
\* passed since the last answer call the endpoint dead.  After an abort the next sleep
\* ends the fiber, whatever came of a ping that was under way.
PingOnce(e) ==
  LET misses == IF answers[e] THEN 0
                ELSE IF worker[e].misses < MaxMisses THEN worker[e].misses + 1 ELSE MaxMisses
      now == [l \in Listener |-> IF answers[e] THEN TRUE ELSE alive[e][l] /\ misses < Threshold[l]]
      w == [worker[e] EXCEPT !.misses = misses,
                            !.ping = IF worker[e].phase = "stopping" THEN "ended" ELSE @]
      changed == \E l \in listening : now[l] # alive[e][l]
  IN  /\ worker[e].ping = "on"
      /\ alive' = [alive EXCEPT ![e] = now]
      /\ worker' = [worker EXCEPT ![e] = IF changed THEN Signalled(w) ELSE w]
      /\ UNCHANGED <<pingPlan, wanted, updates, fiber, placed, marked, view, registered, listening,
                     answers, used>>
PingAborted(e) ==
  /\ worker[e].ping = "on" /\ worker[e].phase = "stopping"
  /\ worker' = [worker EXCEPT ![e].ping = "ended"]
  /\ UNCHANGED <<pingPlan, wanted, updates, fiber, placed, alive, marked, view, registered, listening,
                 answers, used>>

\* notify_fiber() looks for a listener to tell, or ends, or waits.
Notify(e) ==
  /\ worker[e].notify = "checking"
  /\ \/ \E l \in Changed(e) :
          /\ marked' = [marked EXCEPT ![e][l] = alive[e][l]]
          /\ worker' = [worker EXCEPT ![e].notify = "telling", ![e].tell = [to |-> l, alive |-> alive[e][l]]]
     \/ /\ Changed(e) = {}
        /\ worker' = [worker EXCEPT ![e].notify =
                        IF worker[e].phase = "stopping" /\ AllDead(e) THEN "ended" ELSE "waiting"]
        /\ UNCHANGED marked
  /\ UNCHANGED <<pingPlan, wanted, updates, fiber, placed, alive, view, registered, listening,
                 answers, used>>

Telling(e) == worker[e].notify = "telling"
\* mark() on the shard of the listener, if that is still registered.
Mark(e) ==
  LET m == worker[e].tell
  IN  /\ Telling(e)
      /\ view' = IF m.to \in registered THEN [view EXCEPT ![m.to][e] = m.alive] ELSE view
      /\ worker' = [worker EXCEPT ![e].notify = "checking", ![e].tell = NoTell]
      /\ UNCHANGED <<pingPlan, wanted, updates, fiber, placed, alive, marked, registered, listening,
                     answers, used>>

\* ~subscription(), and remove_listener() in the background.
Unregister(l) ==
  /\ l \in registered /\ Cardinality(Listener \ registered) < DetectorPlans[pingPlan].leaving
  /\ registered' = registered \ {l}
  /\ UNCHANGED <<pingPlan, wanted, updates, fiber, placed, worker, alive, marked, view, listening,
                 answers, used>>
RemoveListener(l) ==
  /\ l \in listening \ registered
  /\ listening' = listening \ {l}
  /\ UNCHANGED <<pingPlan, wanted, updates, fiber, placed, worker, alive, marked, view, registered,
                 answers, used>>

\* The endpoint goes away or comes back.
Flip(e) ==
  /\ used[e].flips < DetectorPlans[pingPlan].flips[e]
  /\ used' = [used EXCEPT ![e].flips = @ + 1]
  /\ answers' = [answers EXCEPT ![e] = ~@]
  /\ UNCHANGED <<pingPlan, wanted, updates, fiber, placed, worker, alive, marked, view, registered,
                 listening>>

----------------------------------------------------------------------------
UpdateFiber ==
  (\E e \in Endpoint : TakeUpdate(e)) \/ CreateWorker \/ AbortWorker \/ PingsEnded \/ WorkerDestroyed
PingFiber(e) == PingOnce(e) \/ PingAborted(e)
NotifyFiber(e) == Notify(e) \/ Mark(e)

DetectorNext ==
  \/ UpdateFiber
  \/ \E e \in Endpoint : \/ PingFiber(e) \/ NotifyFiber(e) \/ Flip(e)
                         \/ \E update \in {"added", "removed"} : Request(e, update)
  \/ \E l \in Listener : Unregister(l) \/ RemoveListener(l)

\* Fibers run, and pings end; users, endpoints and listeners do what they want.
DetectorFairness ==
  /\ WF_detectorVars(UpdateFiber)
  /\ \A e \in Endpoint : WF_detectorVars(PingFiber(e)) /\ WF_detectorVars(NotifyFiber(e))

DetectorSpec == DetectorInit /\ [][DetectorNext]_detectorVars /\ DetectorFairness

----------------------------------------------------------------------------
\* What a listener is told follows a protocol (failure_detector.hh): alive comes after dead
\* and dead after alive; an endpoint that is not in the detected set, or not yet again, was
\* last called dead; and no worker is created twice or destroyed without being there.
NotificationsAlternate ==
  /\ \A e \in Endpoint : Telling(e) =>
       LET m == worker[e].tell IN m.to \in registered => view[m.to][e] # m.alive
  /\ \A e \in Endpoint, l \in registered : worker[e].phase = "none" => ~view[l][e]
  /\ \A e \in Endpoint : fiber # NoUpdate /\ fiber.ep = e =>
       (fiber.step = "create") = (worker[e].phase = "none")

\* What a listener was told last is true in the end: alive if the user has the endpoint in
\* the detected set and it answers, dead otherwise.  No request, signal or notification is lost.
ListenersLearn ==
  <>[](\A e \in Endpoint, l \in registered : view[l][e] = (wanted[e] /\ answers[e]))
=============================================================================
