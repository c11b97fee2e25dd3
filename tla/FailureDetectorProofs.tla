----------------------- MODULE FailureDetectorProofs -----------------------
(***************************************************************************)
(* Proofs about FailureDetector for any endpoints, listeners, thresholds   *)
(* and scenarios.                                                          *)
(***************************************************************************)
EXTENDS FailureDetector, TLAPS

Phases == {"none", "running", "stopping"}
Notifying == {"checking", "waiting", "telling", "ended"}
Tells == [alive : BOOLEAN] \cup [to : Listener, alive : BOOLEAN]
Fibers == {NoUpdate} \cup [step : {"create", "destroy", "ping ends", "notify ends"}, ep : Endpoint]

\* The shape of a worker; the number of misses does not matter here.
IsWorker(w) ==
  /\ w = [phase |-> w.phase, ping |-> w.ping, misses |-> w.misses, notify |-> w.notify,
          tell |-> w.tell]
  /\ w.phase \in Phases /\ w.notify \in Notifying /\ w.tell \in Tells
  /\ w.notify = "telling" => w.tell \in [to : Listener, alive : BOOLEAN]

Types ==
  /\ updates \in [Endpoint -> {"none", "added", "removed"}]
  /\ fiber \in Fibers /\ placed \subseteq Endpoint
  /\ worker = [e \in Endpoint |-> worker[e]] /\ \A e \in Endpoint : IsWorker(worker[e])
  /\ alive \in [Endpoint -> [Listener -> BOOLEAN]]
  /\ marked \in [Endpoint -> [Listener -> BOOLEAN]]
  /\ view \in [Listener -> [Endpoint -> BOOLEAN]]
  /\ registered \subseteq listening /\ listening \subseteq Listener

\* A worker is where shard 0 has placed one, but for the moment of its creation.
PlacedHaveWorkers ==
  /\ \A e \in Endpoint : e \in placed <=>
       worker[e].phase # "none" \/ (fiber # NoUpdate /\ fiber.step = "create" /\ fiber.ep = e)
  /\ fiber # NoUpdate => ((fiber.step = "create") <=> (worker[fiber.ep].phase = "none"))

\* What a listener was told last is what it is marked with, unless it is being told.
MarksAreViews ==
  \A e \in Endpoint, l \in registered :
    IF worker[e].notify = "telling" /\ worker[e].tell.to = l
    THEN marked[e][l] = worker[e].tell.alive /\ view[l][e] # marked[e][l]
    ELSE view[l][e] = marked[e][l]

\* The fiber that notifies ends only when all have been told that the endpoint is dead.
EndsWithDead ==
  \A e \in Endpoint :
    /\ worker[e].phase = "none" => worker[e].notify = "ended"
    /\ worker[e].notify = "ended" => \A l \in listening : marked[e][l] = FALSE

IInv == Types /\ PlacedHaveWorkers /\ MarksAreViews /\ EndsWithDead

\* Initially nothing is detected and nobody has been told anything.
LEMMA InitIInv == DetectorInit => IInv
<1> SUFFICES ASSUME DetectorInit PROVE IInv
  OBVIOUS
<1>1. NoTell \in Tells /\ IsWorker(NoWorker) /\ NoUpdate \in Fibers
  BY DEF NoTell, Tells, IsWorker, NoWorker, Phases, Notifying, Fibers
<1>2. Types
  BY <1>1 DEF DetectorInit, Types
<1>3. PlacedHaveWorkers
  BY DEF DetectorInit, PlacedHaveWorkers, NoWorker
<1>4. MarksAreViews /\ EndsWithDead
  BY DEF DetectorInit, MarksAreViews, EndsWithDead, NoWorker
<1> QED BY <1>2, <1>3, <1>4 DEF IInv

\* add_endpoint(), remove_endpoint(), and update_endpoint_fiber() taking a request: a worker
\* is created only where there is none, and destroyed only where there is one.
LEMMA UpdatesStep ==
  ASSUME IInv, NEW e \in Endpoint,
         TakeUpdate(e) \/ \E update \in {"added", "removed"} : Request(e, update)
  PROVE  IInv'
<1> USE DEF IInv
<1>1. UNCHANGED <<worker, alive, marked, view, registered, listening>>
  BY DEF TakeUpdate, Request
<1>2. /\ updates' \in [Endpoint -> {"none", "added", "removed"}]
      /\ fiber' \in Fibers /\ placed' \subseteq Endpoint /\ PlacedHaveWorkers'
  <2>1. CASE \E update \in {"added", "removed"} : Request(e, update)
    BY <2>1 DEF Request, Types, PlacedHaveWorkers
  <2>2. CASE TakeUpdate(e) /\ (updates[e] = "added") = (e \in placed)
    BY <2>2 DEF TakeUpdate, Types, PlacedHaveWorkers, Served
  <2>3. CASE TakeUpdate(e) /\ updates[e] = "added" /\ e \notin placed
    <3>1. /\ fiber = NoUpdate /\ fiber' = [step |-> "create", ep |-> e] /\ placed' = placed \cup {e}
          /\ UNCHANGED <<updates, worker>>
      BY <2>3 DEF TakeUpdate
    <3>2. fiber' # NoUpdate /\ fiber' \in Fibers /\ fiber'.step = "create" /\ fiber'.ep = e
      BY <3>1 DEF NoUpdate, Fibers
    <3>3. (e \in placed) <=> (worker[e].phase # "none")
      BY <3>1 DEF PlacedHaveWorkers
    <3>4. PlacedHaveWorkers'
      BY <2>3, <3>1, <3>2, <3>3 DEF PlacedHaveWorkers
    <3> QED BY <3>1, <3>2, <3>4 DEF Types
  <2>4. CASE TakeUpdate(e) /\ updates[e] # "added" /\ e \in placed
    <3>1. /\ fiber = NoUpdate /\ fiber' = [step |-> "destroy", ep |-> e] /\ placed' = placed
          /\ UNCHANGED <<updates, worker>>
      BY <2>4 DEF TakeUpdate
    <3>2. fiber' # NoUpdate /\ fiber' \in Fibers /\ fiber'.step = "destroy" /\ fiber'.ep = e
      BY <3>1 DEF NoUpdate, Fibers
    <3>3. (e \in placed) <=> (worker[e].phase # "none")
      BY <3>1 DEF PlacedHaveWorkers
    <3>4. PlacedHaveWorkers'
      BY <2>4, <3>1, <3>2, <3>3 DEF PlacedHaveWorkers
    <3> QED BY <3>1, <3>2, <3>4 DEF Types
  <2> QED BY <2>1, <2>2, <2>3, <2>4
<1>3. Types'
  BY <1>1, <1>2 DEF Types
<1>4. MarksAreViews' /\ EndsWithDead'
  BY <1>1 DEF MarksAreViews, EndsWithDead
<1> QED BY <1>2, <1>3, <1>4

\* A step that changes the worker of e alone, and neither what listeners are marked with
\* nor what they were told, keeps what is said of notifications.
LEMMA WorkerChange ==
  ASSUME IInv, NEW e \in Endpoint, NEW w, IsWorker(w),
         worker' = [worker EXCEPT ![e] = w],
         w.phase = worker[e].phase \/ (w.phase # "none" /\ worker[e].phase # "none"),
         w.tell = worker[e].tell, w.notify # worker[e].notify => w.notify \in {"checking", "waiting"},
         worker[e].notify = "telling" => w.notify = "telling",
         worker[e].phase = "none" => w.notify = "ended",
         UNCHANGED <<marked, view, registered, listening>>
  PROVE  /\ worker' = [x \in Endpoint |-> worker'[x]] /\ \A x \in Endpoint : IsWorker(worker'[x])
         /\ MarksAreViews' /\ EndsWithDead'
<1> USE DEF IInv
<1>1. worker'[e] = w /\ \A x \in Endpoint : x # e => worker'[x] = worker[x]
  BY DEF Types
<1>2. worker' = [x \in Endpoint |-> worker'[x]]
  BY DEF Types
<1>3. \A x \in Endpoint : IsWorker(worker'[x])
  BY <1>1 DEF Types
<1>4. MarksAreViews'
  BY <1>1 DEF MarksAreViews
<1>5. EndsWithDead'
  BY <1>1 DEF EndsWithDead
<1> QED BY <1>2, <1>3, <1>4, <1>5

\* A fiber with something to do has an endpoint to do it for.
LEMMA FiberTarget ==
  ASSUME IInv, fiber.step # "idle"
  PROVE  /\ fiber # NoUpdate /\ fiber.ep \in Endpoint
         /\ fiber \in [step : {"create", "destroy", "ping ends", "notify ends"}, ep : Endpoint]
<1>1. NoUpdate.step = "idle"
  BY DEF NoUpdate
<1>2. fiber # NoUpdate
  BY <1>1
<1> QED BY <1>2 DEF IInv, Types, Fibers

\* create_worker(): whoever listens was last told that the endpoint is dead, which is what
\* the new worker believes.
LEMMA CreateWorkerStep ==
  ASSUME IInv, CreateWorker
  PROVE  IInv'
<1> USE DEF IInv
<1> DEFINE e == fiber.ep
<1>1. /\ fiber.step = "create" /\ worker' = [worker EXCEPT ![e] = NewWorker]
      /\ alive' = [alive EXCEPT ![e] = [l \in Listener |-> FALSE]]
      /\ marked' = [marked EXCEPT ![e] = [l \in Listener |-> FALSE]]
      /\ fiber' = NoUpdate /\ updates' = Served(e, "added")
      /\ UNCHANGED <<placed, view, registered, listening>>
  BY DEF CreateWorker
<1>2. fiber # NoUpdate /\ e \in Endpoint /\ worker[e].phase = "none" /\ e \in placed
  BY <1>1, FiberTarget DEF PlacedHaveWorkers
<1>3. /\ IsWorker(NewWorker) /\ NewWorker.phase = "running" /\ NewWorker.notify = "checking"
  <2>1. NoTell \in Tells
    BY DEF NoTell, Tells
  <2> QED BY <2>1 DEF IsWorker, NewWorker, Phases, Notifying
<1> HIDE DEF e
<1>4. worker'[e] = NewWorker /\ \A x \in Endpoint : x # e => worker'[x] = worker[x]
  BY <1>1, <1>2 DEF Types
<1>5. /\ \A l \in Listener : marked'[e][l] = FALSE
      /\ \A x \in Endpoint : x # e => marked'[x] = marked[x]
  BY <1>1, <1>2 DEF Types
<1>6. \A l \in registered : view[l][e] = FALSE
  BY SMTT(60), <1>2 DEF MarksAreViews, EndsWithDead, Types
<1>7. Types'
  <2>1. worker' = [x \in Endpoint |-> worker'[x]] /\ \A x \in Endpoint : IsWorker(worker'[x])
    BY <1>1, <1>3, <1>4 DEF Types
  <2>2. updates' \in [Endpoint -> {"none", "added", "removed"}]
    BY <1>1 DEF Types, Served
  <2>3. /\ alive' \in [Endpoint -> [Listener -> BOOLEAN]]
        /\ marked' \in [Endpoint -> [Listener -> BOOLEAN]]
    BY <1>1 DEF Types
  <2>4. fiber' \in Fibers
    BY <1>1 DEF Fibers
  <2> QED BY <1>1, <2>1, <2>2, <2>3, <2>4 DEF Types
<1>8. PlacedHaveWorkers'
  <2>1. \A x \in Endpoint : x \in placed <=> worker'[x].phase # "none"
    BY <1>1, <1>2, <1>3, <1>4 DEF PlacedHaveWorkers, e
  <2> QED BY <1>1, <2>1 DEF PlacedHaveWorkers
<1>9. MarksAreViews'
  <2> SUFFICES ASSUME NEW x \in Endpoint, NEW l \in registered
               PROVE  IF worker'[x].notify = "telling" /\ worker'[x].tell.to = l
                      THEN marked'[x][l] = worker'[x].tell.alive /\ view[l][x] # marked'[x][l]
                      ELSE view[l][x] = marked'[x][l]
    BY ZenonT(60), <1>1 DEF MarksAreViews
  <2>1. l \in Listener
    BY DEF Types
  <2>2. CASE x = e
    BY <1>3, <1>4, <1>5, <1>6, <2>1, <2>2
  <2>3. CASE x # e
    BY <1>4, <1>5, <2>3 DEF MarksAreViews
  <2> QED BY <2>2, <2>3
<1>10. EndsWithDead'
  BY <1>1, <1>3, <1>4, <1>5 DEF EndsWithDead
<1> QED BY <1>7, <1>8, <1>9, <1>10

\* The first two steps of destroy_worker(): they change neither marks nor views.
LEMMA DestroyStep ==
  ASSUME IInv, AbortWorker \/ PingsEnded
  PROVE  IInv'
<1> USE DEF IInv
<1> DEFINE e == fiber.ep
<1>1. PICK w :
        /\ IsWorker(w) /\ worker' = [worker EXCEPT ![e] = w]
        /\ fiber.step \in {"destroy", "ping ends"}
        /\ fiber'.step \in {"ping ends", "notify ends"} /\ fiber' = [fiber EXCEPT !.step = fiber'.step]
        /\ worker[e].phase # "none" => w.phase # "none"
        /\ w.tell = worker[e].tell /\ (w.notify # worker[e].notify => w.notify \in {"checking", "waiting"})
        /\ worker[e].notify = "telling" => w.notify = "telling"
        /\ alive' = alive \/ alive' = [alive EXCEPT ![e] = [l \in Listener |-> FALSE]]
        /\ UNCHANGED <<updates, placed, marked, view, registered, listening>>
  <2>1. CASE AbortWorker
    <3> DEFINE w == [worker[e] EXCEPT !.phase = "stopping"]
    <3>1. e \in Endpoint /\ fiber \in [step : {"create", "destroy", "ping ends", "notify ends"}, ep : Endpoint]
      BY <2>1, FiberTarget DEF AbortWorker
    <3>2. IsWorker(worker[e])
      BY <3>1 DEF Types
    <3>3. /\ IsWorker(w) /\ w.phase = "stopping" /\ w.tell = worker[e].tell
          /\ w.notify = worker[e].notify
      BY <3>2 DEF IsWorker, Phases
    <3>4. worker' = [worker EXCEPT ![e] = w]
      BY <2>1 DEF AbortWorker
    <3>5. fiber.step = "destroy" /\ fiber' = [fiber EXCEPT !.step = "ping ends"]
      BY <2>1 DEF AbortWorker
    <3>6. fiber'.step = "ping ends"
      BY <3>1, <3>5
    <3> HIDE DEF w, e
    <3> QED BY <2>1, <3>3, <3>4, <3>5, <3>6 DEF AbortWorker
  <2>2. CASE PingsEnded
    <3> DEFINE w == Signalled(worker[e])
    <3>1. e \in Endpoint /\ fiber \in [step : {"create", "destroy", "ping ends", "notify ends"}, ep : Endpoint]
      BY <2>2, FiberTarget DEF PingsEnded
    <3>2. IsWorker(worker[e])
      BY <3>1 DEF Types
    <3>3. /\ IsWorker(w) /\ w.phase = worker[e].phase /\ w.tell = worker[e].tell
          /\ w.notify = IF worker[e].notify = "waiting" THEN "checking" ELSE worker[e].notify
      BY <3>2 DEF IsWorker, Phases, Signalled, Notifying
    <3>4. worker' = [worker EXCEPT ![e] = w]
      BY <2>2, <3>1 DEF PingsEnded, Types
    <3>5. /\ fiber.step = "ping ends" /\ fiber' = [fiber EXCEPT !.step = "notify ends"]
          /\ alive' = [alive EXCEPT ![e] = [l \in Listener |-> FALSE]]
      BY <2>2 DEF PingsEnded
    <3>6. fiber'.step = "notify ends"
      BY <3>1, <3>5
    <3> HIDE DEF w, e
    <3> QED BY <2>2, <3>3, <3>4, <3>5, <3>6 DEF PingsEnded
  <2> QED BY <2>1, <2>2
<1>2. /\ fiber # NoUpdate /\ e \in Endpoint
      /\ fiber \in [step : {"create", "destroy", "ping ends", "notify ends"}, ep : Endpoint]
  BY <1>1, FiberTarget
<1>3. worker[e].phase # "none" /\ fiber'.ep = e /\ fiber' \in Fibers /\ fiber' # NoUpdate
  BY <1>1, <1>2 DEF PlacedHaveWorkers, Fibers, NoUpdate
<1> HIDE DEF e
<1>4. /\ worker' = [x \in Endpoint |-> worker'[x]] /\ \A x \in Endpoint : IsWorker(worker'[x])
      /\ MarksAreViews' /\ EndsWithDead'
  BY <1>1, <1>2, <1>3, WorkerChange
<1>5. worker'[e] = w /\ \A x \in Endpoint : x # e => worker'[x] = worker[x]
  BY <1>1, <1>2 DEF Types
<1>6. Types'
  <2>1. [l \in Listener |-> FALSE] \in [Listener -> BOOLEAN]
    OBVIOUS
  <2>2. alive \in [Endpoint -> [Listener -> BOOLEAN]]
    BY DEF Types
  <2>3. alive' \in [Endpoint -> [Listener -> BOOLEAN]]
    BY <1>1, <2>1, <2>2
  <2> QED BY <1>1, <1>3, <1>4, <2>3 DEF Types
<1>7. PlacedHaveWorkers'
  <2>1. \A x \in Endpoint : x \in placed <=> worker'[x].phase # "none"
    BY <1>1, <1>2, <1>3, <1>5 DEF PlacedHaveWorkers
  <2>2. fiber'.step # "create" /\ worker'[fiber'.ep].phase # "none"
    BY <1>1, <1>3, <1>5
  <2> QED BY <1>1, <2>1, <2>2 DEF PlacedHaveWorkers
<1> QED BY <1>4, <1>6, <1>7

\* The end of destroy_worker(): the listeners that are left have been told.
LEMMA WorkerDestroyedStep ==
  ASSUME IInv, WorkerDestroyed
  PROVE  IInv'
<1> USE DEF IInv
<1> DEFINE e == fiber.ep
<1>1. /\ fiber.step = "notify ends" /\ worker[e].notify = "ended"
      /\ worker' = [worker EXCEPT ![e] = NoWorker]
      /\ placed' = placed \ {e} /\ fiber' = NoUpdate /\ updates' = Served(e, "removed")
      /\ UNCHANGED <<alive, marked, view, registered, listening>>
  BY DEF WorkerDestroyed
<1>2. fiber # NoUpdate /\ e \in Endpoint
  BY <1>1, FiberTarget
<1>3. IsWorker(NoWorker) /\ NoWorker.phase = "none" /\ NoWorker.notify = "ended"
  BY DEF IsWorker, NoWorker, NoTell, Phases, Notifying, Tells
<1>4. worker'[e] = NoWorker /\ \A x \in Endpoint : x # e => worker'[x] = worker[x]
  BY <1>1, <1>2 DEF Types
<1>5. Types'
  <2>1. worker' = [x \in Endpoint |-> worker'[x]] /\ \A x \in Endpoint : IsWorker(worker'[x])
    BY <1>1, <1>3, <1>4 DEF Types
  <2>2. updates' \in [Endpoint -> {"none", "added", "removed"}]
    BY <1>1 DEF Types, Served
  <2>3. fiber' \in Fibers
    BY <1>1 DEF Fibers
  <2> QED BY <1>1, <2>1, <2>2, <2>3 DEF Types
<1>6. PlacedHaveWorkers'
  <2>1. \A x \in Endpoint : x # e => (x \in placed <=> worker[x].phase # "none")
    BY <1>1 DEF PlacedHaveWorkers
  <2>2. \A x \in Endpoint : x \in placed' <=> worker'[x].phase # "none"
    BY <1>1, <1>3, <1>4, <2>1
  <2> QED BY <1>1, <2>2 DEF PlacedHaveWorkers
<1> HIDE DEF e
<1>7. MarksAreViews'
  <2> SUFFICES ASSUME NEW x \in Endpoint, NEW l \in registered
               PROVE  IF worker'[x].notify = "telling" /\ worker'[x].tell.to = l
                      THEN marked[x][l] = worker'[x].tell.alive /\ view[l][x] # marked[x][l]
                      ELSE view[l][x] = marked[x][l]
    BY ZenonT(60), <1>1 DEF MarksAreViews
  <2>1. CASE x = e
    BY <1>1, <1>2, <1>3, <1>4, <2>1 DEF MarksAreViews
  <2>2. CASE x # e
    BY <1>4, <2>2 DEF MarksAreViews
  <2> QED BY <2>1, <2>2
<1>8. EndsWithDead'
  BY <1>1, <1>2, <1>3, <1>4 DEF EndsWithDead
<1> QED BY <1>5, <1>6, <1>7, <1>8

\* ping_fiber() changes what a worker believes, and wakes the fiber that notifies.
LEMMA PingStep ==
  ASSUME IInv, NEW e \in Endpoint, PingFiber(e)
  PROVE  IInv'
<1> USE DEF IInv
<1>1. IsWorker(worker[e])
  BY DEF Types
<1>2. PICK w :
        /\ IsWorker(w) /\ worker' = [worker EXCEPT ![e] = w]
        /\ w.phase = worker[e].phase /\ w.tell = worker[e].tell
        /\ w.notify = worker[e].notify \/ (worker[e].notify = "waiting" /\ w.notify = "checking")
  <2>1. CASE PingOnce(e)
    <3> DEFINE misses == IF answers[e] THEN 0
                         ELSE IF worker[e].misses < MaxMisses THEN worker[e].misses + 1 ELSE MaxMisses
               now == [l \in Listener |-> IF answers[e] THEN TRUE ELSE alive[e][l] /\ misses < Threshold[l]]
               w == [worker[e] EXCEPT !.misses = misses,
                       !.ping = IF worker[e].phase = "stopping" THEN "ended" ELSE @]
               changed == \E l \in listening : now[l] # alive[e][l]
    <3>1. worker' = [worker EXCEPT ![e] = IF changed THEN Signalled(w) ELSE w]
      BY <2>1 DEF PingOnce
    <3> HIDE DEF misses, changed
    <3>2. /\ IsWorker(w) /\ w.phase = worker[e].phase /\ w.tell = worker[e].tell
          /\ w.notify = worker[e].notify
      <4> DEFINE v == [worker[e] EXCEPT !.misses = misses]
      <4>1. /\ IsWorker(v) /\ v.phase = worker[e].phase /\ v.tell = worker[e].tell
            /\ v.notify = worker[e].notify
        BY <1>1 DEF IsWorker
      <4>2. w = [v EXCEPT !.ping = IF worker[e].phase = "stopping" THEN "ended" ELSE @]
        OBVIOUS
      <4> HIDE DEF v, w
      <4> QED BY <4>1, <4>2 DEF IsWorker
    <3> HIDE DEF w
    <3>3. /\ IsWorker(Signalled(w)) /\ Signalled(w).phase = worker[e].phase
          /\ Signalled(w).tell = worker[e].tell
          /\ Signalled(w).notify = IF worker[e].notify = "waiting" THEN "checking" ELSE worker[e].notify
      BY <3>2 DEF IsWorker, Signalled, Notifying
    <3> QED BY <3>1, <3>2, <3>3
  <2>2. CASE PingAborted(e)
    <3> DEFINE w == [worker[e] EXCEPT !.ping = "ended"]
    <3>1. /\ IsWorker(w) /\ w.phase = worker[e].phase /\ w.tell = worker[e].tell
          /\ w.notify = worker[e].notify
      BY <1>1 DEF IsWorker
    <3>2. worker' = [worker EXCEPT ![e] = w]
      BY <2>2 DEF PingAborted
    <3> HIDE DEF w
    <3> QED BY <3>1, <3>2
  <2> QED BY <2>1, <2>2 DEF PingFiber
<1>3. /\ alive' \in [Endpoint -> [Listener -> BOOLEAN]]
      /\ UNCHANGED <<updates, fiber, placed, marked, view, registered, listening>>
  <2>1. CASE PingOnce(e)
    <3> DEFINE misses == IF answers[e] THEN 0
                         ELSE IF worker[e].misses < MaxMisses THEN worker[e].misses + 1 ELSE MaxMisses
               now == [l \in Listener |-> IF answers[e] THEN TRUE ELSE alive[e][l] /\ misses < Threshold[l]]
    <3>1. now \in [Listener -> BOOLEAN]
      OBVIOUS
    <3>2. alive' = [alive EXCEPT ![e] = now]
      BY <2>1 DEF PingOnce
    <3> HIDE DEF now
    <3> QED BY <2>1, <3>1, <3>2 DEF PingOnce, Types
  <2>2. CASE PingAborted(e)
    BY <2>2 DEF PingAborted, Types
  <2> QED BY <2>1, <2>2 DEF PingFiber
<1>4. /\ worker' = [x \in Endpoint |-> worker'[x]] /\ \A x \in Endpoint : IsWorker(worker'[x])
      /\ MarksAreViews' /\ EndsWithDead'
  <2>1. worker[e].phase = "none" => w.notify = "ended"
    BY <1>2 DEF EndsWithDead
  <2> QED BY <1>2, <1>3, <2>1, WorkerChange
<1>5. Types'
  BY <1>3, <1>4 DEF Types
<1>6. \A x \in Endpoint : worker'[x].phase = worker[x].phase
  BY <1>2 DEF Types
<1>7. PlacedHaveWorkers'
  <2>1. fiber # NoUpdate => fiber.ep \in Endpoint
    BY DEF Types, Fibers
  <2> QED BY <1>3, <1>6, <2>1 DEF PlacedHaveWorkers
<1> QED BY <1>4, <1>5, <1>7

\* The phase of a worker changes nothing in PlacedHaveWorkers as long as it stays.
LEMMA SamePhases ==
  ASSUME IInv, UNCHANGED <<fiber, placed>>, \A x \in Endpoint : worker'[x].phase = worker[x].phase
  PROVE  PlacedHaveWorkers'
<1>1. fiber # NoUpdate => fiber.ep \in Endpoint
  BY DEF IInv, Types, Fibers
<1> QED BY <1>1 DEF IInv, PlacedHaveWorkers

\* notify_fiber(): a listener is marked as told before it is; the fiber ends only when all
\* are marked dead.
LEMMA NotifyStep ==
  ASSUME IInv, NEW e \in Endpoint, Notify(e)
  PROVE  IInv'
<1> USE DEF IInv
<1>1. /\ worker[e].notify = "checking" /\ IsWorker(worker[e]) /\ worker[e].phase # "none"
      /\ UNCHANGED <<updates, fiber, placed, alive, view, registered, listening>>
  BY DEF Notify, Types, EndsWithDead
<1>2. CASE \E l \in Changed(e) :
             /\ marked' = [marked EXCEPT ![e][l] = alive[e][l]]
             /\ worker' = [worker EXCEPT ![e].notify = "telling",
                                         ![e].tell = [to |-> l, alive |-> alive[e][l]]]
  <2>1. PICK l \in Changed(e) :
             /\ marked' = [marked EXCEPT ![e][l] = alive[e][l]]
             /\ worker' = [worker EXCEPT ![e].notify = "telling",
                                         ![e].tell = [to |-> l, alive |-> alive[e][l]]]
    BY <1>2
  <2> DEFINE m == [to |-> l, alive |-> alive[e][l]]
             v == [worker[e] EXCEPT !.notify = "telling"]
             w == [v EXCEPT !.tell = m]
  <2>2. /\ l \in Listener /\ l \in listening /\ alive[e][l] \in BOOLEAN /\ alive[e][l] # marked[e][l]
        /\ m \in [to : Listener, alive : BOOLEAN] /\ m.to = l /\ m.alive = alive[e][l]
    BY DEF Changed, Types
  <2> HIDE DEF m
  <2>3. /\ v = [phase |-> v.phase, ping |-> v.ping, misses |-> v.misses, notify |-> v.notify,
                tell |-> v.tell]
        /\ v.phase = worker[e].phase /\ v.notify = "telling"
    BY <1>1 DEF IsWorker
  <2> HIDE DEF v
  <2>4. /\ w = [phase |-> w.phase, ping |-> w.ping, misses |-> w.misses, notify |-> w.notify,
                tell |-> w.tell]
        /\ w.phase = worker[e].phase /\ w.notify = "telling" /\ w.tell = m
    BY <2>3
  <2>5. IsWorker(w)
    BY <1>1, <2>2, <2>4 DEF IsWorker, Notifying, Tells
  <2>6. worker' = [worker EXCEPT ![e] = w]
    BY <2>1 DEF v, m, Types
  <2> HIDE DEF w
  <2>7. worker'[e] = w /\ \A x \in Endpoint : x # e => worker'[x] = worker[x]
    BY <2>6 DEF Types
  <2>8. /\ marked' \in [Endpoint -> [Listener -> BOOLEAN]] /\ marked'[e][l] = alive[e][l]
        /\ \A k \in Listener : k # l => marked'[e][k] = marked[e][k]
        /\ \A x \in Endpoint : x # e => marked'[x] = marked[x]
    BY <2>1, <2>2 DEF Types
  <2>9. Types'
    <3>1. worker' = [x \in Endpoint |-> worker'[x]]
      BY <2>6 DEF Types
    <3>2. \A x \in Endpoint : IsWorker(worker'[x])
      BY <2>5, <2>7 DEF Types
    <3> QED BY <1>1, <2>8, <3>1, <3>2 DEF Types
  <2>10. PlacedHaveWorkers'
    BY <1>1, <2>4, <2>7, SamePhases
  <2>11. MarksAreViews'
    <3> SUFFICES ASSUME NEW x \in Endpoint, NEW k \in registered
                 PROVE  IF worker'[x].notify = "telling" /\ worker'[x].tell.to = k
                        THEN marked'[x][k] = worker'[x].tell.alive /\ view[k][x] # marked'[x][k]
                        ELSE view[k][x] = marked'[x][k]
      BY <1>1 DEF MarksAreViews
    <3>1. k \in Listener
      BY DEF Types
    <3>2. CASE x = e
      <4>1. view[k][e] = marked[e][k]
        BY <1>1 DEF MarksAreViews
      <4> QED BY <2>2, <2>4, <2>7, <2>8, <3>1, <3>2, <4>1
    <3>3. CASE x # e
      BY <2>7, <2>8, <3>3 DEF MarksAreViews
    <3> QED BY <3>2, <3>3
  <2>12. EndsWithDead'
    BY <1>1, <2>4, <2>7, <2>8 DEF EndsWithDead
  <2> QED BY <2>9, <2>10, <2>11, <2>12
<1>3. CASE /\ Changed(e) = {}
           /\ worker' = [worker EXCEPT ![e].notify =
                           IF worker[e].phase = "stopping" /\ AllDead(e) THEN "ended" ELSE "waiting"]
           /\ UNCHANGED marked
  <2> DEFINE next == IF worker[e].phase = "stopping" /\ AllDead(e) THEN "ended" ELSE "waiting"
             w == [worker[e] EXCEPT !.notify = next]
  <2>1. next \in {"ended", "waiting"} /\ (next = "ended" => AllDead(e))
    OBVIOUS
  <2>2. worker' = [worker EXCEPT ![e] = w]
    BY <1>3
  <2> HIDE DEF next
  <2>3. IsWorker(w) /\ w.phase = worker[e].phase /\ w.tell = worker[e].tell /\ w.notify = next
    BY <1>1, <2>1 DEF IsWorker, Notifying
  <2> HIDE DEF w
  <2>4. worker'[e] = w /\ \A x \in Endpoint : x # e => worker'[x] = worker[x]
    BY <2>2 DEF Types
  <2>5. Types'
    <3>1. worker' = [x \in Endpoint |-> worker'[x]]
      BY <2>2 DEF Types
    <3>2. \A x \in Endpoint : IsWorker(worker'[x])
      BY <2>3, <2>4 DEF Types
    <3> QED BY <1>1, <1>3, <3>1, <3>2 DEF Types
  <2>6. PlacedHaveWorkers'
    BY <1>1, <2>3, <2>4, SamePhases
  <2>7. MarksAreViews'
    <3> SUFFICES ASSUME NEW x \in Endpoint, NEW k \in registered
                 PROVE  IF worker'[x].notify = "telling" /\ worker'[x].tell.to = k
                        THEN marked[x][k] = worker'[x].tell.alive /\ view[k][x] # marked[x][k]
                        ELSE view[k][x] = marked[x][k]
      BY <1>1, <1>3 DEF MarksAreViews
    <3>1. CASE x = e
      BY <1>1, <2>1, <2>3, <2>4, <3>1 DEF MarksAreViews
    <3>2. CASE x # e
      BY <2>4, <3>2 DEF MarksAreViews
    <3> QED BY <3>1, <3>2
  <2>8. next = "ended" => \A l \in listening : marked[e][l] = FALSE
    <3>1. \A l \in listening : alive[e][l] \in BOOLEAN /\ alive[e][l] = marked[e][l]
      BY <1>3 DEF Changed, Types
    <3> QED BY <2>1, <3>1 DEF AllDead
  <2>9. EndsWithDead'
    BY <1>1, <1>3, <2>1, <2>3, <2>4, <2>8 DEF EndsWithDead
  <2> QED BY <2>5, <2>6, <2>7, <2>9
<1> QED BY <1>2, <1>3 DEF Notify

\* mark() reaches the listener it was meant for, if that is still there.
LEMMA MarkStep ==
  ASSUME IInv, NEW e \in Endpoint, Mark(e)
  PROVE  IInv'
<1> USE DEF IInv
<1> DEFINE m == worker[e].tell
           v == [worker[e] EXCEPT !.notify = "checking"]
           w == [v EXCEPT !.tell = NoTell]
<1>1. /\ worker[e].notify = "telling" /\ IsWorker(worker[e]) /\ worker[e].phase # "none"
      /\ view' = IF m.to \in registered THEN [view EXCEPT ![m.to][e] = m.alive] ELSE view
      /\ worker' = [worker EXCEPT ![e].notify = "checking", ![e].tell = NoTell]
      /\ UNCHANGED <<updates, fiber, placed, alive, marked, registered, listening>>
  BY DEF Mark, Telling, Types, EndsWithDead
<1>2. m.to \in Listener /\ m.alive \in BOOLEAN
  BY <1>1 DEF IsWorker
<1>3. worker' = [worker EXCEPT ![e] = w]
  BY <1>1 DEF Types
<1>4. /\ v = [phase |-> v.phase, ping |-> v.ping, misses |-> v.misses, notify |-> v.notify,
              tell |-> v.tell]
      /\ v.phase = worker[e].phase /\ v.notify = "checking"
  BY <1>1 DEF IsWorker
<1> HIDE DEF v
<1>5. /\ w = [phase |-> w.phase, ping |-> w.ping, misses |-> w.misses, notify |-> w.notify,
              tell |-> w.tell]
      /\ w.phase = worker[e].phase /\ w.notify = "checking" /\ w.tell = NoTell
  BY <1>4
<1> HIDE DEF w
<1>6. IsWorker(w)
  BY <1>1, <1>5 DEF IsWorker, Notifying, Tells, NoTell
<1>7. worker'[e] = w /\ \A x \in Endpoint : x # e => worker'[x] = worker[x]
  BY <1>3 DEF Types
<1> HIDE DEF m
<1>8. /\ view' \in [Listener -> [Endpoint -> BOOLEAN]]
      /\ m.to \in registered => view'[m.to][e] = m.alive
      /\ \A l \in Listener, x \in Endpoint : l # m.to \/ x # e => view'[l][x] = view[l][x]
  BY <1>1, <1>2 DEF Types
<1>9. Types'
  <2>1. worker' = [x \in Endpoint |-> worker'[x]]
    BY <1>3 DEF Types
  <2>2. \A x \in Endpoint : IsWorker(worker'[x])
    BY <1>6, <1>7 DEF Types
  <2> QED BY <1>1, <1>8, <2>1, <2>2 DEF Types
<1>10. PlacedHaveWorkers'
  BY <1>1, <1>5, <1>7, SamePhases
<1>11. MarksAreViews'
  <2>0. registered' = registered /\ marked' = marked
    BY <1>1
  <2> SUFFICES ASSUME NEW x \in Endpoint, NEW k \in registered
               PROVE  IF worker'[x].notify = "telling" /\ worker'[x].tell.to = k
                      THEN marked[x][k] = worker'[x].tell.alive /\ view'[k][x] # marked[x][k]
                      ELSE view'[k][x] = marked[x][k]
    BY <2>0 DEF MarksAreViews
  <2>1. k \in Listener
    BY DEF Types
  <2>2. CASE x = e /\ k = m.to
    <3>1. marked[e][k] = m.alive
      BY <1>1, <2>2 DEF MarksAreViews, m
    <3> QED BY <1>5, <1>7, <1>8, <2>2, <3>1
  <2>3. CASE x = e /\ k # m.to
    <3>1. view[k][e] = marked[e][k]
      BY <1>1, <2>3 DEF MarksAreViews, m
    <3> QED BY <1>5, <1>7, <1>8, <2>1, <2>3, <3>1
  <2>4. CASE x # e
    BY <1>7, <1>8, <2>1, <2>4 DEF MarksAreViews
  <2> QED BY <2>2, <2>3, <2>4
<1>12. EndsWithDead'
  BY <1>1, <1>5, <1>7 DEF EndsWithDead
<1> QED BY <1>9, <1>10, <1>11, <1>12

\* Listeners that leave, endpoints that go away and steps in which nothing happens.
LEMMA OtherSteps ==
  ASSUME IInv,
         \/ \E l \in Listener : Unregister(l) \/ RemoveListener(l)
         \/ \E e \in Endpoint : Flip(e)
         \/ UNCHANGED detectorVars
  PROVE  IInv'
<1> USE DEF IInv
<1>1. /\ registered' \subseteq registered /\ listening' \subseteq listening
      /\ registered' \subseteq listening'
      /\ UNCHANGED <<updates, fiber, placed, worker, alive, marked, view>>
  <2>1. CASE \E l \in Listener : Unregister(l)
    BY <2>1 DEF Unregister, Types
  <2>2. CASE \E l \in Listener : RemoveListener(l)
    BY <2>2 DEF RemoveListener, Types
  <2>3. CASE (\E e \in Endpoint : Flip(e)) \/ UNCHANGED detectorVars
    BY <2>3 DEF Flip, detectorVars, Types
  <2> QED BY <2>1, <2>2, <2>3
<1>2. Types'
  BY <1>1 DEF Types
<1>3. PlacedHaveWorkers'
  BY <1>1, SamePhases
<1>4. MarksAreViews' /\ EndsWithDead'
  BY <1>1 DEF MarksAreViews, EndsWithDead
<1> QED BY <1>2, <1>3, <1>4

\* What listeners of the failure detector are told follows its protocol: alive and dead
\* alternate, an endpoint that is not detected was last called dead, and no worker is
\* created twice or destroyed without being there, whatever requests race with the fibers.
THEOREM NotificationsInOrder == DetectorSpec => []NotificationsAlternate
<1>1. IInv /\ [DetectorNext]_detectorVars => IInv'
  BY UpdatesStep, CreateWorkerStep, DestroyStep, WorkerDestroyedStep, PingStep, NotifyStep, MarkStep,
     OtherSteps DEF DetectorNext, UpdateFiber, NotifyFiber
<1>2. IInv => NotificationsAlternate
  <2> SUFFICES ASSUME IInv PROVE NotificationsAlternate
    OBVIOUS
  <2>1. ASSUME NEW e \in Endpoint, Telling(e), worker[e].tell.to \in registered
        PROVE  view[worker[e].tell.to][e] # worker[e].tell.alive
    BY <2>1 DEF IInv, MarksAreViews, Telling
  <2>2. ASSUME NEW e \in Endpoint, NEW l \in registered, worker[e].phase = "none"
        PROVE  ~view[l][e]
    <3>1. view[l][e] = FALSE
      BY SMTT(60), <2>2 DEF IInv, MarksAreViews, EndsWithDead, Types
    <3> QED BY <3>1
  <2>3. ASSUME NEW e \in Endpoint, fiber # NoUpdate, fiber.ep = e
        PROVE  (fiber.step = "create") = (worker[e].phase = "none")
    BY <2>3 DEF IInv, PlacedHaveWorkers
  <2> QED BY <2>1, <2>2, <2>3 DEF NotificationsAlternate
<1> QED BY InitIInv, <1>1, <1>2, PTL DEF DetectorSpec
=============================================================================
