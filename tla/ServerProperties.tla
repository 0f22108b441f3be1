--------------------------- MODULE ServerProperties ---------------------------
(***************************************************************************)
(* What is asked of EmergencyServer: one type invariant, the safety        *)
(* invariants and action properties that hold, and, at the end, what the   *)
(* comments and the documents say and the code does not do.                *)
(***************************************************************************)
EXTENDS EmergencyServer

EmergencyStatuses ==
    {"WAITING", "ASKING_FOR_RESCUERS", "WAITING_FOR_RESCUERS", "IN_PROGRESS",
     "PAUSED", "COMPLETED", "CANCELED", "TIMEOUT"}

TwinStatuses == {"IDLE", "EN_ROUTE_TO_SCENE", "ON_SCENE", "RETURNING_TO_BASE"}

EmergencyRecord ==
    [status : EmergencyStatuses, priority : Priorities,
     rescuers_found : BOOLEAN, rescuers_have_arrived : BOOLEAN,
     eta : Int, assigned : Int, spent : Nat, rescuer_twins : Seq(Twins)]

TwinRecord ==
    [status : TwinStatuses, at : Point, trajectory : Trajectory,
     node : Emergencies \cup {None}, has_arrived : BOOLEAN,
     time_to_manage : Int, time_left : Int]

Queue == [lists : [Priorities -> Seq(Emergencies)], is_empty : BOOLEAN]

WorkerSteps ==
    {"check", "done", "asleep", "lockWaiting", "lockWorking", "lockNode",
     "lockRescuers", "search", "steal", "retryWait",
     "arriveWait", "arriveWoken", "finishWait", "finishWoken",
     "complete", "cancel", "pause", "pauseLocked", "recheck"}

UpdaterSteps ==
    {"check", "awaitTick", "lockRescuers", "lockWaiting", "lockWorking",
     "updateWorking", "updateWaiting", "cancelAll", "cancelling", "done"}

Owners == Workers \cup {Updater, None}

(* Every variable has its type. *)
TypeOK ==
    /\ server \in {"up", "crashed", "closed"}
    /\ main \in {"receiving", "joining"}
    /\ server_must_stop \in BOOLEAN /\ received \subseteq Emergencies
    /\ clock \in {"running", "done"} /\ tick \in BOOLEAN
    /\ updater \in UpdaterSteps /\ level \in Priorities
    /\ todo \in Seq(Emergencies)
    /\ pc \in [Workers -> WorkerSteps]
    /\ node \in [Workers -> Emergencies \cup {None}]
    /\ chosen \in [Workers -> Seq(Twins)]
    /\ probes \in [Workers -> SUBSET Emergencies]
    /\ sent \in [Workers -> Nat]
    /\ rescuers_mutex \in Owners /\ waiting_mutex \in Owners
    /\ working_mutex \in Owners /\ node_mutex \in [Emergencies -> Owners]
    /\ waiting_queue \in Queue /\ working_queue \in Queue
    /\ completed_emergencies \in Seq(Emergencies)
    /\ canceled_emergencies \in Seq(Emergencies)
    /\ emergency \in [Emergencies -> EmergencyRecord]
    /\ twin \in [Twins -> TwinRecord]

--------------------------------------------------------------------------------
(* Where an emergency is, and who handles it. *)

Handling ==      \* the worker's node is in the working queue
    {"lockNode", "lockRescuers", "search", "steal", "retryWait",
     "arriveWait", "arriveWoken", "finishWait", "finishWoken",
     "complete", "cancel", "pause", "pauseLocked"}

Handlers(e)  == {w \in Workers : pc[w] \in Handling /\ node[w] = e}
InTransit(e) == {w \in Workers : pc[w] = "lockWorking" /\ node[w] = e}

Positions(list, e) == {i \in DOMAIN list : list[i] = e}

Places(e) ==
    ({"waiting"} \X UNION {{p} \X Positions(waiting_queue.lists[p], e) : p \in Priorities})
    \cup ({"working"} \X UNION {{p} \X Positions(working_queue.lists[p], e) : p \in Priorities})
    \cup ({"completed"} \X Positions(completed_emergencies, e))
    \cup ({"canceled"} \X Positions(canceled_emergencies, e))
    \cup ({"transit"} \X InTransit(e))

(* A received emergency is in exactly one place: one position of one list, *)
(* or between two queues in the hands of one worker.  None is lost,        *)
(* duplicated or handed to two workers by the dequeue of one thread and    *)
(* the enqueue of another (handler.c 19-28, 104-130).                      *)
EachNodeInOnePlace ==
    \A e \in Emergencies :
        Cardinality(Places(e)) = IF e \in received THEN 1 ELSE 0

(* An emergency of the working queue has exactly one worker that handles it, *)
(* and no other emergency has one.                                         *)
OneHandlerEach ==
    \A e \in Emergencies :
        Cardinality(Handlers(e)) = IF e \in Nodes(working_queue) THEN 1 ELSE 0

(* A node is in the list of its own priority, in both queues, whatever the *)
(* promotions made while it moves from one queue to the other.             *)
ListsMatchPriorities ==
    \A q \in {waiting_queue, working_queue} : \A p \in Priorities :
        \A e \in ToSet(q.lists[p]) : emergency[e].priority = p

--------------------------------------------------------------------------------
(* Mutexes. *)

HoldsNode      == {"lockRescuers", "search", "steal", "complete", "cancel",
                   "pause", "pauseLocked"}
HoldsRescuers  == {"search", "steal"}
UpdaterHoldsRescuers == {"lockWaiting", "lockWorking", "updateWorking", "updateWaiting"}
UpdaterHoldsWaiting  == {"lockWorking", "updateWorking", "updateWaiting"}
UpdaterHoldsWorking  == {"updateWorking", "updateWaiting", "cancelling"}

(* A thread owns one of the three mutexes it shares with all the others    *)
(* exactly between the lock and the unlock of the code: the updater takes  *)
(* them in one order and gives them back in another, a worker that pauses  *)
(* asks for the working queue while it holds the waiting one, and none     *)
(* leaves its loop, cancels or stops with one in hand.                     *)
QueueMutexDiscipline ==
    /\ \A w \in Workers :
          /\ rescuers_mutex = w <=> pc[w] \in HoldsRescuers
          /\ waiting_mutex = w <=> pc[w] = "pauseLocked"
          /\ working_mutex # w
    /\ rescuers_mutex = Updater <=> updater \in UpdaterHoldsRescuers
    /\ waiting_mutex = Updater <=> updater \in UpdaterHoldsWaiting
    /\ working_mutex = Updater <=> updater \in UpdaterHoldsWorking

(* The same for the mutex of a node, which no unlock releases in the name  *)
(* of another thread (undefined for mtx_unlock): cancel_and_unlock is      *)
(* reached with the node locked only, although the test that follows a     *)
(* pause could reach it without (handler.c 83-86).                         *)
NodeMutexDiscipline ==
    \A e \in Emergencies :
        /\ \A w \in Workers :
              node_mutex[e] = w <=> pc[w] \in HoldsNode /\ node[w] = e
        /\ node_mutex[e] # Updater

Victim(w) == twin[NextToSend(w)].node

(* The mutex owners a worker waits for in its next step *)
WaitsFor(w) ==
    {o \in Workers \cup {Updater} :
        CASE pc[w] \in {"lockWaiting", "pause"} -> waiting_mutex = o
          [] pc[w] \in {"lockWorking", "complete", "cancel", "pauseLocked"} ->
                 working_mutex = o
          [] pc[w] = "lockRescuers" -> rescuers_mutex = o
          [] pc[w] \in {"lockNode", "retryWait", "arriveWoken", "finishWoken"} ->
                 node_mutex[node[w]] = o
          [] pc[w] = "search" -> \E e \in probes[w] : node_mutex[e] = o
          [] pc[w] = "steal" -> node_mutex[Victim(w)] = o
          [] OTHER -> FALSE}

Scanning == {"updateWorking", "updateWaiting", "cancelling"}

UpdaterWaitsFor ==
    {w \in Workers :
        CASE updater = "lockRescuers" -> rescuers_mutex = w
          [] updater = "lockWaiting" -> waiting_mutex = w
          [] updater \in {"lockWorking", "cancelAll"} -> working_mutex = w
          [] updater \in Scanning /\ todo # <<>> -> node_mutex[Head(todo)] = w
          [] OTHER -> FALSE}

(* The workers never wait for one another in a circle, nor one for itself: *)
(* whoever searches for rescuers has no twin bound to its own node, so its *)
(* probes lock other nodes only (handler.c 193-208), and the three ways    *)
(* out of the working queue take the queues in the updater's order.        *)
WorkersDoNotDeadlock ==
    \A S \in (SUBSET Workers) \ {{}} : \E w \in S : WaitsFor(w) \cap S = {}

(* lock_node on the own node would block for ever, mtx_plain is not        *)
(* recursive: a search never probes its own node and never robs itself.    *)
SearchSparesItself ==
    \A w \in Workers :
        /\ pc[w] = "search" => node[w] \notin probes[w]
        /\ pc[w] = "steal" => Victim(w) # node[w]

(* The next pointer a scan saved is good when it is followed: the nodes    *)
(* still to be visited are in the list scanned, whatever workers finish.   *)
ScannedQueue == IF updater = "updateWaiting" THEN waiting_queue ELSE working_queue

ScanIsNotStale ==
    updater \in Scanning => ToSet(todo) \subseteq ToSet(ScannedQueue.lists[level])

--------------------------------------------------------------------------------
(* Rescuers and the emergencies they serve. *)

(* What the search found is still so when the rescuer is sent: a twin not  *)
(* sent yet is idle or may be stolen, however long the probes and the      *)
(* pauses of other emergencies took.                                       *)
ChoiceIsNotStale ==
    \A w \in Workers : pc[w] \in HoldsRescuers =>
        \A i \in DOMAIN chosen[w] : i > sent[w] =>
            chosen[w][i] \in Available \cup Stealable(node[w])

(* No wakeup is lost: a worker asleep on the condition of its node has     *)
(* nothing to do yet.  Whoever ends its wait - the updater with an arrival, *)
(* a completion or a cancellation, a robber with a pause - has signalled,  *)
(* and the worker tests the condition under the mutex it is changed under  *)
(* (handler.c 80, 94).                                                     *)
NoWakeupIsLost ==
    \A w \in Workers :
        /\ pc[w] = "arriveWait" =>
              /\ ~emergency[node[w]].rescuers_have_arrived
              /\ emergency[node[w]].status \notin {"PAUSED", "CANCELED"}
        /\ pc[w] = "finishWait" =>
              emergency[node[w]].status \notin {"COMPLETED", "PAUSED", "CANCELED"}

(* Only an emergency whose rescuers all arrived is worked on or completed, *)
(* and it was not paused since.                                            *)
WorkFollowsArrival ==
    \A e \in Emergencies : emergency[e].status \in {"IN_PROGRESS", "COMPLETED"} =>
        emergency[e].rescuers_found /\ emergency[e].rescuers_have_arrived

(* The team of e is the one it asked for: a rescuer of each type needed, in *)
(* the order of the requests, and none twice.                              *)
IsTeamFor(e, team) ==
    /\ Len(team) = Len(Needs[e]) /\ IsInjective(team)
    /\ \A i \in DOMAIN team : team[i] \in ToSet(TwinsOf[Needs[e][i]])

(* An emergency that found its rescuers has the whole team it needs, though *)
(* each was chosen and sent in a step of its own, with robberies and other  *)
(* searches in between; and no team outgrows its array (priority_queue.c:13) *)
TeamMeetsNeeds ==
    \A e \in Emergencies :
        /\ Len(emergency[e].rescuer_twins) <= Len(Needs[e])
        /\ emergency[e].rescuers_found => IsTeamFor(e, emergency[e].rescuer_twins)

(* A rescuer on the road or at a scene is in the team of the emergency it   *)
(* serves: what the updater asks of a team, whether all have arrived or     *)
(* all have left, it asks of every rescuer that serves (server_updater.c).  *)
BusyAreInTheTeam ==
    \A t \in Twins : twin[t].status \in {"EN_ROUTE_TO_SCENE", "ON_SCENE"} =>
        /\ twin[t].node \in Emergencies
        /\ t \in ToSet(emergency[twin[t].node].rescuer_twins)

(* A rescuer changes emergency only from its base, or from the road or the *)
(* scene of one of lower priority, never on its way back; and one that was *)
(* waited for, or at work, leaves a paused emergency behind it.            *)
StealingIsRuled ==
    [][\A t \in Twins : twin'[t].node # twin[t].node =>
          \/ twin[t].status = "IDLE"
          \/ LET victim == twin[t].node
             IN  /\ twin[t].status \in {"EN_ROUTE_TO_SCENE", "ON_SCENE"}
                 /\ emergency[victim].priority < emergency[twin'[t].node].priority
                 /\ emergency[victim].status \in {"WAITING_FOR_RESCUERS", "IN_PROGRESS"}
                       => emergency'[victim].status = "PAUSED"]_vars

(* What is in the completed or in the canceled list never changes again,   *)
(* although twins and searches still hold pointers to it.                  *)
ArchivedForEver ==
    [][\A e \in ToSet(completed_emergencies) \cup ToSet(canceled_emergencies) :
          /\ emergency'[e] = emergency[e]
          /\ e \in ToSet(completed_emergencies) =>
                e \in ToSet(completed_emergencies')
          /\ e \in ToSet(canceled_emergencies) =>
                e \in ToSet(canceled_emergencies')]_vars

(* The completed list holds completed emergencies only; the canceled list  *)
(* holds no emergency that could still be served.                          *)
ArchivesTellStatus ==
    /\ \A e \in ToSet(completed_emergencies) : emergency[e].status = "COMPLETED"
    /\ \A e \in ToSet(canceled_emergencies) :
          emergency[e].status \in {"CANCELED", "PAUSED"}

(* A cancellation stands until the emergency is archived, whatever times    *)
(* out, is robbed or is searched for, with two exceptions: a worker that    *)
(* only now comes to its node (handler.c:35) and one whose rescuers have    *)
(* arrived before it woke (handler.c:81) go on as if it had not been made.  *)
CancellationStands ==
    [][\A e \in Emergencies : emergency[e].status = "CANCELED" =>
          \/ emergency'[e].status \in {"CANCELED", "PAUSED"}
          \/ \E w \in Handlers(e) :
                \/ pc[w] = "lockNode"
                \/ pc[w] = "arriveWoken" /\ emergency[e].rescuers_have_arrived]_vars

(* When the server closes nothing is left half done: no mutex is held, no   *)
(* emergency is in the working queue or on its way to it, and what was      *)
(* received is archived or was never taken.                                 *)
ClosedIsQuiet ==
    server = "closed" =>
        /\ {rescuers_mutex, waiting_mutex, working_mutex} = {None}
        /\ \A e \in Emergencies : node_mutex[e] = None
        /\ Nodes(working_queue) = {}
        /\ \A e \in received :
              \/ e \in Nodes(waiting_queue)
              \/ e \in ToSet(completed_emergencies) \cup ToSet(canceled_emergencies)

--------------------------------------------------------------------------------
(* The lists. *)

AllLists == ({"waiting", "working"} \X Priorities)
            \cup {<<"completed", 0>>, <<"canceled", 0>>}

ListNamed(l) ==
    CASE l[1] = "waiting"   -> waiting_queue.lists[l[2]]
      [] l[1] = "working"   -> working_queue.lists[l[2]]
      [] l[1] = "completed" -> completed_emergencies
      [] l[1] = "canceled"  -> canceled_emergencies

TheLists == [l \in AllLists |-> ListNamed(l)]

Lists == INSTANCE EmergencyLists WITH
    EmergencyNodes <- Emergencies,
    ListNames <- AllLists,
    lists <- TheLists

(* The threads call the list functions as these expect: one node at a time *)
(* is put in a list, taken from its head or moved; one that is put in is   *)
(* in no list, and one that is removed is in the list it is removed from,  *)
(* whatever promotions, pauses and cancellations came before.  A second    *)
(* removal would cut the list off at its head (priority_queue.c:148-161).  *)
ImplementsLists == Lists!Spec

--------------------------------------------------------------------------------
(* The life of an emergency. *)

Phase(e) ==
    CASE e \notin received -> "unsent"
      [] Contains(completed_emergencies, e) -> "completed"
      [] Contains(canceled_emergencies, e) -> "shelved"
      [] \E p \in Priorities : Contains(waiting_queue.lists[p], e) -> "waiting"
      [] OTHER -> IF emergency[e].status \in {"IN_PROGRESS", "COMPLETED"}
                  THEN "attended" ELSE "assigned"

Lifecycle == INSTANCE EmergencyLifecycle WITH
    PoolSize <- Cardinality(Workers),
    Urgencies <- Priorities,
    FirstUrgency <- TypePriority,
    phase <- [e \in Emergencies |-> Phase(e)],
    urgency <- [e \in Emergencies |-> emergency[e].priority]

(* The server implements EmergencyLifecycle: threads, queues, robberies,   *)
(* promotions, timeouts and a stop never assign an emergency twice, never  *)
(* pass over a more urgent one, never attend one of the lowest level       *)
(* (utils.c:100), and never bring an archived one back.                    *)
ImplementsLifecycle == Lifecycle!Spec

--------------------------------------------------------------------------------
(* Progress. *)

(* A set of threads each of which waits for another of the set: nothing    *)
(* lets them go on but the end of the process.                             *)
InCircle(S) ==
    \A o \in S : (IF o = Updater THEN UpdaterWaitsFor ELSE WaitsFor(o)) \cap S # {}

Deadlocked == \E S \in SUBSET (Workers \cup {Updater}) : S # {} /\ InCircle(S)

Archived(e) == e \in ToSet(completed_emergencies) \cup ToSet(canceled_emergencies)

(* The circles there can be all go through the updater, and only while it   *)
(* scans a queue: while it waits for a tick or for one of the mutexes of    *)
(* its update, whatever is asked for is given back.                         *)
OnlyScansDeadlock ==
    \A S \in SUBSET (Workers \cup {Updater}) :
        S # {} /\ InCircle(S) => Updater \in S /\ updater \in Scanning

(* Every request accepted ends in one of the two archives, however         *)
(* searches, robberies, arrivals and timeouts interleave: a request that   *)
(* wakes nobody because is_empty is down (emergency_priority_queue.c:184)  *)
(* is taken all the same, no signal on a node's condition is lost, and     *)
(* nothing keeps a worker for ever, short of a crash and of the deadlock   *)
(* with the updater (Deadlocked).  Requests come to an end, and archived   *)
(* ones stay so: that all are archived again and again says it of each.    *)
ReceivedIsArchived ==
    []<>(server = "crashed" \/ Deadlocked \/ \A e \in received : Archived(e))

--------------------------------------------------------------------------------
(* What the comments say and the code does not do. *)

(* server_updater.c:266, "il mutex e' libero ogni volta che il thread che  *)
(* elabora il nodo sta aspettando qualcosa": a worker that waits leaves    *)
(* its node to the updater, so that no circle of threads waits for ever.   *)
NobodyWaitsForEver == ~Deadlocked

(* server_emergency_handler.c:25, "c'e' almeno un nodo da processare":     *)
(* once is_empty is down, a dequeue finds a node.                          *)
DequeueFindsANode ==
    \A w \in Workers : pc[w] = "lockWorking" => node[w] # None

(* server.c:47, "faccio il join dei thread cosi' quando hanno finito       *)
(* chiudo tutto": once a stop is received the threads finish and the       *)
(* server closes, unless it crashes or deadlocks first.                    *)
StopCloses == main = "joining" ~> (server # "up" \/ Deadlocked)

=============================================================================
