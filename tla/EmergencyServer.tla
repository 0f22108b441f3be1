---------------------------- MODULE EmergencyServer ----------------------------
(***************************************************************************)
(* The threads of the emergency server (src/LAB2/progetto/src): the        *)
(* receiver (the main thread), the clock, the updater and the worker pool, *)
(* over the two priority queues, the emergencies and the rescuers' digital *)
(* twins they share.                                                       *)
(*                                                                         *)
(* A thread holds a mutex across several of its steps only when it asks    *)
(* for another mutex meanwhile; a critical section that asks for no other  *)
(* is one action whose guard says the mutex is free.  The mutexes of the   *)
(* completed and canceled lists are taken inside the working queue's only, *)
(* so that one stands for them.                                            *)
(***************************************************************************)
EXTENDS Bresenham, EmergencyQueue, FiniteSets

CONSTANTS
    Workers,            \* the threads of the pool (THREAD_POOL_SIZE)
    Updater,            \* the updater thread, as the owner of a mutex
    Emergencies,        \* the valid requests the clients may send
    RescuerTypes,       \* what conf/rescuers.conf lists
    TwinsOf,            \* the digital twins of a type, in array order
    Base, Speed,        \* of a rescuer type
    Needs,              \* of an emergency: one rescuer type per rescuer needed
    TypePriority,       \* of an emergency: the priority of its type
    Scene,              \* of an emergency: where it is
    TimeToManage,       \* of an emergency, per rescuer type, in ticks
    Width, Height,      \* of the map (conf/env.conf)
    FarAway,            \* the distance from which a rescuer is not considered
    PromotionAge,       \* MAX_TIME_IN_MIN_PRIORITY_BEFORE_PROMOTION
    MediumLimit,        \* MAX_TIME_IN_MEDIUM_PRIORITY_BEFORE_TIMEOUT
    MaxLimit,           \* MAX_TIME_IN_MAX_PRIORITY_BEFORE_TIMEOUT
    CancelAge,          \* TIME_BEFORE_AN_EMERGENCY_SHOULD_BE_CANCELLED_TICKS
    SearchLog,          \* what the log line of a search can do: see BeginSearch
    Garbage,            \* what malloc can leave in a trajectory
    StopIsSent,         \* whether a client may send STOP_MESSAGE_FROM_CLIENT
    SpuriousWakeups,    \* whether cnd_wait may return without a signal
    None                \* NULL, and the owner of a free mutex

Twins == UNION {ToSet(TwinsOf[r]) : r \in RescuerTypes}

ASSUME ThreadsAssumption ==
    /\ IsFiniteSet(Workers)
    /\ Updater \notin Workers /\ None \notin Workers /\ Updater # None
    /\ None \notin Emergencies /\ None \notin Twins

ASSUME RescuersAssumption ==
    /\ TwinsOf \in [RescuerTypes -> Seq(Twins)]
    /\ Base \in [RescuerTypes -> Point]
    /\ Speed \in [RescuerTypes -> Nat \ {0}]
    /\ Garbage \subseteq Trajectory /\ Garbage # {}

ASSUME EmergenciesAssumption ==
    /\ Needs \in [Emergencies -> Seq(RescuerTypes)]
    /\ TypePriority \in [Emergencies -> Priorities]
    /\ Scene \in [Emergencies -> Point]
    /\ TimeToManage \in [Emergencies -> [RescuerTypes -> Nat \ {0}]]

ASSUME LimitsAssumption ==
    /\ PromotionAge \in Nat /\ MediumLimit \in Nat
    /\ MaxLimit \in Nat /\ CancelAge \in Nat /\ FarAway \in Nat
    /\ Width \in Nat /\ Height \in Nat

ASSUME EnvironmentAssumption ==
    /\ SearchLog \subseteq {"returns", "crashes"} /\ SearchLog # {}
    /\ StopIsSent \in BOOLEAN /\ SpuriousWakeups \in BOOLEAN

INVALID_TIME == -1

VARIABLES
    server,                 \* "up", "crashed" or "closed": the process
    main,                   \* what the main thread does: "receiving", "joining"
    server_must_stop,
    received,               \* the requests accepted so far
    clock, tick,            \* the clock thread and the flag it raises
    updater, level, todo,   \* the updater and where its scan of a queue is
    pc, node,               \* of a worker: its next step, the node it handles
    chosen, probes, sent,   \* of a worker: its search for rescuers
    rescuers_mutex, waiting_mutex, working_mutex, node_mutex,
    waiting_queue, working_queue,
    completed_emergencies, canceled_emergencies,
    emergency,              \* emergency_t and the flags of its node
    twin                    \* rescuer_digital_twin_t

mainVars   == <<main, server_must_stop, received>>
clockVars  == <<clock, tick>>
scanVars   == <<level, todo>>
searchVars == <<chosen, probes, sent>>
poolVars   == <<pc, node, searchVars>>
queueLocks == <<waiting_mutex, working_mutex>>
locks      == <<rescuers_mutex, queueLocks, node_mutex>>
archives   == <<completed_emergencies, canceled_emergencies>>
listVars   == <<waiting_queue, working_queue, archives>>
dataVars   == <<emergency, twin>>

vars == <<server, mainVars, clockVars, updater, scanVars, poolVars, locks,
          listVars, dataVars>>

--------------------------------------------------------------------------------
(* Emergencies and twins as they are created. *)

(* mallocate_emergency and mallocate_emergency_node.  time_since_started_  *)
(* waiting and rescuers_are_arriving are written and never read.           *)
NewEmergency(e) ==
    [status |-> "WAITING", priority |-> TypePriority[e],
     rescuers_found |-> FALSE, rescuers_have_arrived |-> FALSE,
     eta |-> INVALID_TIME, assigned |-> INVALID_TIME, spent |-> 0,
     rescuer_twins |-> <<>>]

TypeOfTwin(t) == CHOOSE r \in RescuerTypes : t \in ToSet(TwinsOf[r])

(* mallocate_rescuer_digital_twin: the trajectory is left as malloc gave it *)
NewTwin(t, garbage) ==
    [status |-> "IDLE", at |-> Base[TypeOfTwin(t)], trajectory |-> garbage,
     node |-> None, has_arrived |-> TRUE,
     time_to_manage |-> INVALID_TIME, time_left |-> INVALID_TIME]

(* e's status changes and nothing else does *)
WithStatus(e, status) == [emergency EXCEPT ![e].status = status]

(* change_rescuer_digital_twin_destination *)
HeadFor(t, to) ==
    IF t.at = to THEN t
    ELSE [t EXCEPT !.trajectory = NewTrajectory(t.at, to),
                   !.has_arrived = FALSE, !.time_left = INVALID_TIME]

Init ==
    /\ server = "up" /\ main = "receiving"
    /\ server_must_stop = FALSE /\ received = {}
    /\ clock = "running" /\ tick = FALSE
    /\ updater = "check" /\ level = MIN_PRIORITY /\ todo = <<>>
    /\ pc = [w \in Workers |-> "check"]
    /\ node = [w \in Workers |-> None]
    /\ chosen = [w \in Workers |-> <<>>]
    /\ probes = [w \in Workers |-> {}]
    /\ sent = [w \in Workers |-> 0]
    /\ rescuers_mutex = None /\ waiting_mutex = None /\ working_mutex = None
    /\ node_mutex = [e \in Emergencies |-> None]
    /\ waiting_queue = EmptyQueue /\ working_queue = EmptyQueue
    /\ completed_emergencies = <<>> /\ canceled_emergencies = <<>>
    /\ emergency = [e \in Emergencies |-> NewEmergency(e)]
    /\ \E g \in Garbage : twin = [t \in Twins |-> NewTwin(t, g)]

--------------------------------------------------------------------------------
(* Conditions.  A worker blocked in cnd_wait on its node's condition goes  *)
(* from "...Wait" to "...Woken", where it still has to take the mutex back. *)

(* cnd_signal(&n->waiting), as the new value of pc.  A worker asleep       *)
(* between two searches wakes by itself: see RetrySearch.                  *)
WokenFrom(p) == IF p = "arriveWait" THEN "arriveWoken" ELSE "finishWoken"

SignalNode(e) ==
    [w \in Workers |-> IF node[w] = e /\ pc[w] \in {"arriveWait", "finishWait"}
                       THEN WokenFrom(pc[w]) ELSE pc[w]]

(* The frames of a step of a worker and of a step of the updater *)
OnlyWorkers == UNCHANGED <<server, mainVars, clockVars, updater, scanVars>>

OnlyUpdater == UNCHANGED <<server, mainVars, clockVars>>

Asleep == {w \in Workers : pc[w] = "asleep"}

(* cnd_signal(&q->not_empty): wakes one of the workers asleep, if any. *)
SignalNotEmpty ==
    IF Asleep = {} THEN pc' = pc
    ELSE \E w \in Asleep : pc' = [pc EXCEPT ![w] = "lockWaiting"]

--------------------------------------------------------------------------------
(* Receiver: emergency_requests_reciever, then the joins of server().      *)

ReceiveRequest(e) ==
    /\ server = "up" /\ main = "receiving"
    /\ e \notin received
    /\ waiting_mutex = None
    /\ received' = received \cup {e}
    /\ waiting_queue' = Enqueue(waiting_queue, e, emergency[e].priority)
    /\ IF EnqueueSignals(waiting_queue) THEN SignalNotEmpty ELSE pc' = pc
    /\ UNCHANGED <<server, main, server_must_stop, clockVars, updater, scanVars,
                   node, searchVars, locks, working_queue, archives, dataVars>>

ReceiveStop ==
    /\ server = "up" /\ main = "receiving"
    /\ StopIsSent
    /\ server_must_stop' = TRUE
    /\ main' = "joining"
    /\ UNCHANGED <<server, received, clockVars, updater, scanVars, poolVars, locks,
                   listVars, dataVars>>

(* thrd_join of every thread, then close_server *)
CloseServer ==
    /\ server = "up" /\ main = "joining"
    /\ clock = "done" /\ updater = "done" /\ \A w \in Workers : pc[w] = "done"
    /\ server' = "closed"
    /\ UNCHANGED <<mainVars, clockVars, updater, scanVars, poolVars, locks,
                   listVars, dataVars>>

--------------------------------------------------------------------------------
(* Clock: server_clock.  tick_count_since_start is only logged.            *)
(* Nothing shows whether the thread sleeps or is about to test             *)
(* server_must_stop: after a stop it either ticks once more or it has just *)
(* ticked, and then it ends.                                               *)

Tick ==
    /\ server = "up" /\ clock = "running"
    /\ tick' = TRUE
    /\ clock' = IF server_must_stop THEN "done" ELSE clock
    /\ UNCHANGED <<server, mainVars, updater, scanVars, poolVars, locks, listVars,
                   dataVars>>

StopClock ==
    /\ server = "up" /\ clock = "running"
    /\ server_must_stop
    /\ clock' = "done"
    /\ UNCHANGED <<server, mainVars, tick, updater, scanVars, poolVars, locks,
                   listVars, dataVars>>

--------------------------------------------------------------------------------
(* Worker: server_emergency_handler, from a stop check to a node at hand.  *)

CheckStop(w) ==
    /\ server = "up" /\ pc[w] = "check"
    /\ pc' = [pc EXCEPT ![w] = IF server_must_stop THEN "done" ELSE "lockWaiting"]
    /\ OnlyWorkers /\ UNCHANGED <<node, searchVars, locks, listVars, dataVars>>

WaitForWork(w) ==
    /\ server = "up" /\ pc[w] = "lockWaiting"
    /\ waiting_mutex = None
    /\ waiting_queue.is_empty
    /\ pc' = [pc EXCEPT ![w] = "asleep"]
    /\ OnlyWorkers /\ UNCHANGED <<node, searchVars, locks, listVars, dataVars>>

TakeNode(w) ==
    /\ server = "up" /\ pc[w] = "lockWaiting"
    /\ waiting_mutex = None
    /\ ~waiting_queue.is_empty
    /\ waiting_queue' = Dequeue(waiting_queue)
    /\ node' = [node EXCEPT ![w] = IF HasNode(waiting_queue) THEN First(waiting_queue)
                                                             ELSE None]
    /\ pc' = [pc EXCEPT ![w] = "lockWorking"]
    /\ OnlyWorkers /\ UNCHANGED <<searchVars, locks, working_queue, archives,
                                  dataVars>>

(* enqueue_emergency_node ignores a NULL node; the log line after it does not *)
EnqueueWorking(w) ==
    /\ server = "up" /\ pc[w] = "lockWorking"
    /\ working_mutex = None
    /\ IF node[w] = None
       THEN server' = "crashed" /\ UNCHANGED <<pc, working_queue>>
       ELSE /\ working_queue' = Enqueue(working_queue, node[w],
                                        emergency[node[w]].priority)
            /\ pc' = [pc EXCEPT ![w] = "lockNode"]
            /\ UNCHANGED server
    /\ UNCHANGED <<mainVars, clockVars, updater, scanVars, node, searchVars, locks,
                   waiting_queue, archives, dataVars>>

(* lines 32-35, and the head of handle_search_for_rescuers: its log line   *)
(* passes an int where the format says %s, so that it may not return.      *)
Assigned(r) ==
    [r EXCEPT !.assigned = IF r.status = "WAITING" THEN 0 ELSE @,
              !.status = "ASKING_FOR_RESCUERS"]

BeginSearch(w) ==
    /\ server = "up" /\ pc[w] = "lockNode"
    /\ node_mutex[node[w]] = None
    /\ node_mutex' = [node_mutex EXCEPT ![node[w]] = w]
    /\ emergency' = [emergency EXCEPT ![node[w]] = Assigned(@)]
    /\ pc' = [pc EXCEPT ![w] = "lockRescuers"]
    /\ \E outcome \in SearchLog :
          server' = IF outcome = "crashes" THEN "crashed" ELSE server
    /\ UNCHANGED <<mainVars, clockVars, updater, scanVars, node, searchVars,
                   rescuers_mutex, queueLocks, listVars, twin>>

--------------------------------------------------------------------------------
(* Worker: find_and_send_nearest_rescuers, always in STEAL mode.           *)

Distance(t, e) == Manhattan(twin[t].at, Scene[e])

(* The first of the nearest twins of type r that are in S. *)
Nearest(r, e, S) ==
    LET ok == {i \in DOMAIN TwinsOf[r] :
                 TwinsOf[r][i] \in S /\ Distance(TwinsOf[r][i], e) < FarAway}
        d(i) == Distance(TwinsOf[r][i], e)
    IN  IF ok = {} THEN None
        ELSE TwinsOf[r][CHOOSE i \in ok :
                           \A j \in ok : d(i) < d(j) \/ (d(i) = d(j) /\ i <= j)]

Available == {t \in Twins : twin[t].status = "IDLE"}

(* MUTANT of Stealable: a rescuer on its way back may be stolen too *)
StealableAnywhere(e) ==
    {t \in Twins : /\ twin[t].node \notin {None, e}
                   /\ twin[t].status # "IDLE"
                   /\ emergency[twin[t].node].priority < emergency[e].priority}

(* is_rescuer_digital_twin_stealable *)
Stealable(e) ==
    {t \in Twins : /\ twin[t].node \notin {None, e}
                   /\ twin[t].status \in {"EN_ROUTE_TO_SCENE", "ON_SCENE"}
                   /\ emergency[twin[t].node].priority < emergency[e].priority}

(* MUTANT of FindOne: the rescuers already chosen may be chosen again *)
FindOneAgain(r, e, already) ==
    LET free == Nearest(r, e, Available)
    IN  IF free # None THEN free ELSE Nearest(r, e, Stealable(e))

(* One rescuer of type r besides those already chosen, or None *)
FindOne(r, e, already) ==
    LET free == Nearest(r, e, Available \ already)
    IN  IF free # None THEN free ELSE Nearest(r, e, Stealable(e) \ already)

(* The rescuers found before the search ends or fails *)
FindAll(e) ==
    LET picked[k \in 0 .. Len(Needs[e])] ==
            IF k = 0 THEN <<>>
            ELSE LET before == picked[k - 1]
                     t == FindOne(Needs[e][k], e, ToSet(before))
                 IN  IF Len(before) < k - 1 \/ t = None THEN before
                     ELSE Append(before, t)
    IN  picked[Len(Needs[e])]

(* The nodes that search locks one after the other, to read their priority *)
NodesProbed(e) ==
    LET found == FindAll(e)
        tried == {k \in DOMAIN Needs[e] :
                    /\ k <= Len(found) + 1
                    /\ Nearest(Needs[e][k], e,
                               Available \ {found[i] : i \in 1 .. k - 1}) = None}
        asked == UNION {ToSet(TwinsOf[Needs[e][k]]) : k \in tried}
    IN  {twin[t].node : t \in asked} \ {None}

SearchRescuers(w) ==
    /\ server = "up" /\ pc[w] = "lockRescuers"
    /\ rescuers_mutex = None
    /\ rescuers_mutex' = w
    /\ chosen' = [chosen EXCEPT ![w] = FindAll(node[w])]
    /\ probes' = [probes EXCEPT ![w] = NodesProbed(node[w])]
    /\ sent' = [sent EXCEPT ![w] = 0]
    /\ pc' = [pc EXCEPT ![w] = "search"]
    /\ OnlyWorkers /\ UNCHANGED <<node, queueLocks, node_mutex, listVars, dataVars>>

(* lock_node and unlock_node around one comparison *)
ProbeNode(w, e) ==
    /\ server = "up" /\ pc[w] = "search"
    /\ e \in probes[w] /\ node_mutex[e] = None
    /\ probes' = [probes EXCEPT ![w] = @ \ {e}]
    /\ OnlyWorkers /\ UNCHANGED <<pc, node, chosen, sent, locks, listVars,
                                  dataVars>>

AllFound(w) == Len(chosen[w]) = Len(Needs[node[w]])

(* MUTANT of SearchFails: rescuers_mutex is given back after a success only *)
FailHoldingRescuers(w) ==
    /\ server = "up" /\ pc[w] = "search"
    /\ probes[w] = {} /\ ~AllFound(w)
    /\ emergency' = [emergency EXCEPT ![node[w]].rescuers_found = FALSE]
    /\ node_mutex' = [node_mutex EXCEPT ![node[w]] = None]
    /\ pc' = [pc EXCEPT ![w] = "retryWait"]
    /\ chosen' = [chosen EXCEPT ![w] = <<>>]
    /\ OnlyWorkers /\ UNCHANGED <<node, probes, sent, rescuers_mutex, queueLocks,
                                  listVars, twin>>

(* Not enough rescuers: give the two mutexes back and sleep for a while.   *)
SearchFails(w) ==
    /\ server = "up" /\ pc[w] = "search"
    /\ probes[w] = {} /\ ~AllFound(w)
    /\ rescuers_mutex' = None
    /\ emergency' = [emergency EXCEPT ![node[w]].rescuers_found = FALSE]
    /\ node_mutex' = [node_mutex EXCEPT ![node[w]] = None]
    /\ pc' = [pc EXCEPT ![w] = "retryWait"]
    /\ chosen' = [chosen EXCEPT ![w] = <<>>]
    /\ OnlyWorkers /\ UNCHANGED <<node, probes, sent, queueLocks, listVars, twin>>

(* cnd_timedwait ends, by a signal or by itself *)
RetrySearch(w) ==
    /\ server = "up" /\ pc[w] = "retryWait"
    /\ node_mutex[node[w]] = None
    /\ node_mutex' = [node_mutex EXCEPT ![node[w]] = w]
    /\ pc' = [pc EXCEPT ![w] = IF emergency[node[w]].status = "CANCELED"
                               THEN "cancel" ELSE "lockRescuers"]
    /\ OnlyWorkers /\ UNCHANGED <<node, searchVars, rescuers_mutex, queueLocks,
                                  listVars, dataVars>>

(* The search is over and found every rescuer: they are sent one by one. *)
Sending(w) == pc[w] = "search" /\ probes[w] = {} /\ AllFound(w)

NextToSend(w) == chosen[w][sent[w] + 1]

(* MUTANTS of MustBeStolen: only those at work are paused; whoever has the *)
(* rescuer is paused, whatever became of it                                *)
OnlyFromWork(t) ==
    /\ twin[t].status \in {"EN_ROUTE_TO_SCENE", "ON_SCENE"}
    /\ emergency[twin[t].node].status = "IN_PROGRESS"

WhateverTheVictim(t) == twin[t].status \in {"EN_ROUTE_TO_SCENE", "ON_SCENE"}

(* rescuer_digital_twin_must_be_stolen: the victim's status is read without *)
(* its mutex.                                                              *)
MustBeStolen(t) ==
    /\ twin[t].status \in {"EN_ROUTE_TO_SCENE", "ON_SCENE"}
    /\ emergency[twin[t].node].status \in {"WAITING_FOR_RESCUERS", "IN_PROGRESS"}

(* send_rescuer_digital_twin_to_scene_logging *)
SentTo(t, e) ==
    HeadFor([twin[t] EXCEPT !.node = e, !.status = "EN_ROUTE_TO_SCENE",
                            !.time_to_manage = TimeToManage[e][TypeOfTwin(t)]],
            Scene[e])

(* pause_emergency_blocking_signaling_logging *)
Paused(r) ==
    IF r.status = "PAUSED" THEN r
    ELSE [r EXCEPT !.status = "PAUSED", !.rescuers_have_arrived = FALSE,
                   !.rescuers_found = FALSE, !.eta = INVALID_TIME]

(* MUTANT of WithTwin: the index does not move *)
InFirstPlace(r, i, t) == [r EXCEPT !.rescuer_twins = <<t>>]

(* rescuer_twins[i] = dt *)
WithTwin(r, i, t) ==
    [r EXCEPT !.rescuer_twins = IF i <= Len(@) THEN [@ EXCEPT ![i] = t] ELSE Append(@, t)]

SendFree(w) ==
    /\ server = "up" /\ Sending(w) /\ sent[w] < Len(chosen[w])
    /\ ~MustBeStolen(NextToSend(w))
    /\ twin' = [twin EXCEPT ![NextToSend(w)] = SentTo(NextToSend(w), node[w])]
    /\ emergency' = [emergency EXCEPT ![node[w]] = WithTwin(@, sent[w] + 1, NextToSend(w))]
    /\ sent' = [sent EXCEPT ![w] = @ + 1]
    /\ OnlyWorkers /\ UNCHANGED <<pc, node, chosen, probes, locks, listVars>>

DecideToSteal(w) ==
    /\ server = "up" /\ Sending(w) /\ sent[w] < Len(chosen[w])
    /\ MustBeStolen(NextToSend(w))
    /\ pc' = [pc EXCEPT ![w] = "steal"]
    /\ OnlyWorkers /\ UNCHANGED <<node, searchVars, locks, listVars, dataVars>>

PauseAndSend(w) ==
    LET t == NextToSend(w)
        victim == twin[t].node
    IN  /\ server = "up" /\ pc[w] = "steal"
        /\ node_mutex[victim] = None
        /\ pc' = [(IF emergency[victim].status = "PAUSED" THEN pc ELSE SignalNode(victim))
                     EXCEPT ![w] = "search"]
        /\ twin' = [twin EXCEPT ![t] = SentTo(t, node[w])]
        /\ emergency' = [emergency EXCEPT ![victim] = Paused(@),
                                          ![node[w]] = WithTwin(@, sent[w] + 1, t)]
        /\ sent' = [sent EXCEPT ![w] = @ + 1]
        /\ OnlyWorkers /\ UNCHANGED <<node, chosen, probes, locks, listVars>>

(* The slowest of the rescuers sent, from where each was: none of them has *)
(* moved since, the updater moves them under rescuers_mutex.               *)
TimeToArrive(e, team) ==
    LET times == {Distance(team[i], e) \div Speed[TypeOfTwin(team[i])] + 1 :
                    i \in DOMAIN team}
    IN  IF times = {} THEN 0 ELSE CHOOSE m \in times : \A k \in times : k <= m

(* The rest of the search and the head of handle_waiting_for_rescuers_to_  *)
(* arrive.  Its first cnd_wait releases the node.                          *)
SearchEnds(w) ==
    /\ server = "up" /\ Sending(w) /\ sent[w] = Len(chosen[w])
    /\ emergency' = [emergency EXCEPT
                        ![node[w]].eta = TimeToArrive(node[w], chosen[w]),
                        ![node[w]].rescuers_found = TRUE,
                        ![node[w]].status = "WAITING_FOR_RESCUERS"]
    /\ rescuers_mutex' = None
    /\ node_mutex' = [node_mutex EXCEPT ![node[w]] = None]
    /\ pc' = [pc EXCEPT ![w] = "arriveWait"]
    /\ chosen' = [chosen EXCEPT ![w] = <<>>]
    /\ sent' = [sent EXCEPT ![w] = 0]
    /\ OnlyWorkers /\ UNCHANGED <<node, probes, queueLocks, listVars, twin>>

--------------------------------------------------------------------------------
(* Worker: the waits for the rescuers to arrive and to finish, and the     *)
(* ways out of the working queue.                                          *)

(* A worker takes its node's mutex back and goes on to `next` with it. *)
ResumeWith(w, next) ==
    /\ node_mutex[node[w]] = None
    /\ node_mutex' = [node_mutex EXCEPT ![node[w]] = w]
    /\ pc' = [pc EXCEPT ![w] = next]
    /\ OnlyWorkers /\ UNCHANGED <<node, searchVars, rescuers_mutex, queueLocks,
                                  listVars, dataVars>>

(* MUTANT of AfterWait: a canceled emergency counts as a completed one *)
CompletesCanceled(status) == IF status = "PAUSED" THEN "pause" ELSE "complete"

(* What a woken worker asks for, once its wait is over *)
AfterWait(status) == IF status = "PAUSED" THEN "pause"
                     ELSE IF status = "CANCELED" THEN "cancel" ELSE "complete"

(* MUTANT of BeginProcessing: any wakeup is taken for the arrival *)
BeginOnAnyWakeup(w) ==
    /\ server = "up" /\ pc[w] = "arriveWoken"
    /\ node_mutex[node[w]] = None
    /\ emergency' = WithStatus(node[w], "IN_PROGRESS")
    /\ pc' = [pc EXCEPT ![w] = "finishWait"]
    /\ OnlyWorkers /\ UNCHANGED <<node, searchVars, locks, listVars, twin>>

(* The rescuers are there: the node goes to the next cnd_wait. *)
BeginProcessing(w) ==
    /\ server = "up" /\ pc[w] = "arriveWoken"
    /\ node_mutex[node[w]] = None
    /\ emergency[node[w]].rescuers_have_arrived
    /\ emergency' = WithStatus(node[w], "IN_PROGRESS")
    /\ pc' = [pc EXCEPT ![w] = "finishWait"]
    /\ OnlyWorkers /\ UNCHANGED <<node, searchVars, locks, listVars, twin>>

GiveUpArrival(w) ==
    /\ server = "up" /\ pc[w] = "arriveWoken"
    /\ ~emergency[node[w]].rescuers_have_arrived
    /\ emergency[node[w]].status \in {"PAUSED", "CANCELED"}
    /\ ResumeWith(w, AfterWait(emergency[node[w]].status))

EndProcessing(w) ==
    /\ server = "up" /\ pc[w] = "finishWoken"
    /\ emergency[node[w]].status \in {"COMPLETED", "PAUSED", "CANCELED"}
    /\ ResumeWith(w, AfterWait(emergency[node[w]].status))

(* The condition waited for does not hold (any more): wait again. *)
WaitAgain(w) ==
    /\ server = "up" /\ pc[w] \in {"arriveWoken", "finishWoken"}
    /\ node_mutex[node[w]] = None
    /\ \/ /\ pc[w] = "arriveWoken"
          /\ ~emergency[node[w]].rescuers_have_arrived
          /\ emergency[node[w]].status \notin {"PAUSED", "CANCELED"}
          /\ pc' = [pc EXCEPT ![w] = "arriveWait"]
       \/ /\ pc[w] = "finishWoken"
          /\ emergency[node[w]].status \notin {"COMPLETED", "PAUSED", "CANCELED"}
          /\ pc' = [pc EXCEPT ![w] = "finishWait"]
    /\ OnlyWorkers /\ UNCHANGED <<node, searchVars, locks, listVars, dataVars>>

(* C11 lets cnd_wait return without a signal. *)
SpuriousWakeup(w) ==
    /\ server = "up" /\ SpuriousWakeups
    /\ pc[w] \in {"asleep", "arriveWait", "finishWait"}
    /\ pc' = [pc EXCEPT ![w] = IF @ = "asleep" THEN "lockWaiting" ELSE WokenFrom(@)]
    /\ OnlyWorkers /\ UNCHANGED <<node, searchVars, locks, listVars, dataVars>>

(* MUTANT of Released: the unlock is forgotten *)
StillLocked(w) == node_mutex

(* unlock_node at the end of the three ways out.  Cancelling from the      *)
(* second test of a wait would unlock a mutex the worker does not own.     *)
Released(w) == [node_mutex EXCEPT ![node[w]] = None]

(* move_working_node_to_completed_blocking *)
Complete(w) ==
    /\ server = "up" /\ pc[w] = "complete"
    /\ working_mutex = None
    /\ working_queue' = RemoveNode(working_queue, node[w])
    /\ completed_emergencies' = Append(completed_emergencies, node[w])
    /\ node_mutex' = Released(w)
    /\ pc' = [pc EXCEPT ![w] = "check"]
    /\ node' = [node EXCEPT ![w] = None]
    /\ OnlyWorkers /\ UNCHANGED <<searchVars, rescuers_mutex, queueLocks,
                                  waiting_queue, canceled_emergencies, dataVars>>

(* MUTANT of Cancel: the working queue is not locked *)
CancelWithoutLock(w) ==
    /\ server = "up" /\ pc[w] = "cancel"
    /\ working_queue' = RemoveNode(working_queue, node[w])
    /\ canceled_emergencies' =
          Append(RemoveFirst(canceled_emergencies, node[w]), node[w])
    /\ node_mutex' = Released(w)
    /\ pc' = [pc EXCEPT ![w] = "check"]
    /\ node' = [node EXCEPT ![w] = None]
    /\ OnlyWorkers /\ UNCHANGED <<searchVars, rescuers_mutex, queueLocks,
                                  waiting_queue, completed_emergencies, dataVars>>

(* cancel_and_unlock_working_node_blocking *)
Cancel(w) ==
    /\ server = "up" /\ pc[w] = "cancel"
    /\ working_mutex = None
    /\ working_queue' = RemoveNode(working_queue, node[w])
    /\ canceled_emergencies' =
          Append(RemoveFirst(canceled_emergencies, node[w]), node[w])
    /\ node_mutex' = Released(w)
    /\ pc' = [pc EXCEPT ![w] = "check"]
    /\ node' = [node EXCEPT ![w] = None]
    /\ OnlyWorkers /\ UNCHANGED <<searchVars, rescuers_mutex, queueLocks,
                                  waiting_queue, completed_emergencies, dataVars>>

(* pause_and_unlock_working_node_blocking, in two steps: it asks for the   *)
(* working queue while it holds the waiting queue.                         *)
PauseLockWaiting(w) ==
    /\ server = "up" /\ pc[w] = "pause"
    /\ waiting_mutex = None
    /\ waiting_mutex' = w
    /\ pc' = [pc EXCEPT ![w] = "pauseLocked"]
    /\ OnlyWorkers /\ UNCHANGED <<node, searchVars, rescuers_mutex, working_mutex,
                                  node_mutex, listVars, dataVars>>

(* MUTANTS of ShelvePaused: the node stays in its old list; it goes back to *)
(* the waiting queue, as the lock taken on that queue suggests               *)
ShelveACopy(w) ==
    /\ canceled_emergencies' = <<node[w]>> \o canceled_emergencies
    /\ UNCHANGED <<waiting_queue, working_queue>>

PutBackInLine(w) ==
    /\ working_queue' = RemoveNode(working_queue, node[w])
    /\ waiting_queue' = Enqueue(waiting_queue, node[w], emergency[node[w]].priority)
    /\ UNCHANGED canceled_emergencies

(* change_emergency_node_list_push: a paused emergency is not put back in   *)
(* the waiting queue, it joins the canceled ones.                          *)
ShelvePaused(w) ==
    /\ working_queue' = RemoveNode(working_queue, node[w])
    /\ canceled_emergencies' = <<node[w]>> \o canceled_emergencies
    /\ UNCHANGED waiting_queue

Pause(w) ==
    /\ server = "up" /\ pc[w] = "pauseLocked"
    /\ working_mutex = None
    /\ ShelvePaused(w)
    /\ waiting_mutex' = None
    /\ node_mutex' = Released(w)
    /\ pc' = [pc EXCEPT ![w] = "recheck"]
    /\ OnlyWorkers /\ UNCHANGED <<node, searchVars, rescuers_mutex, working_mutex,
                                  completed_emergencies, dataVars>>

(* The test for CANCELED after a pause, without the node's mutex *)
RecheckCanceled(w) ==
    /\ server = "up" /\ pc[w] = "recheck"
    /\ IF emergency[node[w]].status = "CANCELED"
       THEN pc' = [pc EXCEPT ![w] = "cancel"] /\ UNCHANGED node
       ELSE pc' = [pc EXCEPT ![w] = "check"] /\ node' = [node EXCEPT ![w] = None]
    /\ OnlyWorkers /\ UNCHANGED <<searchVars, locks, listVars, dataVars>>

--------------------------------------------------------------------------------
(* Updater: server_updater and what one tick does to a twin and to a node. *)

CheckUpdater ==
    /\ server = "up" /\ updater = "check"
    /\ updater' = IF server_must_stop THEN "cancelAll" ELSE "awaitTick"
    /\ OnlyUpdater /\ UNCHANGED <<scanVars, poolVars, locks, listVars, dataVars>>

(* clock_mutex protects the flag, so that no tick is missed while asleep *)
TakeTick ==
    /\ server = "up" /\ updater = "awaitTick"
    /\ tick
    /\ tick' = FALSE
    /\ updater' = "lockRescuers"
    /\ UNCHANGED <<server, mainVars, clock, scanVars, poolVars, locks, listVars,
                   dataVars>>

(* MUTANT of UpdaterLockRescuers: the lock is forgotten *)
UpdaterSkipsRescuers ==
    /\ server = "up" /\ updater = "lockRescuers"
    /\ updater' = "lockWaiting"
    /\ OnlyUpdater /\ UNCHANGED <<scanVars, poolVars, locks, listVars, dataVars>>

UpdaterLockRescuers ==
    /\ server = "up" /\ updater = "lockRescuers"
    /\ rescuers_mutex = None
    /\ rescuers_mutex' = Updater
    /\ updater' = "lockWaiting"
    /\ OnlyUpdater /\ UNCHANGED <<scanVars, poolVars, queueLocks, node_mutex,
                                  listVars, dataVars>>

UpdaterLockWaiting ==
    /\ server = "up" /\ updater = "lockWaiting"
    /\ waiting_mutex = None
    /\ waiting_mutex' = Updater
    /\ updater' = "lockWorking"
    /\ OnlyUpdater /\ UNCHANGED <<scanVars, poolVars, rescuers_mutex, working_mutex,
                                  node_mutex, listVars, dataVars>>

(* The three scans of a queue go through its lists from the lowest         *)
(* priority up, and through a list by the next pointers: `todo` is what is *)
(* left of the list at `level`.  The list after it is looked up only then. *)
Upwards(q, from) ==
    LET left == {p \in Priorities : p >= from /\ q.lists[p] # <<>>}
    IN  IF left = {} THEN [level |-> MAX_PRIORITY, todo |-> <<>>]
        ELSE LET p == CHOOSE p \in left : \A r \in left : p <= r
             IN  [level |-> p, todo |-> q.lists[p]]

StartOf(q) == Upwards(q, MIN_PRIORITY)

NextIn(q) == IF Tail(todo) # <<>> THEN [level |-> level, todo |-> Tail(todo)]
                                  ELSE Upwards(q, level + 1)

MoveTo(place) == level' = place.level /\ todo' = place.todo

(* send_rescuer_digital_twin_back_to_base_logging, called on a twin ON_SCENE *)
SentBack(t, r) ==
    HeadFor([r EXCEPT !.status = "RETURNING_TO_BASE", !.time_to_manage = INVALID_TIME],
            Base[TypeOfTwin(t)])

(* The walk, and what arriving changes *)
Walked(t, r) ==
    LET s     == Step(r.at, r.trajectory, Speed[TypeOfTwin(t)])
        moved == [r EXCEPT !.at = s.at, !.trajectory.err = s.err]
    IN  IF ~s.arrived THEN moved
        ELSE IF r.status = "EN_ROUTE_TO_SCENE"
             THEN [moved EXCEPT !.has_arrived = TRUE, !.time_left = r.time_to_manage,
                                !.status = "ON_SCENE"]
             ELSE [moved EXCEPT !.has_arrived = TRUE, !.status = "IDLE"]

(* update_rescuer_digital_twin_state_and_position_logging *)
UpdatedTwin(t) ==
    LET r == twin[t]
        stay == [r EXCEPT !.time_left = @ - 1]
    IN  CASE r.status = "IDLE" -> r
          [] r.status = "ON_SCENE" /\ stay.time_left > 0 -> stay
          [] r.status = "ON_SCENE" /\ stay.time_left <= 0 -> Walked(t, SentBack(t, stay))
          [] OTHER -> Walked(t, r)

OnTheMap(p) == p.x \in 0 .. Width /\ p.y \in 0 .. Height

(* update_rescuers_states_and_positions_on_the_map_logging; a twin that    *)
(* walks off the map ends the process (log_fatal_error).                   *)
UpdateRescuers ==
    /\ server = "up" /\ updater = "lockWorking"
    /\ working_mutex = None
    /\ working_mutex' = Updater
    /\ twin' = [t \in Twins |-> UpdatedTwin(t)]
    /\ server' = IF \A t \in Twins : twin[t].status = "IDLE" \/ OnTheMap(twin'[t].at)
                 THEN server ELSE "crashed"
    /\ updater' = "updateWorking"
    /\ MoveTo(StartOf(working_queue))
    /\ UNCHANGED <<mainVars, clockVars, poolVars, rescuers_mutex, waiting_mutex,
                   node_mutex, listVars, emergency>>

(* MUTANT of TimeLimit: no limit where the code says INVALID_TIME *)
LimitOrNone(p) == CASE p = MEDIUM_PRIORITY -> MediumLimit
                    [] p = MAX_PRIORITY -> MaxLimit
                    [] OTHER -> PromotionAge + CancelAge

(* get_time_before_emergency_timeout_from_priority *)
TimeLimit(p) == CASE p = MEDIUM_PRIORITY -> MediumLimit
                  [] p = MAX_PRIORITY -> MaxLimit
                  [] OTHER -> INVALID_TIME

(* The ages are only compared with these limits: counting stops there. *)
AgeCap == CHOOSE m \in {PromotionAge, MediumLimit, MaxLimit} :
             m >= PromotionAge /\ m >= MediumLimit /\ m >= MaxLimit

(* MUTANT of Older: the age is counted down *)
Younger(age, cap) == age - 1

Older(age, cap) == IF age < cap THEN age + 1 ELSE cap

(* timeout_emergency_if_needed_logging, whatever the status is now *)
TimesOut(r) ==
    \/ r.spent >= TimeLimit(r.priority)
    \/ r.status = "WAITING_FOR_RESCUERS" /\ r.spent + r.eta > TimeLimit(r.priority)

AfterTimeout(r) == IF TimesOut(r) THEN [r EXCEPT !.status = "TIMEOUT"] ELSE r

AllAtTheScene(e, team) ==
    \A i \in DOMAIN team : twin[team[i]].has_arrived /\ twin[team[i]].at = Scene[e]

NoneOnScene(team) == \A i \in DOMAIN team : twin[team[i]].status # "ON_SCENE"

(* update_working_emergency_node_status_signaling_logging *)
AgedWorking(r) ==
    AfterTimeout([r EXCEPT !.assigned = Older(@, CancelAge + 1),
                           !.spent = Older(@, AgeCap)])

UpdatedWorking(e) ==
    LET r == AgedWorking(emergency[e])
    IN  CASE r.status \in {"ASKING_FOR_RESCUERS", "TIMEOUT"} /\ r.assigned > CancelAge ->
                [r EXCEPT !.status = "CANCELED"]
          [] r.status = "WAITING_FOR_RESCUERS" /\ AllAtTheScene(e, r.rescuer_twins) ->
                [r EXCEPT !.rescuers_have_arrived = TRUE]
          [] r.status = "IN_PROGRESS" /\ NoneOnScene(r.rescuer_twins) ->
                [r EXCEPT !.status = "COMPLETED"]
          [] OTHER -> r

(* MUTANT of Signals: cnd_signal forgotten *)
NeverSignals(e) == FALSE

(* The three branches that change something end with a signal. *)
Signals(e) == UpdatedWorking(e) # AgedWorking(emergency[e])

(* promote_to_medium_priority_if_needed_logging *)
IsPromoted(r) == r.priority = MIN_PRIORITY /\ r.spent >= PromotionAge

PromotedIn(q, e, r) == IF IsPromoted(r) THEN ChangePriority(q, e, MEDIUM_PRIORITY) ELSE q

(* MUTANT of WithPromotion: the node changes list, its priority does not *)
WithoutPromotion(r) == r

WithPromotion(r) == IF IsPromoted(r) THEN [r EXCEPT !.priority = MEDIUM_PRIORITY] ELSE r

(* The updater reads n->next under n's mutex before anything moves n. *)
UpdateWorkingNode ==
    LET e == Head(todo)
    IN  /\ server = "up" /\ updater = "updateWorking" /\ todo # <<>>
        /\ node_mutex[e] = None
        /\ emergency' = [emergency EXCEPT ![e] = WithPromotion(UpdatedWorking(e))]
        /\ working_queue' = PromotedIn(working_queue, e, UpdatedWorking(e))
        /\ pc' = IF Signals(e) THEN SignalNode(e) ELSE pc
        /\ MoveTo(NextIn(working_queue'))
        /\ OnlyUpdater /\ UNCHANGED <<updater, node, searchVars, locks,
                                      waiting_queue, archives, twin>>

(* update_waiting_emergency_node_status_logging *)
UpdatedWaiting(e) == AfterTimeout([emergency[e] EXCEPT !.spent = Older(@, AgeCap)])

UpdateWaitingNode ==
    LET e == Head(todo)
    IN  /\ server = "up" /\ updater = "updateWaiting" /\ todo # <<>>
        /\ node_mutex[e] = None
        /\ emergency' = [emergency EXCEPT ![e] = WithPromotion(UpdatedWaiting(e))]
        /\ waiting_queue' = PromotedIn(waiting_queue, e, UpdatedWaiting(e))
        /\ MoveTo(NextIn(waiting_queue'))
        /\ OnlyUpdater /\ UNCHANGED <<updater, poolVars, locks, working_queue,
                                      archives, twin>>

ScanWaiting ==
    /\ server = "up" /\ updater = "updateWorking"
    /\ todo = <<>>
    /\ updater' = "updateWaiting"
    /\ MoveTo(StartOf(waiting_queue))
    /\ OnlyUpdater /\ UNCHANGED <<poolVars, locks, listVars, dataVars>>

(* MUTANT of EndUpdate: one of the three unlocks is forgotten *)
EndUpdateKeepingWaiting ==
    /\ server = "up" /\ updater = "updateWaiting"
    /\ todo = <<>>
    /\ rescuers_mutex' = None /\ working_mutex' = None
    /\ updater' = "check"
    /\ OnlyUpdater /\ UNCHANGED <<scanVars, poolVars, waiting_mutex, node_mutex,
                                  listVars, dataVars>>

EndUpdate ==
    /\ server = "up" /\ updater = "updateWaiting"
    /\ todo = <<>>
    /\ rescuers_mutex' = None /\ waiting_mutex' = None /\ working_mutex' = None
    /\ updater' = "check"
    /\ OnlyUpdater /\ UNCHANGED <<scanVars, poolVars, node_mutex, listVars,
                                  dataVars>>

--------------------------------------------------------------------------------
(* Updater: cancel_all_working_emergencies_signaling, once the server stops *)

BeginCancelAll ==
    /\ server = "up" /\ updater = "cancelAll"
    /\ working_mutex = None
    /\ working_mutex' = Updater
    /\ updater' = "cancelling"
    /\ MoveTo(StartOf(working_queue))
    /\ OnlyUpdater /\ UNCHANGED <<poolVars, rescuers_mutex, waiting_mutex,
                                  node_mutex, listVars, dataVars>>

CancelNode ==
    LET e == Head(todo)
    IN  /\ server = "up" /\ updater = "cancelling" /\ todo # <<>>
        /\ node_mutex[e] = None
        /\ emergency' = WithStatus(e, "CANCELED")
        /\ pc' = SignalNode(e)
        /\ MoveTo(NextIn(working_queue))
        /\ OnlyUpdater /\ UNCHANGED <<updater, node, searchVars, locks, listVars,
                                      twin>>

EndCancelAll ==
    /\ server = "up" /\ updater = "cancelling"
    /\ todo = <<>>
    /\ working_mutex' = None
    /\ updater' = "done"
    /\ OnlyUpdater /\ UNCHANGED <<scanVars, poolVars, rescuers_mutex, waiting_mutex,
                                  node_mutex, listVars, dataVars>>

--------------------------------------------------------------------------------

SearchStep(w) ==
    \/ SearchRescuers(w)
    \/ \E e \in Emergencies : ProbeNode(w, e)
    \/ SearchFails(w) \/ RetrySearch(w)
    \/ SendFree(w) \/ DecideToSteal(w) \/ PauseAndSend(w) \/ SearchEnds(w)

WorkerStep(w) ==
    \/ CheckStop(w) \/ WaitForWork(w) \/ TakeNode(w) \/ EnqueueWorking(w)
    \/ BeginSearch(w) \/ SearchStep(w)
    \/ BeginProcessing(w) \/ GiveUpArrival(w) \/ EndProcessing(w) \/ WaitAgain(w)
    \/ Complete(w) \/ Cancel(w)
    \/ PauseLockWaiting(w) \/ Pause(w) \/ RecheckCanceled(w)

UpdaterStep ==
    \/ CheckUpdater \/ TakeTick
    \/ UpdaterLockRescuers \/ UpdaterLockWaiting \/ UpdateRescuers
    \/ UpdateWorkingNode \/ UpdateWaitingNode
    \/ ScanWaiting \/ EndUpdate
    \/ BeginCancelAll \/ CancelNode \/ EndCancelAll

ClockStep == Tick \/ StopClock

Next ==
    \/ \E e \in Emergencies : ReceiveRequest(e)
    \/ ReceiveStop \/ CloseServer
    \/ ClockStep
    \/ UpdaterStep
    \/ \E w \in Workers : WorkerStep(w) \/ SpuriousWakeup(w)

Spec == Init /\ [][Next]_vars

(* Fairness speaks of places in the code: every step of a worker changes   *)
(* one of pc, probes and sent, every step of the updater one of updater,   *)
(* level and todo.  A search and the start of a tick are named by the      *)
(* place they lead to, which no other step from there does.                *)
WorkerGoesOn(w) ==
    \/ pc[w] # "lockRescuers" /\ WorkerStep(w)
    \/ /\ server = "up" /\ pc[w] = "lockRescuers" /\ rescuers_mutex = None
       /\ pc' = [pc EXCEPT ![w] = "search"] /\ sent' = [sent EXCEPT ![w] = 0]
       /\ probes' \in [Workers -> SUBSET Emergencies]

UpdaterGoesOn ==
    \/ updater # "lockWorking" /\ UpdaterStep
    \/ /\ server = "up" /\ updater = "lockWorking" /\ working_mutex = None
       /\ updater' = "updateWorking" /\ MoveTo(StartOf(working_queue))

(* Every thread that can take a step takes one some day, and a thread that *)
(* asks for a mutex gets it if it is given back again and again: whoever   *)
(* takes rescuers_mutex in a loop sleeps for seconds between two turns (a  *)
(* tick of the clock, the pause between two searches).  Clients need not   *)
(* send anything, and a condition need not wake anyone without a signal.   *)
Fairness ==
    /\ \A w \in Workers : SF_<<pc, probes, sent>>(WorkerGoesOn(w))
    /\ SF_<<updater, scanVars>>(UpdaterGoesOn)
    /\ WF_vars(ClockStep)
    /\ WF_vars(CloseServer)

FairSpec == Spec /\ Fairness

=============================================================================
