---------------------------- MODULE LifecycleProofs ----------------------------
(***************************************************************************)
(* EmergencyServer implements EmergencyLifecycle for every pool, every set *)
(* of emergencies and rescuers and every limit: each step of a thread is   *)
(* one step in the life of one emergency, or none.  The second part is     *)
(* what the status of an emergency tells those who wait for it: no worker  *)
(* sleeps on what has already happened, only an emergency whose rescuers   *)
(* arrived is worked on, and the archives hold what they say.              *)
(***************************************************************************)
EXTENDS PlaceProofs

Attended == {"IN_PROGRESS", "COMPLETED"}

(* The fields that say whether an emergency may be attended *)
Detailed(r) ==
    /\ Known(r) /\ {"rescuers_have_arrived", "spent"} \subseteq DOMAIN r
    /\ r.spent \in Nat

(* The lowest priority has no time limit (utils.c:100): it times out at    *)
(* every update, so that its rescuers never arrive.                        *)
LowIsIdle(r) ==
    r.priority = MIN_PRIORITY =>
        r.status \notin Attended /\ r.rescuers_have_arrived = FALSE

Sound(r) == Detailed(r) /\ LowIsIdle(r)

RecordsSound ==
    DOMAIN emergency = Emergencies /\ \A e \in Emergencies : Sound(emergency[e])

(* Only what is in the working queue is attended. *)
AttendedIsWorking ==
    \A e \in Emergencies :
        emergency[e].status \in Attended => e \in Working \cup Done \cup Shelved

(* A worker leaves the working queue as the status told it to. *)
LeavesAsTold ==
    \A w \in Workers :
        /\ pc[w] = "complete" => emergency[node[w]].status = "COMPLETED"
        /\ pc[w] = "cancel" => emergency[node[w]].status = "CANCELED"

LifeInvariant == RecordsSound /\ AttendedIsWorking /\ LeavesAsTold

--------------------------------------------------------------------------------
(* Records *)

(* s comes from r by a step that may only lower what it knows *)
Follows(r, s) == Sound(s) /\ s.priority = r.priority

LEMMA WorkerRecordsSound ==
    ASSUME NEW r, Sound(r)
    PROVE  /\ Follows(r, Assigned(r)) /\ Assigned(r).status \notin Attended
           /\ Follows(r, Paused(r)) /\ Paused(r).status \notin Attended
           /\ \A i, t : Follows(r, WithTwin(r, i, t)) /\ WithTwin(r, i, t).status = r.status
           /\ \A s : s \notin Attended => Follows(r, [r EXCEPT !.status = s])
           /\ r.rescuers_have_arrived => Follows(r, [r EXCEPT !.status = "IN_PROGRESS"])
<1> USE DEF Follows, Sound, Detailed, Known, LowIsIdle, Attended
<1>1. Follows(r, Assigned(r)) /\ Assigned(r).status \notin Attended
  BY DEF Assigned
<1>2. Follows(r, Paused(r)) /\ Paused(r).status \notin Attended
  BY DEF Paused
<1>3. \A i, t : Follows(r, WithTwin(r, i, t)) /\ WithTwin(r, i, t).status = r.status
  BY DEF WithTwin
<1>4. \A s : s \notin Attended => Follows(r, [r EXCEPT !.status = s])
  OBVIOUS
<1>5. r.rescuers_have_arrived => Follows(r, [r EXCEPT !.status = "IN_PROGRESS"])
  OBVIOUS
<1> QED  BY <1>1, <1>2, <1>3, <1>4, <1>5

(* An age is a number, capped. *)
LEMMA AgesAreNumbers ==
    /\ AgeCap \in Nat
    /\ \A age \in Nat : \A cap \in Nat : Older(age, cap) \in Nat
<1> DEFINE limits == {PromotionAge, MediumLimit, MaxLimit}
           Most(m) == m >= PromotionAge /\ m >= MediumLimit /\ m >= MaxLimit
<1>1. limits \subseteq Nat
  BY LimitsAssumption
<1>2. \E m \in limits : Most(m)
  BY LimitsAssumption
<1>3. AgeCap = CHOOSE m \in limits : Most(m)
  BY DEF AgeCap
<1> HIDE DEF limits, Most
<1>4. AgeCap \in limits
  BY <1>2, <1>3
<1> QED  BY <1>1, <1>4 DEF Older

(* A timeout leaves the lowest priority idle. *)
LEMMA TimeoutSound ==
    ASSUME NEW r, Sound(r)
    PROVE  /\ Follows(r, AfterTimeout(r))
           /\ AfterTimeout(r).status \in Attended => r.status \in Attended
           /\ r.priority = MIN_PRIORITY => AfterTimeout(r).status = "TIMEOUT"
<1>1. r.priority = MIN_PRIORITY => TimesOut(r)
  <2>1. r.spent >= INVALID_TIME
    BY DEF Sound, Detailed, INVALID_TIME
  <2>2. TimeLimit(MIN_PRIORITY) = INVALID_TIME
    BY DEF TimeLimit, MIN_PRIORITY, MEDIUM_PRIORITY, MAX_PRIORITY
  <2> QED  BY <2>1, <2>2 DEF TimesOut
<1> QED  BY <1>1 DEF AfterTimeout, Follows, Sound, Detailed, Known, LowIsIdle, Attended

LEMMA WaitingSound ==
    ASSUME NEW e \in Emergencies, Sound(emergency[e])
    PROVE  /\ Follows(emergency[e], UpdatedWaiting(e))
           /\ UpdatedWaiting(e).status \in Attended => emergency[e].status \in Attended
           /\ emergency[e].priority = MIN_PRIORITY => UpdatedWaiting(e).status \notin Attended
<1> DEFINE b == [emergency[e] EXCEPT !.spent = Older(@, AgeCap)]
<1>1. Follows(emergency[e], b) /\ b.status = emergency[e].status
  <2>1. Older(emergency[e].spent, AgeCap) \in Nat
    BY AgesAreNumbers DEF Sound, Detailed
  <2> QED  BY <2>1 DEF Follows, Sound, Detailed, Known, LowIsIdle
<1>2. UpdatedWaiting(e) = AfterTimeout(b)
  BY DEF UpdatedWaiting
<1> HIDE DEF b
<1>3. /\ Follows(b, AfterTimeout(b))
      /\ AfterTimeout(b).status \in Attended => b.status \in Attended
      /\ b.priority = MIN_PRIORITY => AfterTimeout(b).status = "TIMEOUT"
  BY <1>1, TimeoutSound DEF Follows
<1> QED  BY <1>1, <1>2, <1>3 DEF Follows, Attended

LEMMA WorkingSound ==
    ASSUME NEW e \in Emergencies, Sound(emergency[e])
    PROVE  /\ Follows(emergency[e], UpdatedWorking(e))
           /\ emergency[e].priority = MIN_PRIORITY => UpdatedWorking(e).status \notin Attended
<1> DEFINE b == [emergency[e] EXCEPT !.assigned = Older(@, CancelAge + 1),
                                     !.spent = Older(@, AgeCap)]
           a == AgedWorking(emergency[e])
<1>1. Follows(emergency[e], b)
  <2>1. Older(emergency[e].spent, AgeCap) \in Nat
    BY AgesAreNumbers DEF Sound, Detailed
  <2> QED  BY <2>1 DEF Follows, Sound, Detailed, Known, LowIsIdle
<1>2. a = AfterTimeout(b)
  BY DEF AgedWorking
<1> HIDE DEF b
<1>3. /\ Follows(emergency[e], a)
      /\ emergency[e].priority = MIN_PRIORITY => a.status = "TIMEOUT"
  BY <1>1, <1>2, TimeoutSound DEF Follows
<1>4. \/ UpdatedWorking(e) = [a EXCEPT !.status = "CANCELED"]
      \/ a.status = "WAITING_FOR_RESCUERS"
         /\ UpdatedWorking(e) = [a EXCEPT !.rescuers_have_arrived = TRUE]
      \/ a.status = "IN_PROGRESS" /\ UpdatedWorking(e) = [a EXCEPT !.status = "COMPLETED"]
      \/ UpdatedWorking(e) = a
  BY DEF UpdatedWorking
<1> HIDE DEF a
<1> QED  BY <1>3, <1>4 DEF Follows, Sound, Detailed, Known, LowIsIdle, Attended

(* What is idle may be promoted. *)
LEMMA PromotionSound ==
    ASSUME NEW r, Sound(r), r.priority = MIN_PRIORITY => r.status \notin Attended
    PROVE  /\ Sound(WithPromotion(r)) /\ WithPromotion(r).status = r.status
           /\ \/ WithPromotion(r).priority = r.priority
              \/ r.priority = MIN_PRIORITY /\ WithPromotion(r).priority = MEDIUM_PRIORITY
BY DEF WithPromotion, IsPromoted, Sound, Detailed, Known, LowIsIdle, Attended, Priorities,
       MIN_PRIORITY, MEDIUM_PRIORITY, MAX_PRIORITY

--------------------------------------------------------------------------------
(* A step changes the status or the priority of one emergency at most,     *)
(* while its mutex is free or owned by whoever searches rescuers for it.   *)

Kept(e) == /\ emergency'[e].status = emergency[e].status
           /\ emergency'[e].priority = emergency[e].priority

Rises(x) == /\ x \in Waiting \cup Working
            /\ emergency[x].priority = MIN_PRIORITY
            /\ emergency'[x].priority = MEDIUM_PRIORITY
            /\ emergency[x].status \notin Attended /\ emergency'[x].status \notin Attended

Change(x) ==
    /\ \A e \in Emergencies : e # x => Kept(e)
    /\ x \in Emergencies =>
          /\ node_mutex[x] = None \/ \E u \in Workers : pc[u] = "search" /\ node_mutex[x] = u
          /\ emergency'[x].priority = emergency[x].priority \/ Rises(x)
          /\ emergency'[x].status \in Attended => emergency[x].status \in Attended \/ x \in Working

OneChange == RecordsSound' /\ \E x : Change(x)

LEMMA NoChange ==
    ASSUME RecordsSound,
           DOMAIN emergency' = Emergencies,
           \A e \in Emergencies : Sound(emergency'[e]) /\ Kept(e)
    PROVE  OneChange
<1>1. Change(None)
  BY ThreadsAssumption DEF Change
<1> QED  BY <1>1 DEF OneChange, RecordsSound

(* The one that changes is x, and keeps its priority. *)
LEMMA ChangeAt ==
    ASSUME RecordsSound, NEW x, NEW r,
           emergency' = [emergency EXCEPT ![x] = r],
           x \in Emergencies =>
               /\ Follows(emergency[x], r)
               /\ node_mutex[x] = None
                  \/ \E u \in Workers : pc[u] = "search" /\ node_mutex[x] = u
               /\ r.status \in Attended => emergency[x].status \in Attended \/ x \in Working
    PROVE  OneChange
<1>1. /\ DOMAIN emergency' = Emergencies
      /\ \A e \in Emergencies : e # x => emergency'[e] = emergency[e]
      /\ x \in Emergencies => emergency'[x] = r
  BY DEF RecordsSound
<1>2. RecordsSound'
  BY <1>1 DEF RecordsSound, Follows
<1>3. Change(x)
  BY <1>1 DEF Change, Kept, Follows
<1> QED  BY <1>2, <1>3 DEF OneChange

LEMMA WorkersChangeOne ==
    ASSUME PlaceInvariant, LifeInvariant, NEW w \in Workers,
           WorkerStep(w) \/ SpuriousWakeup(w)
    PROVE  OneChange
<1>1. RecordsSound /\ DOMAIN emergency = Emergencies
      /\ \A e \in Emergencies : Sound(emergency[e])
  BY DEF LifeInvariant, RecordsSound
<1>2. pc[w] \in Handling => node[w] \in Emergencies /\ node[w] \in Working
  BY LevelsAreEmergencies DEF PlaceInvariant, DataTypeOK, HandledIsWorking, Working
<1>3. emergency' = emergency => OneChange
  BY <1>1, NoChange DEF Kept
<1>4. CASE BeginSearch(w)
  <2> DEFINE r == Assigned(emergency[node[w]])
  <2>1. /\ pc[w] \in Handling /\ node_mutex[node[w]] = None
        /\ emergency' = [emergency EXCEPT ![node[w]] = r]
    BY <1>4 DEF BeginSearch, Handling
  <2>2. Follows(emergency[node[w]], r) /\ r.status \notin Attended
    BY <1>1, <1>2, <2>1, WorkerRecordsSound
  <2> HIDE DEF r
  <2> QED  BY <1>1, <2>1, <2>2, ChangeAt
<1>5. CASE BeginProcessing(w)
  <2> DEFINE r == [emergency[node[w]] EXCEPT !.status = "IN_PROGRESS"]
  <2>1. /\ pc[w] \in Handling /\ node_mutex[node[w]] = None
        /\ emergency[node[w]].rescuers_have_arrived
        /\ emergency' = [emergency EXCEPT ![node[w]] = r]
    BY <1>5 DEF BeginProcessing, WithStatus, Handling
  <2>2. Follows(emergency[node[w]], r)
    BY <1>1, <1>2, <2>1, WorkerRecordsSound
  <2> HIDE DEF r
  <2> QED  BY <1>1, <1>2, <2>1, <2>2, ChangeAt
<1>6. CASE SearchFails(w)
  <2> DEFINE r == [emergency[node[w]] EXCEPT !.rescuers_found = FALSE]
  <2>1. pc[w] = "search" /\ emergency' = [emergency EXCEPT ![node[w]] = r]
    BY <1>6 DEF SearchFails
  <2>2. node[w] \in Emergencies
    BY <1>2, <2>1 DEF Handling
  <2>3. Follows(emergency[node[w]], r) /\ r.status = emergency[node[w]].status
    BY <1>1, <2>2 DEF Follows, Sound, Detailed, Known, LowIsIdle
  <2>4. node_mutex[node[w]] = w
    BY <2>1, <2>2 DEF PlaceInvariant, NodeMutexDiscipline, HoldsNode
  <2> HIDE DEF r
  <2> QED  BY <1>1, <2>1, <2>3, <2>4, ChangeAt
<1>7. CASE SearchEnds(w)
  <2> DEFINE a == [emergency[node[w]] EXCEPT !.eta = TimeToArrive(node[w], chosen[w])]
             b == [a EXCEPT !.rescuers_found = TRUE]
             r == [b EXCEPT !.status = "WAITING_FOR_RESCUERS"]
  <2>1. pc[w] = "search"
    BY <1>7 DEF SearchEnds, Sending
  <2>2. node[w] \in Emergencies
    BY <1>2, <2>1 DEF Handling
  <2>3. emergency' = [emergency EXCEPT ![node[w]] = r]
    BY <1>1, <1>7, <2>2 DEF SearchEnds
  <2>4. Sound(a) /\ a.priority = emergency[node[w]].priority
    BY <1>1, <2>2 DEF Sound, Detailed, Known, LowIsIdle
  <2> HIDE DEF a
  <2>5. Sound(b) /\ b.priority = a.priority
    BY <2>4 DEF Sound, Detailed, Known, LowIsIdle
  <2> HIDE DEF b
  <2>6. Follows(b, r) /\ r.status \notin Attended
    BY <2>5 DEF Follows, Sound, Detailed, Known, LowIsIdle, Attended
  <2>7. Follows(emergency[node[w]], r)
    BY <2>4, <2>5, <2>6 DEF Follows
  <2>8. node_mutex[node[w]] = w
    BY <2>1, <2>2 DEF PlaceInvariant, NodeMutexDiscipline, HoldsNode
  <2> HIDE DEF r
  <2> QED  BY <1>1, <2>1, <2>3, <2>6, <2>7, <2>8, ChangeAt
<1>8. CASE SendFree(w)
  <2> DEFINE after(s) == WithTwin(s, sent[w] + 1, NextToSend(w))
  <2>1. emergency' = [emergency EXCEPT ![node[w]] = after(@)]
    BY <1>8 DEF SendFree
  <2>2. \A s : Sound(s) => Follows(s, after(s)) /\ after(s).status = s.status
    BY WorkerRecordsSound
  <2> HIDE DEF after
  <2>3. /\ DOMAIN emergency' = Emergencies
        /\ \A e \in Emergencies : emergency'[e] \in {emergency[e], after(emergency[e])}
    BY <1>1, <2>1
  <2> QED  BY <1>1, <2>2, <2>3, NoChange DEF Kept, Follows
<1>9. CASE PauseAndSend(w)
  <2> DEFINE t == NextToSend(w)
             victim == twin[t].node
             before == [emergency EXCEPT ![victim] = Paused(@)]
             after(s) == WithTwin(s, sent[w] + 1, t)
  <2>1. /\ DOMAIN emergency' = DOMAIN emergency
        /\ \A e \in DOMAIN emergency :
              emergency'[e] \in {before[e], after(before[e]), after(emergency[e])}
        /\ node_mutex[victim] = None
    <3>1. /\ emergency' = [emergency EXCEPT ![victim] = Paused(@), ![node[w]] = after(@)]
          /\ node_mutex[victim] = None
      BY <1>9 DEF PauseAndSend
    <3> HIDE DEF after
    <3> QED  BY <3>1
  <2>2. /\ \A e \in Emergencies : Follows(emergency[e], before[e])
        /\ \A e \in Emergencies : e # victim => before[e] = emergency[e]
        /\ victim \in Emergencies => before[victim].status \notin Attended
    <3>1. \A e \in Emergencies :
             /\ Follows(emergency[e], emergency[e])
             /\ Follows(emergency[e], Paused(emergency[e]))
             /\ Paused(emergency[e]).status \notin Attended
      BY <1>1, WorkerRecordsSound DEF Follows
    <3> QED  BY <1>1, <3>1
  <2>3. \A s : Sound(s) => Follows(s, after(s)) /\ after(s).status = s.status
    BY WorkerRecordsSound
  <2> HIDE DEF before, after
  <2>4. ASSUME NEW e \in Emergencies
        PROVE  /\ Sound(emergency'[e]) /\ emergency'[e].priority = emergency[e].priority
               /\ emergency'[e].status \in {before[e].status, emergency[e].status}
    <3>1. /\ Sound(before[e]) /\ before[e].priority = emergency[e].priority
      BY <2>2 DEF Follows
    <3>2. /\ Follows(before[e], after(before[e])) /\ after(before[e]).status = before[e].status
          /\ Follows(emergency[e], after(emergency[e]))
          /\ after(emergency[e]).status = emergency[e].status
      BY <1>1, <2>3, <3>1
    <3>3. emergency'[e] \in {before[e], after(before[e]), after(emergency[e])}
      BY <1>1, <2>1
    <3> QED  BY <3>1, <3>2, <3>3 DEF Follows
  <2>5. Change(victim)
    BY <2>1, <2>2, <2>4 DEF Change, Kept
  <2> QED  BY <1>1, <2>1, <2>4, <2>5 DEF OneChange, RecordsSound
<1>10. CASE \/ CheckStop(w) \/ WaitForWork(w) \/ TakeNode(w) \/ EnqueueWorking(w)
            \/ SearchRescuers(w) \/ (\E e \in Emergencies : ProbeNode(w, e))
            \/ RetrySearch(w) \/ DecideToSteal(w)
  BY <1>3, <1>10 DEF CheckStop, WaitForWork, TakeNode, EnqueueWorking, SearchRescuers,
                     ProbeNode, RetrySearch, DecideToSteal, dataVars
<1>11. CASE \/ GiveUpArrival(w) \/ EndProcessing(w) \/ WaitAgain(w) \/ Complete(w)
            \/ Cancel(w) \/ PauseLockWaiting(w) \/ Pause(w) \/ RecheckCanceled(w)
            \/ SpuriousWakeup(w)
  BY <1>3, <1>11 DEF GiveUpArrival, EndProcessing, ResumeWith, WaitAgain, Complete,
                     Cancel, PauseLockWaiting, Pause, RecheckCanceled, SpuriousWakeup,
                     dataVars
<1> QED  BY <1>4, <1>5, <1>6, <1>7, <1>8, <1>9, <1>10, <1>11 DEF WorkerStep, SearchStep

(* An update, and the promotion that follows it *)
LEMMA UpdateChangesOne ==
    ASSUME RecordsSound, NEW x \in Emergencies, NEW r,
           emergency' = [emergency EXCEPT ![x] = WithPromotion(r)],
           Follows(emergency[x], r), node_mutex[x] = None, x \in Waiting \cup Working,
           emergency[x].priority = MIN_PRIORITY => r.status \notin Attended,
           r.status \in Attended => emergency[x].status \in Attended \/ x \in Working
    PROVE  OneChange
<1> DEFINE s == WithPromotion(r)
<1>1. /\ DOMAIN emergency' = Emergencies /\ emergency'[x] = s
      /\ \A e \in Emergencies : e # x => emergency'[e] = emergency[e]
  BY DEF RecordsSound
<1>2. /\ Sound(s) /\ s.status = r.status
      /\ \/ s.priority = r.priority
         \/ r.priority = MIN_PRIORITY /\ s.priority = MEDIUM_PRIORITY
  BY PromotionSound DEF Follows
<1> HIDE DEF s
<1>3. RecordsSound'
  BY <1>1, <1>2 DEF RecordsSound
<1>4. s.priority # r.priority => Rises(x)
  BY <1>1, <1>2 DEF Follows, RecordsSound, Sound, LowIsIdle, Rises
<1>5. Change(x)
  BY <1>1, <1>2, <1>4 DEF Change, Kept, Follows
<1> QED  BY <1>3, <1>5 DEF OneChange

LEMMA OthersChangeOne ==
    ASSUME PlaceInvariant, LifeInvariant, OtherStep \/ \E e \in Emergencies : ReceiveRequest(e)
    PROVE  OneChange
<1>1. RecordsSound /\ DOMAIN emergency = Emergencies
      /\ \A e \in Emergencies : Sound(emergency[e])
  BY DEF LifeInvariant, RecordsSound
<1>2. emergency' = emergency => OneChange
  BY <1>1, NoChange DEF Kept
<1> DEFINE x == Head(todo)
<1>3. CASE UpdateWorkingNode
  <2>1. /\ updater \in Scanning /\ todo # <<>> /\ node_mutex[x] = None
        /\ emergency' = [emergency EXCEPT ![x] = WithPromotion(UpdatedWorking(x))]
        /\ updater = "updateWorking"
    BY <1>3 DEF UpdateWorkingNode, Scanning
  <2>2. x \in Emergencies /\ x \in Working
    BY <2>1, HeadIsScanned DEF ScannedQueue, Working
  <2>3. /\ Follows(emergency[x], UpdatedWorking(x))
        /\ emergency[x].priority = MIN_PRIORITY => UpdatedWorking(x).status \notin Attended
    BY <1>1, <2>2, WorkingSound
  <2> QED  BY <1>1, <2>1, <2>2, <2>3, UpdateChangesOne
<1>4. CASE UpdateWaitingNode
  <2>1. /\ updater \in Scanning /\ todo # <<>> /\ node_mutex[x] = None
        /\ emergency' = [emergency EXCEPT ![x] = WithPromotion(UpdatedWaiting(x))]
        /\ updater = "updateWaiting"
    BY <1>4 DEF UpdateWaitingNode, Scanning
  <2>2. x \in Emergencies /\ x \in Waiting
    BY <2>1, HeadIsScanned DEF ScannedQueue, Waiting
  <2>3. /\ Follows(emergency[x], UpdatedWaiting(x))
        /\ UpdatedWaiting(x).status \in Attended => emergency[x].status \in Attended
        /\ emergency[x].priority = MIN_PRIORITY => UpdatedWaiting(x).status \notin Attended
    BY <1>1, <2>2, WaitingSound
  <2> QED  BY <1>1, <2>1, <2>2, <2>3, UpdateChangesOne
<1>5. CASE CancelNode
  <2> DEFINE r == [emergency[x] EXCEPT !.status = "CANCELED"]
  <2>1. /\ updater \in Scanning /\ todo # <<>> /\ node_mutex[x] = None
        /\ emergency' = [emergency EXCEPT ![x] = r]
    BY <1>5 DEF CancelNode, WithStatus, Scanning
  <2>2. x \in Emergencies
    BY <2>1, HeadIsScanned
  <2>3. Follows(emergency[x], r) /\ r.status \notin Attended
    BY <1>1, <2>2, WorkerRecordsSound DEF Follows, Sound, Detailed, Known, Attended
  <2> HIDE DEF r
  <2> QED  BY <1>1, <2>1, <2>2, <2>3, ChangeAt
<1>6. CASE \E e \in Emergencies : ReceiveRequest(e)
  BY <1>2, <1>6 DEF ReceiveRequest, dataVars
<1>7. CASE CheckUpdater \/ TakeTick \/ UpdaterLockRescuers \/ UpdaterLockWaiting
           \/ UpdateRescuers
  BY <1>2, <1>7 DEF CheckUpdater, TakeTick, UpdaterLockRescuers, UpdaterLockWaiting,
                    UpdateRescuers, dataVars
<1>8. CASE ScanWaiting \/ EndUpdate \/ BeginCancelAll \/ EndCancelAll
  BY <1>2, <1>8 DEF ScanWaiting, EndUpdate, BeginCancelAll, EndCancelAll, dataVars
<1>9. CASE ReceiveStop \/ CloseServer \/ ClockStep
  BY <1>2, <1>9 DEF ReceiveStop, CloseServer, ClockStep, Tick, StopClock, dataVars
<1> QED  BY <1>3, <1>4, <1>5, <1>6, <1>7, <1>8, <1>9 DEF OtherStep, UpdaterStep

LEMMA NextChangesOne == PlaceInvariant /\ LifeInvariant /\ [Next]_vars => OneChange
<1> SUFFICES ASSUME PlaceInvariant, LifeInvariant, [Next]_vars PROVE OneChange
  OBVIOUS
<1>1. CASE OtherStep \/ \E e \in Emergencies : ReceiveRequest(e)
  BY <1>1, OthersChangeOne
<1>2. ASSUME NEW w \in Workers, WorkerStep(w) \/ SpuriousWakeup(w) PROVE OneChange
  BY <1>2, WorkersChangeOne
<1>3. CASE UNCHANGED vars
  <2>1. emergency' = emergency
    BY <1>3 DEF vars, dataVars
  <2> QED  BY <2>1, NoChange DEF LifeInvariant, RecordsSound, Kept
<1> QED  BY <1>1, <1>2, <1>3 DEF Next, OtherStep

--------------------------------------------------------------------------------
(* The invariant. *)

Started == Working \cup Done \cup Shelved

(* What a worker has begun does not go back to the waiting queue. *)
LEMMA StartedGrows == PlaceInvariant /\ [Next]_vars => Started \subseteq Started'
<1> SUFFICES ASSUME PlaceInvariant, [Next]_vars PROVE Started \subseteq Started'
  OBVIOUS
<1>1. CASE OtherStep
  BY <1>1, OthersAreCalm DEF CalmLists, Started
<1>2. CASE \E e \in Emergencies : ReceiveRequest(e)
  BY <1>2 DEF ReceiveRequest, archives, Started, Working, Done, Shelved
<1>3. ASSUME NEW w \in Workers, WorkerStep(w) \/ SpuriousWakeup(w)
      PROVE  Started \subseteq Started'
  <2>1. pc \in [Workers -> WorkerSteps]
    BY DEF PlaceInvariant, LockInvariant, ControlTypeOK
  <2>2. CASE Complete(w) \/ Cancel(w) \/ Pause(w)
    BY <2>2, LeaveLists DEF Started
  <2>3. CASE TakeNode(w)
    BY <2>3 DEF TakeNode, archives, Started, Working, Done, Shelved
  <2>4. CASE EnqueueWorking(w)
    <3>1. UNCHANGED <<completed_emergencies, canceled_emergencies>>
      BY <2>4 DEF EnqueueWorking, archives
    <3>2. Working \subseteq Working'
      <4>1. CASE node[w] = None
        BY <2>4, <4>1 DEF EnqueueWorking, Working
      <4>2. CASE node[w] # None
        <5>1. node[w] \in Emergencies
          BY <4>2 DEF PlaceInvariant, DataTypeOK
        <5>2. node[w] \notin Working
          BY <2>4, <5>1 DEF EnqueueWorking, PlaceInvariant, PlacesApart, Transit
        <5>3. /\ QueueOK(working_queue) /\ emergency[node[w]].priority \in Priorities
              /\ working_queue' = Enqueue(working_queue, node[w], emergency[node[w]].priority)
          BY <2>4, <4>2, <5>1 DEF EnqueueWorking, PlaceInvariant, DataTypeOK, Known
        <5> QED  BY <5>1, <5>2, <5>3, QueueNodes DEF Working
      <4> QED  BY <4>1, <4>2
    <3> QED  BY <3>1, <3>2 DEF Started, Done, Shelved
  <2>5. CASE CalmStep(w) \/ RecheckCanceled(w)
    <3>1. UNCHANGED listVars
      BY <2>1, <2>5, WorkersAreCalm, RecheckIsCalm
    <3> QED  BY <3>1 DEF listVars, archives, Started, Working, Done, Shelved
  <2> QED  BY <1>3, <2>2, <2>3, <2>4, <2>5 DEF WorkerStep, CalmStep
<1>4. CASE UNCHANGED vars
  BY <1>4 DEF vars, listVars, archives, Started, Working, Done, Shelved
<1> QED  BY <1>1, <1>2, <1>3, <1>4 DEF Next, OtherStep

LEMMA NextAttended ==
    PlaceInvariant /\ LifeInvariant /\ [Next]_vars => AttendedIsWorking'
<1> SUFFICES ASSUME PlaceInvariant, LifeInvariant, [Next]_vars PROVE AttendedIsWorking'
  OBVIOUS
<1>1. PICK x : Change(x)
  BY NextChangesOne DEF OneChange
<1>2. Started \subseteq Started'
  BY StartedGrows
<1>3. ASSUME NEW e \in Emergencies, emergency'[e].status \in Attended PROVE e \in Started
  BY <1>1, <1>3 DEF Change, Kept, LifeInvariant, AttendedIsWorking, Started
<1> QED  BY <1>2, <1>3 DEF AttendedIsWorking, Started

(* Only the steps of w lead w to the ways out. *)
Leaving == {"complete", "cancel"}

Told(w) ==
    /\ pc[w] = "complete" => emergency[node[w]].status = "COMPLETED"
    /\ pc[w] = "cancel" => emergency[node[w]].status = "CANCELED"

(* The status of a node that is about to leave is not changed. *)
LEMMA LeavingIsKept ==
    ASSUME PlaceInvariant, LifeInvariant, OneChange, NEW w \in Workers, pc[w] \in Leaving,
           pc'[w] = pc[w], node'[w] = node[w]
    PROVE  Told(w)'
<1>1. PICK x : Change(x)
  BY DEF OneChange
<1>2. node[w] \in Emergencies /\ node_mutex[node[w]] = w
  BY LevelsAreEmergencies DEF PlaceInvariant, DataTypeOK, HandledIsWorking, Working, Handling,
                              NodeMutexDiscipline, HoldsNode, Leaving
<1>3. x # node[w]
  <2>1. \A u \in Workers : pc[u] = "search" => u # w
    BY DEF Leaving
  <2> QED  BY <1>1, <1>2, <2>1, ThreadsAssumption DEF Change
<1>4. emergency'[node[w]].status = emergency[node[w]].status
  BY <1>1, <1>2, <1>3 DEF Change, Kept
<1> QED  BY <1>4 DEF LifeInvariant, LeavesAsTold, Told, Leaving

(* A signal sends nobody out. *)
LEMMA SignalsSendNobodyOut ==
    ASSUME pc \in [Workers -> WorkerSteps], NEW w \in Workers
    PROVE  /\ \A e : SignalNode(e)[w] \in Leaving => pc[w] = SignalNode(e)[w]
           /\ SignalNotEmpty /\ pc'[w] \in Leaving => pc'[w] = pc[w]
<1>1. \A e : SignalNode(e)[w] \in Leaving => pc[w] = SignalNode(e)[w]
  BY DEF SignalNode, WokenFrom, Leaving
<1>2. SignalNotEmpty /\ pc'[w] \in Leaving => pc'[w] = pc[w]
  BY DEF SignalNotEmpty, Asleep, Leaving
<1> QED  BY <1>1, <1>2

LEMMA WorkersTell ==
    ASSUME PlaceInvariant, LifeInvariant, OneChange, NEW w \in Workers,
           WorkerStep(w) \/ SpuriousWakeup(w), NEW u \in Workers
    PROVE  Told(u)'
<1>1. pc \in [Workers -> WorkerSteps] /\ node \in [Workers -> Emergencies \cup {None}]
  BY DEF PlaceInvariant, LockInvariant, ControlTypeOK, DataTypeOK
<1>2. CASE pc'[u] \in Leaving => pc'[u] = pc[u] /\ node'[u] = node[u]
  <2>1. pc'[u] \notin Leaving => Told(u)'
    BY DEF Told, Leaving
  <2> QED  BY <1>2, <2>1, LeavingIsKept
<1>3. u = w => (GiveUpArrival(w) \/ EndProcessing(w) \/ RetrySearch(w) => Told(u)')
  <2>1. ASSUME u = w, GiveUpArrival(w) \/ EndProcessing(w) PROVE Told(u)'
    <3>1. /\ pc' = [pc EXCEPT ![w] = AfterWait(emergency[node[w]].status)]
          /\ UNCHANGED <<node, emergency>>
          /\ emergency[node[w]].status \in {"COMPLETED", "PAUSED", "CANCELED"}
      BY <2>1 DEF GiveUpArrival, EndProcessing, ResumeWith, dataVars
    <3> QED  BY <1>1, <2>1, <3>1 DEF AfterWait, Told
  <2>2. ASSUME u = w, RetrySearch(w) PROVE Told(u)'
    BY <1>1, <2>2 DEF RetrySearch, dataVars, Told
  <2> QED  BY <2>1, <2>2
<1> DEFINE Stays == pc'[u] \in Leaving => pc'[u] = pc[u] /\ node'[u] = node[u]
<1>4. CASE GiveUpArrival(w) \/ EndProcessing(w) \/ RetrySearch(w)
  <2>1. u # w => Stays
    BY <1>1, <1>4 DEF GiveUpArrival, EndProcessing, ResumeWith, RetrySearch
  <2> QED  BY <1>2, <1>3, <1>4, <2>1
<1>5. CASE PauseAndSend(w)
  <2>1. /\ node' = node
        /\ \E p \in {pc} \cup {SignalNode(v) : v \in {twin[NextToSend(w)].node}} :
              pc' = [p EXCEPT ![w] = "search"]
    BY <1>5 DEF PauseAndSend
  <2>2. \A e : SignalNode(e)[u] \in Leaving => pc[u] = SignalNode(e)[u]
    BY <1>1, SignalsSendNobodyOut
  <2>3. \A e : DOMAIN SignalNode(e) = Workers
    BY DEF SignalNode
  <2>4. Stays
    BY <1>1, <2>1, <2>2, <2>3 DEF Leaving
  <2> QED  BY <1>2, <2>4
<1>6. CASE RecheckCanceled(w)
  <2>1. pc' = [pc EXCEPT ![w] = "check"] /\ (u # w => node'[u] = node[u])
    BY <1>1, <1>6, RecheckIsCalm DEF RecheckCanceled
  <2>2. Stays
    BY <1>1, <2>1 DEF Leaving
  <2> QED  BY <1>2, <2>2
<1>7. CASE \/ CheckStop(w) \/ WaitForWork(w) \/ TakeNode(w) \/ EnqueueWorking(w)
           \/ BeginSearch(w) \/ BeginProcessing(w) \/ WaitAgain(w) \/ SpuriousWakeup(w)
  <2>1. Stays
    BY <1>1, <1>7 DEF CheckStop, WaitForWork, TakeNode, EnqueueWorking, BeginSearch,
                      BeginProcessing, WaitAgain, SpuriousWakeup, WokenFrom, Leaving
  <2> QED  BY <1>2, <2>1
<1>8. CASE \/ SearchRescuers(w) \/ (\E e \in Emergencies : ProbeNode(w, e))
           \/ SearchFails(w) \/ SendFree(w) \/ DecideToSteal(w) \/ SearchEnds(w)
  <2>1. Stays
    BY <1>1, <1>8 DEF SearchRescuers, ProbeNode, SearchFails, SendFree, DecideToSteal,
                      SearchEnds, Leaving
  <2> QED  BY <1>2, <2>1
<1>9. CASE Complete(w) \/ Cancel(w) \/ PauseLockWaiting(w) \/ Pause(w)
  <2>1. Stays
    BY <1>1, <1>9 DEF Complete, Cancel, PauseLockWaiting, Pause, Leaving
  <2> QED  BY <1>2, <2>1
<1> QED  BY <1>4, <1>5, <1>6, <1>7, <1>8, <1>9 DEF WorkerStep, SearchStep

(* The updater, the clock and the receiver only signal. *)
LEMMA OthersOnlySignal ==
    ASSUME OtherStep \/ (\E e \in Emergencies : ReceiveRequest(e)) \/ UNCHANGED vars
    PROVE  node' = node /\ (pc' = pc \/ SignalNotEmpty \/ \E e : pc' = SignalNode(e))
<1>1. CASE CheckUpdater \/ TakeTick \/ UpdaterLockRescuers \/ UpdaterLockWaiting
           \/ UpdateRescuers
  BY <1>1 DEF CheckUpdater, TakeTick, UpdaterLockRescuers, UpdaterLockWaiting,
              UpdateRescuers, poolVars
<1>2. CASE ScanWaiting \/ EndUpdate \/ BeginCancelAll \/ EndCancelAll
  BY <1>2 DEF ScanWaiting, EndUpdate, BeginCancelAll, EndCancelAll, poolVars
<1>3. CASE UpdateWorkingNode \/ UpdateWaitingNode \/ CancelNode
  BY <1>3 DEF UpdateWorkingNode, UpdateWaitingNode, CancelNode, poolVars
<1>4. CASE \/ ReceiveStop \/ CloseServer \/ ClockStep \/ UNCHANGED vars
           \/ \E e \in Emergencies : ReceiveRequest(e)
  BY <1>4 DEF ReceiveStop, CloseServer, ClockStep, Tick, StopClock, ReceiveRequest,
              vars, poolVars
<1> QED  BY <1>1, <1>2, <1>3, <1>4 DEF OtherStep, UpdaterStep

LEMMA OthersTell ==
    ASSUME PlaceInvariant, LifeInvariant, OneChange, NEW u \in Workers,
           OtherStep \/ (\E e \in Emergencies : ReceiveRequest(e)) \/ UNCHANGED vars
    PROVE  Told(u)'
<1>1. pc \in [Workers -> WorkerSteps]
  BY DEF PlaceInvariant, LockInvariant, ControlTypeOK
<1>2. node' = node /\ (pc' = pc \/ SignalNotEmpty \/ \E e : pc' = SignalNode(e))
  BY OthersOnlySignal
<1>3. pc'[u] \in Leaving => pc'[u] = pc[u]
  BY <1>1, <1>2, SignalsSendNobodyOut
<1>4. pc'[u] \notin Leaving => Told(u)'
  BY DEF Told, Leaving
<1> QED  BY <1>2, <1>3, <1>4, LeavingIsKept

LEMMA NextLife == PlaceInvariant /\ LifeInvariant /\ [Next]_vars => LifeInvariant'
<1> SUFFICES ASSUME PlaceInvariant, LifeInvariant, [Next]_vars PROVE LifeInvariant'
  OBVIOUS
<1>1. OneChange /\ AttendedIsWorking'
  BY NextChangesOne, NextAttended
<1>2. ASSUME NEW u \in Workers PROVE Told(u)'
  BY <1>1, WorkersTell, OthersTell DEF Next, OtherStep
<1> QED  BY <1>1, <1>2 DEF LifeInvariant, OneChange, LeavesAsTold, Told

LEMMA InitLife == Init => LifeInvariant
<1> SUFFICES ASSUME Init PROVE LifeInvariant
  OBVIOUS
<1>1. /\ emergency = [e \in Emergencies |-> NewEmergency(e)]
      /\ pc = [w \in Workers |-> "check"]
  BY DEF Init
<1>2. \A e \in Emergencies : Sound(NewEmergency(e)) /\ NewEmergency(e).status \notin Attended
  BY EmergenciesAssumption
     DEF NewEmergency, Sound, Detailed, Known, LowIsIdle, Attended
<1> QED  BY <1>1, <1>2 DEF LifeInvariant, RecordsSound, AttendedIsWorking, LeavesAsTold

LEMMA LifeInvariantHolds == Spec => [](PlaceInvariant /\ LifeInvariant)
<1>1. Init => PlaceInvariant /\ LifeInvariant
  BY InitPlaces, InitLife
<1>2. PlaceInvariant /\ LifeInvariant /\ [Next]_vars => (PlaceInvariant /\ LifeInvariant)'
  BY NextInvariant, NextLife
<1> QED  BY <1>1, <1>2, PTL DEF Spec

--------------------------------------------------------------------------------
(* The phases. *)

(* What is received, and neither waits nor is archived, is in the hands of *)
(* a worker.                                                               *)
InHand(e) == e \in received /\ e \notin Waiting \cup Done \cup Shelved

IsPhase(e, p) ==
    /\ e \notin received => p = "unsent"
    /\ e \in Waiting => p = "waiting"
    /\ e \in Done => p = "completed"
    /\ e \in Shelved => p = "shelved"
    /\ InHand(e) => p = IF emergency[e].status \in Attended THEN "attended" ELSE "assigned"

LEMMA Phases == PlaceInvariant => \A e \in Emergencies : IsPhase(e, Phase(e))
<1> SUFFICES ASSUME PlaceInvariant, NEW e \in Emergencies PROVE IsPhase(e, Phase(e))
  OBVIOUS
<1>1. \A s \in NodeLists : Contains(s, e) <=> e \in ToSet(s)
  BY DEF NodeLists, Contains, ToSet
<1>2. Contains(completed_emergencies, e) <=> e \in Done
  BY <1>1 DEF Done, PlaceInvariant, DataTypeOK
<1>3. Contains(canceled_emergencies, e) <=> e \in Shelved
  BY <1>1 DEF Shelved, PlaceInvariant, DataTypeOK
<1>4. (\E p \in Priorities : Contains(waiting_queue.lists[p], e)) <=> e \in Waiting
  <2>1. \A p \in Priorities : waiting_queue.lists[p] \in NodeLists
    BY DEF PlaceInvariant, DataTypeOK, QueueOK
  <2> QED  BY <1>1, <2>1, NodesAreLevels DEF Level, Waiting
<1>5. /\ e \notin Waiting \cap Done /\ e \notin (Waiting \cup Done) \cap Shelved
      /\ e \in Waiting \cup Done \cup Shelved => e \in received
  BY DEF PlaceInvariant, PlacesApart
<1>6. CASE e \notin received
  BY <1>2, <1>3, <1>4, <1>5, <1>6 DEF Phase, IsPhase, InHand
<1>7. CASE e \in received /\ e \in Done
  BY <1>2, <1>3, <1>4, <1>5, <1>7 DEF Phase, IsPhase, InHand
<1>8. CASE e \in received /\ e \notin Done /\ e \in Shelved
  BY <1>2, <1>3, <1>4, <1>5, <1>8 DEF Phase, IsPhase, InHand
<1>9. CASE e \in received /\ e \notin Done \cup Shelved /\ e \in Waiting
  BY <1>2, <1>3, <1>4, <1>5, <1>9 DEF Phase, IsPhase, InHand
<1>10. CASE e \in received /\ e \notin Done \cup Shelved \cup Waiting
  <2>1. Phase(e) = IF emergency[e].status \in Attended THEN "attended" ELSE "assigned"
    BY <1>2, <1>3, <1>4, <1>10 DEF Phase, Attended
  <2> QED  BY <1>10, <2>1 DEF IsPhase
<1> QED  BY <1>6, <1>7, <1>8, <1>9, <1>10

(* The priorities of the abstract specification, and its lowest *)
LEMMA LowestIsMin == Lifecycle!Lowest = MIN_PRIORITY
<1> DEFINE IsLow(u) == u \in Priorities /\ \A v \in Priorities : u <= v
<1>1. \A u : IsLow(u) <=> u = MIN_PRIORITY
  BY DEF Priorities, MIN_PRIORITY, MAX_PRIORITY
<1>2. Lifecycle!Lowest = CHOOSE u \in Priorities : \A v \in Priorities : u <= v
  BY DEF Lifecycle!Lowest
<1> QED  BY <1>1, <1>2

(* A step that moves x alone from one phase to another *)
LEMMA MovesOne ==
    ASSUME NEW x \in Emergencies, NEW from, NEW to,
           \A e \in Emergencies : e # x => Phase(e)' = Phase(e),
           Phase(x) = from, Phase(x)' = to,
           \A e \in Emergencies : emergency'[e].priority = emergency[e].priority
    PROVE  Lifecycle!Moves(x, from, to)
BY DEF Lifecycle!Moves

LEMMA StaysPut ==
    ASSUME \A e \in Emergencies : Phase(e)' = Phase(e),
           \A e \in Emergencies : emergency'[e].priority = emergency[e].priority
    PROVE  UNCHANGED Lifecycle!lifeVars
BY DEF Lifecycle!lifeVars

LEMMA RisesAlone ==
    ASSUME NEW x \in Emergencies,
           \A e \in Emergencies : Phase(e)' = Phase(e),
           Phase(x) \in {"waiting", "assigned"},
           \A e \in Emergencies : e # x => emergency'[e].priority = emergency[e].priority,
           emergency[x].priority = MIN_PRIORITY, emergency'[x].priority = MEDIUM_PRIORITY
    PROVE  Lifecycle!Promote(x)
<1>1. Lifecycle!Lowest = MIN_PRIORITY /\ MIN_PRIORITY + 1 = MEDIUM_PRIORITY
  BY LowestIsMin DEF MIN_PRIORITY, MEDIUM_PRIORITY
<1> QED  BY <1>1 DEF Lifecycle!Promote

AllPhases == \A e \in Emergencies : IsPhase(e, Phase(e))

LEMMA PhasesAfter == PlaceInvariant' => AllPhases'
<1>1. PlaceInvariant => AllPhases
  BY Phases DEF AllPhases
<1> QED  BY <1>1, PTL

--------------------------------------------------------------------------------
(* The steps. *)

LifecycleStep == [Lifecycle!Next]_(Lifecycle!lifeVars)

(* A step that brings no node to a queue, to an archive or out of the       *)
(* waiting queue: one emergency is attended, withdrawn or promoted, at most. *)
LEMMA CalmSimulates ==
    ASSUME AllPhases, AllPhases', LifeInvariant, LifeInvariant', PlacesApart, OneChange,
           UNCHANGED <<received, Waiting, Done, Shelved>>
    PROVE  LifecycleStep
<1>1. PICK x : Change(x)
  BY DEF OneChange
<1>2. \A e \in Emergencies : IsPhase(e, Phase(e)) /\ IsPhase(e, Phase(e))'
  BY DEF AllPhases
<1>3. PlacesApart /\ received \cup Waiting \cup Done \cup Shelved = received
  BY DEF PlacesApart
<1>4. \A e \in Emergencies : emergency'[e].status = emergency[e].status => Phase(e)' = Phase(e)
  <2> SUFFICES ASSUME NEW e \in Emergencies, emergency'[e].status = emergency[e].status
               PROVE  Phase(e)' = Phase(e)
    OBVIOUS
  <2>1. InHand(e)' <=> InHand(e)
    BY DEF InHand
  <2> QED  BY <1>2, <2>1 DEF IsPhase, InHand
<1>5. \A e \in Emergencies : e # x => Phase(e)' = Phase(e)
  BY <1>1, <1>4 DEF Change, Kept
<1>6. CASE x \notin Emergencies
  <2>1. \A e \in Emergencies : Phase(e)' = Phase(e)
        /\ emergency'[e].priority = emergency[e].priority
    BY <1>1, <1>5, <1>6 DEF Change, Kept
  <2> QED  BY <2>1, StaysPut DEF LifecycleStep
<1>7. CASE x \in Emergencies /\ ~InHand(x) /\ ~Rises(x)
  <2>1. Phase(x)' = Phase(x)
    <3>1. ~InHand(x)'
      BY <1>7 DEF InHand
    <3> QED  BY <1>2, <1>7, <3>1 DEF IsPhase, InHand
  <2>2. \A e \in Emergencies : Phase(e)' = Phase(e)
        /\ emergency'[e].priority = emergency[e].priority
    BY <1>1, <1>5, <1>7, <2>1 DEF Change, Kept
  <2> QED  BY <2>2, StaysPut DEF LifecycleStep
<1>8. CASE x \in Emergencies /\ Rises(x)
  <2>1. /\ emergency[x].status \notin Attended /\ emergency'[x].status \notin Attended
        /\ x \in Waiting \/ x \in Working
        /\ emergency[x].priority = MIN_PRIORITY /\ emergency'[x].priority = MEDIUM_PRIORITY
    BY <1>8 DEF Rises
  <2>2. x \in Waiting \/ InHand(x)
    BY <2>1 DEF InHand, PlacesApart
  <2>3. InHand(x)' <=> InHand(x)
    BY DEF InHand
  <2>4. Phase(x)' = Phase(x) /\ Phase(x) \in {"waiting", "assigned"}
    BY <1>2, <1>8, <2>1, <2>2, <2>3 DEF IsPhase
  <2>5. \A e \in Emergencies : e # x => emergency'[e].priority = emergency[e].priority
    BY <1>1 DEF Change, Kept
  <2>6. Lifecycle!Promote(x)
    BY <1>5, <1>8, <2>1, <2>4, <2>5, RisesAlone
  <2> QED  BY <1>8, <2>6 DEF Lifecycle!Next, LifecycleStep
<1>9. CASE x \in Emergencies /\ InHand(x) /\ ~Rises(x)
  <2> DEFINE Is(status) == IF status \in Attended THEN "attended" ELSE "assigned"
  <2>1. Phase(x) = Is(emergency[x].status) /\ Phase(x)' = Is(emergency'[x].status)
    <3>1. InHand(x)'
      BY <1>9 DEF InHand
    <3> QED  BY <1>2, <1>9, <3>1 DEF IsPhase
  <2>2. \A e \in Emergencies : emergency'[e].priority = emergency[e].priority
    BY <1>1, <1>9 DEF Change, Kept
  <2>3. CASE emergency[x].status \in Attended <=> emergency'[x].status \in Attended
    <3>1. \A e \in Emergencies : Phase(e)' = Phase(e)
      BY <1>5, <2>1, <2>3
    <3> QED  BY <2>2, <3>1, StaysPut DEF LifecycleStep
  <2>4. CASE emergency[x].status \notin Attended /\ emergency'[x].status \in Attended
    <3>1. Lifecycle!Moves(x, "assigned", "attended")
      BY <1>5, <1>9, <2>1, <2>2, <2>4, MovesOne
    <3>2. emergency'[x].priority # MIN_PRIORITY
      BY <1>9, <2>4 DEF LifeInvariant, RecordsSound, Sound, LowIsIdle
    <3>3. emergency[x].priority # Lifecycle!Lowest
      BY <1>9, <2>2, <3>2, LowestIsMin
    <3>4. Lifecycle!Attend(x)
      BY <1>9, <3>1, <3>3 DEF Lifecycle!Attend
    <3> QED  BY <1>9, <3>4 DEF Lifecycle!Next, LifecycleStep
  <2>5. CASE emergency[x].status \in Attended /\ emergency'[x].status \notin Attended
    <3>1. Lifecycle!Withdraw(x)
      BY <1>5, <1>9, <2>1, <2>2, <2>5, MovesOne DEF Lifecycle!Withdraw
    <3> QED  BY <1>9, <3>1 DEF Lifecycle!Next, LifecycleStep
  <2> QED  BY <2>3, <2>4, <2>5
<1> QED  BY <1>6, <1>7, <1>8, <1>9

LEMMA ReceiveSimulates ==
    ASSUME PlaceInvariant, AllPhases, AllPhases', NEW x \in Emergencies, ReceiveRequest(x)
    PROVE  LifecycleStep
<1>1. /\ x \notin received /\ received' = received \cup {x}
      /\ UNCHANGED <<emergency, completed_emergencies, canceled_emergencies>>
      /\ waiting_queue' = Enqueue(waiting_queue, x, emergency[x].priority)
  BY DEF ReceiveRequest, archives, dataVars
<1>2. PlacesApart /\ received = Waiting \cup Working \cup Done \cup Shelved \cup Transit
  BY DEF PlaceInvariant, PlacesApart
<1>3. x \notin Waiting \cup Done \cup Shelved
  BY <1>1, <1>2
<1>4. Waiting' = Waiting \cup {x}
  <2>1. QueueOK(waiting_queue) /\ emergency[x].priority \in Priorities
    BY DEF PlaceInvariant, DataTypeOK, Known
  <2> QED  BY <1>1, <1>3, <2>1, QueueNodes DEF Waiting
<1>5. Done' = Done /\ Shelved' = Shelved
  BY <1>1 DEF Done, Shelved
<1>6. \A e \in Emergencies : IsPhase(e, Phase(e)) /\ IsPhase(e, Phase(e))'
  BY DEF AllPhases
<1>7. ASSUME NEW e \in Emergencies, e # x PROVE Phase(e)' = Phase(e)
  <2>1. InHand(e)' <=> InHand(e)
    BY <1>1, <1>4, <1>5, <1>7 DEF InHand
  <2>2. e \in Waiting' <=> e \in Waiting
    BY <1>4, <1>7
  <2>3. e \in received' <=> e \in received
    BY <1>1, <1>7
  <2> QED  BY <1>1, <1>5, <1>6, <2>1, <2>2, <2>3 DEF IsPhase, InHand
<1>8. Phase(x) = "unsent" /\ Phase(x)' = "waiting"
  BY <1>1, <1>4, <1>6 DEF IsPhase
<1>9. Lifecycle!Receive(x)
  BY <1>1, <1>7, <1>8, MovesOne DEF Lifecycle!Receive
<1> QED  BY <1>9 DEF Lifecycle!Next, LifecycleStep

(* A way out of the working queue: to the completed or to the canceled     *)
(* list, as the status says.                                               *)
LEMMA LeaveSimulates ==
    ASSUME PlaceInvariant, LifeInvariant, AllPhases, AllPhases', NEW w \in Workers,
           Complete(w) \/ Cancel(w) \/ Pause(w)
    PROVE  LifecycleStep
<1> PICK x \in Emergencies : x = node[w]
  BY LeaveLists
<1>1. /\ x \in Working
      /\ received' = received /\ Waiting' = Waiting
      /\ Complete(w) => Done' = Done \cup {x} /\ Shelved' = Shelved
      /\ ~Complete(w) => Done' = Done /\ Shelved' = Shelved \cup {x}
  BY LeaveLists
<1>2. emergency' = emergency
  BY DEF Complete, Cancel, Pause, dataVars
<1>3. InHand(x)
  BY <1>1 DEF PlaceInvariant, PlacesApart, InHand
<1>4. \A e \in Emergencies : IsPhase(e, Phase(e)) /\ IsPhase(e, Phase(e))'
  BY DEF AllPhases
<1>5. ASSUME NEW e \in Emergencies, e # x PROVE Phase(e)' = Phase(e)
  <2>1. (e \in Done' <=> e \in Done) /\ (e \in Shelved' <=> e \in Shelved)
    BY <1>1, <1>5
  <2>2. InHand(e)' <=> InHand(e)
    BY <1>1, <2>1 DEF InHand
  <2> QED  BY <1>1, <1>2, <1>4, <2>1, <2>2 DEF IsPhase, InHand
<1>6. CASE Complete(w)
  <2>1. emergency[x].status \in Attended
    BY <1>6 DEF Complete, LifeInvariant, LeavesAsTold, Attended
  <2>2. Phase(x) = "attended" /\ Phase(x)' = "completed"
    BY <1>1, <1>3, <1>4, <1>6, <2>1 DEF IsPhase
  <2>3. Lifecycle!Complete(x)
    BY <1>1, <1>2, <1>5, <2>2, MovesOne DEF Lifecycle!Complete
  <2> QED  BY <1>1, <2>3 DEF Lifecycle!Next, LifecycleStep
<1>7. CASE ~Complete(w)
  <2>1. emergency[x].status \notin Attended
    BY <1>7 DEF Cancel, Pause, LifeInvariant, LeavesAsTold, PlaceInvariant, PausedStays,
                PausedSteps, Attended
  <2>2. Phase(x) = "assigned" /\ Phase(x)' = "shelved"
    BY <1>1, <1>3, <1>4, <1>7, <2>1 DEF IsPhase
  <2>3. Lifecycle!Shelve(x)
    BY <1>1, <1>2, <1>5, <2>2, MovesOne DEF Lifecycle!Shelve
  <2> QED  BY <1>1, <2>3 DEF Lifecycle!Next, LifecycleStep
<1> QED  BY <1>6, <1>7

(* A worker that takes a node has none: the emergencies in hand are fewer  *)
(* than the pool.                                                          *)
LEMMA HandsAreFree ==
    ASSUME PlaceInvariant, NEW w \in Workers, pc[w] \notin Busy,
           NEW S, \A e \in S : InHand(e)
    PROVE  Cardinality(S) < Cardinality(Workers)
<1> DEFINE T == Workers \ {w}
           Handles(u, e) == pc[u] \in Busy /\ node[u] = e
           f == [e \in S |-> CHOOSE u \in Workers : Handles(u, e)]
<1>1. ASSUME NEW e \in S PROVE \E u \in Workers : Handles(u, e)
  <2>1. InHand(e)
    OBVIOUS
  <2>2. e \in Working \/ e \in Transit
    BY <2>1 DEF InHand, PlaceInvariant, PlacesApart
  <2>3. e \in Working => \E u \in Workers : pc[u] \in Handling /\ node[u] = e
    BY DEF PlaceInvariant, HandledIsWorking
  <2>4. e \in Transit => \E u \in Workers : pc[u] = "lockWorking" /\ node[u] = e
    BY DEF Transit
  <2> QED  BY <2>2, <2>3, <2>4 DEF Busy
<1>2. \A e \in S : f[e] \in Workers /\ Handles(f[e], e)
  BY <1>1
<1>3. f \in [S -> T]
  BY <1>2
<1>4. \A d, e \in S : f[d] = f[e] => d = e
  BY <1>2
<1>5. f \in Injection(S, T)
  BY <1>3, <1>4 DEF Injection, IsInjective
<1> HIDE DEF f
<1>6. /\ IsFiniteSet(T) /\ Cardinality(T) = Cardinality(Workers) - 1
      /\ Cardinality(Workers) \in Nat
  BY ThreadsAssumption, FS_RemoveElement, FS_CardinalityType
<1>7. Cardinality(S) <= Cardinality(T) /\ IsFiniteSet(S)
  BY <1>5, <1>6, FS_Injection
<1>8. Cardinality(S) \in Nat
  BY <1>7, FS_CardinalityType
<1> QED  BY <1>6, <1>7, <1>8

(* The abstract specification counts as this one does. *)
LEMMA SameCardinality == \A S : Lifecycle!Cardinality(S) = Cardinality(S)
BY DEF Lifecycle!Cardinality, Cardinality

LEMMA TakeSimulates ==
    ASSUME PlaceInvariant, LifeInvariant, LifeInvariant', AllPhases, AllPhases', OneChange,
           NEW w \in Workers, TakeNode(w)
    PROVE  LifecycleStep
<1>1. /\ UNCHANGED <<received, emergency, working_queue, completed_emergencies,
                     canceled_emergencies>>
      /\ waiting_queue' = Dequeue(waiting_queue) /\ pc[w] = "lockWaiting"
  BY DEF TakeNode, OnlyWorkers, mainVars, archives, dataVars
<1>2. UNCHANGED <<Working, Done, Shelved>>
  BY <1>1 DEF Working, Done, Shelved
<1>3. QueueOK(waiting_queue) /\ LevelsApart(waiting_queue) /\ PlacesApart
  BY MatchingLevelsApart DEF PlaceInvariant, DataTypeOK
<1>4. CASE ~HasNode(waiting_queue)
  <2>1. Waiting' = Waiting
    BY <1>1, <1>3, <1>4, DequeueNodes DEF Waiting
  <2> QED  BY <1>1, <1>2, <1>3, <2>1, CalmSimulates
<1>5. CASE HasNode(waiting_queue)
  <2>1. First(waiting_queue) \in Waiting /\ Waiting' = Waiting \ {First(waiting_queue)}
    BY <1>1, <1>3, <1>5, DequeueNodes DEF Waiting
  <2>2. Waiting \subseteq Emergencies
    BY <1>3, LevelsAreEmergencies DEF Waiting
  <2>3. PICK x \in Emergencies : x = First(waiting_queue)
    BY <2>1, <2>2
  <2>4. \A e \in Emergencies : IsPhase(e, Phase(e)) /\ IsPhase(e, Phase(e))'
    BY DEF AllPhases
  <2>5. ASSUME NEW e \in Emergencies, e # x PROVE Phase(e)' = Phase(e)
    <3>1. (e \in Waiting' <=> e \in Waiting)
      BY <2>1, <2>3, <2>5
    <3>2. InHand(e)' <=> InHand(e)
      BY <1>1, <1>2, <3>1 DEF InHand
    <3> QED  BY <1>1, <1>2, <2>4, <3>1, <3>2 DEF IsPhase, InHand
  <2>6. x \in received /\ x \notin Working \cup Done \cup Shelved
    BY <1>3, <2>1, <2>3 DEF PlacesApart
  <2>7. Phase(x) = "waiting" /\ Phase(x)' = "assigned"
    <3>1. emergency[x].status \notin Attended
      BY <2>6 DEF LifeInvariant, AttendedIsWorking
    <3>2. InHand(x)'
      BY <1>1, <1>2, <2>1, <2>3, <2>6 DEF InHand
    <3> QED  BY <1>1, <2>1, <2>3, <2>4, <3>1, <3>2 DEF IsPhase
  <2>8. Lifecycle!Moves(x, "waiting", "assigned")
    BY <1>1, <2>5, <2>7, MovesOne
  <2>9. ASSUME NEW e \in Emergencies, Phase(e) = "waiting"
        PROVE  emergency[e].priority <= emergency[x].priority
    <3>1. e \in Waiting
      BY <2>4, <2>9, <1>3 DEF IsPhase, InHand
    <3>2. PICK p \in Priorities : e \in Level(waiting_queue, p)
      BY <3>1, NodesAreLevels DEF Waiting
    <3>3. /\ Hottest(waiting_queue) \in Priorities
          /\ x \in Level(waiting_queue, Hottest(waiting_queue))
      BY <1>3, <1>5, <2>3, DequeueLevels
    <3>4. p <= Hottest(waiting_queue)
      <4>1. waiting_queue.lists[p] # <<>>
        BY <3>2, EmptyList DEF Level
      <4> QED  BY <1>5, <4>1, HottestIsThere
    <3>5. /\ emergency[e].priority = p
          /\ emergency[x].priority = Hottest(waiting_queue)
      BY <3>2, <3>3 DEF PlaceInvariant, ListsMatchPriorities, Level
    <3> QED  BY <3>4, <3>5
  <2>10. Cardinality(Lifecycle!In("assigned") \cup Lifecycle!In("attended"))
            < Cardinality(Workers)
    <3>1. \A e \in Emergencies : Phase(e) \in {"assigned", "attended"} => InHand(e)
      BY <2>4 DEF IsPhase, InHand
    <3>2. \A e \in Lifecycle!In("assigned") \cup Lifecycle!In("attended") : InHand(e)
      BY <3>1 DEF Lifecycle!In
    <3>3. pc[w] \notin Busy
      BY <1>1 DEF Busy, Handling
    <3> QED  BY <3>2, <3>3, HandsAreFree
  <2>11. Lifecycle!Assign(x)
    <3>1. \A e \in Lifecycle!In("waiting") :
             e \in Emergencies /\ emergency[e].priority <= emergency[x].priority
      BY <2>9 DEF Lifecycle!In
    <3> QED  BY <2>8, <2>10, <3>1, SameCardinality DEF Lifecycle!Assign
  <2> QED  BY <2>11 DEF Lifecycle!Next, LifecycleStep
<1> QED  BY <1>4, <1>5

LEMMA NextSimulates ==
    ASSUME PlaceInvariant, LifeInvariant, PlaceInvariant', LifeInvariant', [Next]_vars
    PROVE  LifecycleStep
<1>1. AllPhases /\ AllPhases' /\ PlacesApart /\ OneChange
  BY Phases, PhasesAfter, NextChangesOne DEF AllPhases, PlaceInvariant
<1>2. UNCHANGED <<received, Waiting, Done, Shelved>> => LifecycleStep
  BY <1>1, CalmSimulates
<1>3. CASE OtherStep
  BY <1>2, <1>3, OthersAreCalm DEF CalmLists
<1>4. CASE UNCHANGED vars
  BY <1>2, <1>4 DEF vars, mainVars, listVars, archives, Waiting, Done, Shelved
<1>5. ASSUME NEW x \in Emergencies, ReceiveRequest(x) PROVE LifecycleStep
  BY <1>1, <1>5, ReceiveSimulates
<1>6. ASSUME NEW w \in Workers, WorkerStep(w) \/ SpuriousWakeup(w) PROVE LifecycleStep
  <2>1. CASE Complete(w) \/ Cancel(w) \/ Pause(w)
    BY <1>1, <2>1, LeaveSimulates
  <2>2. CASE TakeNode(w)
    BY <1>1, <2>2, TakeSimulates
  <2>3. CASE EnqueueWorking(w)
    BY <1>2, <2>3 DEF EnqueueWorking, mainVars, archives, Waiting, Done, Shelved
  <2>4. CASE CalmStep(w) \/ RecheckCanceled(w)
    <3>1. UNCHANGED <<received, listVars>>
      BY <2>4, WorkersAreCalm, RecheckIsCalm DEF PlaceInvariant, LockInvariant, ControlTypeOK
    <3> QED  BY <1>2, <3>1 DEF listVars, archives, Waiting, Done, Shelved
  <2> QED  BY <1>6, <2>1, <2>2, <2>3, <2>4 DEF WorkerStep, CalmStep
<1> QED  BY <1>3, <1>4, <1>5, <1>6 DEF Next, OtherStep

LEMMA InitSimulates == Init => Lifecycle!Init
<1> SUFFICES ASSUME Init PROVE Lifecycle!Init
  OBVIOUS
<1>1. \A e \in Emergencies : emergency[e].priority = TypePriority[e]
  BY DEF Init, NewEmergency
<1>2. [e \in Emergencies |-> emergency[e].priority] = TypePriority
  BY <1>1, EmergenciesAssumption
<1>3. \A e \in Emergencies : Phase(e) = "unsent"
  <2>1. \A e \in Emergencies : IsPhase(e, Phase(e))
    BY InitPlaces, Phases
  <2> QED  BY <2>1 DEF Init, IsPhase
<1> QED  BY <1>2, <1>3 DEF Lifecycle!Init

(* For every pool and every load the server implements EmergencyLifecycle: *)
(* an emergency is assigned once, to a free worker and never before a more *)
(* urgent one, is attended only above the lowest level, rises once at      *)
(* most, and ends in one archive for ever (handler.c 19-130, updater.c     *)
(* 22-210, utils.c 96-106).                                                *)
THEOREM ServerImplementsLifecycle == Spec => ImplementsLifecycle
<1>1. PlaceInvariant /\ LifeInvariant /\ (PlaceInvariant /\ LifeInvariant)' /\ [Next]_vars
         => [Lifecycle!Next]_(Lifecycle!lifeVars)
  BY NextSimulates DEF LifecycleStep
<1> QED  BY <1>1, LifeInvariantHolds, InitSimulates, PTL
         DEF Spec, ImplementsLifecycle, Lifecycle!Spec

-----------------------------------------------------------------------------
(* What those who wait are told.                                           *)

Waits == {"arriveWait", "finishWait"}

(* A worker has its node, and has not sent all rescuers yet. *)
BeforeSending == {"lockNode", "lockRescuers", "search", "steal", "retryWait"}

(* A record in which rescuers arrive only after they were found, and the   *)
(* work begins only after they arrived                                     *)
Honest(r) ==
    /\ "rescuers_found" \in DOMAIN r /\ r.rescuers_have_arrived \in BOOLEAN
    /\ r.rescuers_have_arrived \/ r.status = "WAITING_FOR_RESCUERS" => r.rescuers_found
    /\ r.status \in Attended => r.rescuers_have_arrived

RecordsHonest == \A e \in Emergencies : Honest(emergency[e])

Fresh(r) ==
    ~r.rescuers_have_arrived /\ r.status \notin Attended \cup {"WAITING_FOR_RESCUERS"}

(* The search for the rescuers of e is over. *)
Sent(e) == e \in Started /\ \A w \in Workers : pc[w] \in BeforeSending => node[w] # e

FreshUntilSent == \A e \in Emergencies : Fresh(emergency[e]) \/ Sent(e)

(* Who is about to be robbed cannot complete: the robber holds the mutex   *)
(* without which the updater completes nothing.                            *)
RobbedIsUnfinished ==
    \A w \in Workers : \A e \in Emergencies :
        pc[w] = "steal" /\ Victim(w) = e => emergency[e].status # "COMPLETED"

WaitInvariant ==
    /\ RecordsHonest /\ FreshUntilSent /\ NoWakeupIsLost
    /\ ArchivesTellStatus /\ RobbedIsUnfinished

--------------------------------------------------------------------------------
(* Records *)

(* r becomes s, and the worker that waits for it needs no signal *)
SilentChange(r, s) ==
    /\ Honest(s)
    /\ s.rescuers_have_arrived = r.rescuers_have_arrived
    /\ s.status \in {r.status, "TIMEOUT"}

(* r becomes s, which a worker may wait for *)
NewsChange(r, s) ==
    /\ Honest(s)
    /\ Fresh(r) => Fresh(s)

LEMMA HonestRecords ==
    ASSUME NEW r, Sound(r), Honest(r)
    PROVE  /\ SilentChange(r, r) /\ NewsChange(r, r)
           /\ \A i, t : SilentChange(r, WithTwin(r, i, t)) /\ WithTwin(r, i, t).status = r.status
           /\ NewsChange(r, Paused(r)) /\ Paused(r).status = "PAUSED"
           /\ NewsChange(r, Assigned(r))
           /\ Assigned(r).status = "ASKING_FOR_RESCUERS"
           /\ NewsChange(r, [r EXCEPT !.status = "CANCELED"])
           /\ Fresh(r) => SilentChange(r, [r EXCEPT !.rescuers_found = FALSE])
           /\ r.rescuers_have_arrived => Honest([r EXCEPT !.status = "IN_PROGRESS"])
<1> USE DEF Honest, Sound, Detailed, Known, Attended, SilentChange, NewsChange, Fresh
<1>1. SilentChange(r, r) /\ NewsChange(r, r)
  OBVIOUS
<1>2. \A i, t : SilentChange(r, WithTwin(r, i, t)) /\ WithTwin(r, i, t).status = r.status
  BY DEF WithTwin
<1>3. NewsChange(r, Paused(r)) /\ Paused(r).status = "PAUSED"
  BY DEF Paused
<1>4. NewsChange(r, Assigned(r)) /\ Assigned(r).status = "ASKING_FOR_RESCUERS"
  BY DEF Assigned
<1>5. NewsChange(r, [r EXCEPT !.status = "CANCELED"])
  OBVIOUS
<1>6. Fresh(r) => SilentChange(r, [r EXCEPT !.rescuers_found = FALSE])
  OBVIOUS
<1>7. r.rescuers_have_arrived => Honest([r EXCEPT !.status = "IN_PROGRESS"])
  OBVIOUS
<1> QED  BY <1>1, <1>2, <1>3, <1>4, <1>5, <1>6, <1>7

LEMMA HonestTimeout ==
    ASSUME NEW r, Sound(r), Honest(r)
    PROVE  SilentChange(r, AfterTimeout(r))
BY DEF AfterTimeout, Honest, Sound, Detailed, Known, Attended, SilentChange

LEMMA HonestPromotion ==
    ASSUME NEW r, Sound(r), Honest(r)
    PROVE  SilentChange(r, WithPromotion(r)) /\ WithPromotion(r).status = r.status
BY DEF WithPromotion, Honest, Sound, Detailed, Known, Attended, SilentChange

LEMMA HonestWaiting ==
    ASSUME NEW e \in Emergencies, Sound(emergency[e]), Honest(emergency[e])
    PROVE  SilentChange(emergency[e], UpdatedWaiting(e))
<1> DEFINE b == [emergency[e] EXCEPT !.spent = Older(@, AgeCap)]
<1>1. Older(emergency[e].spent, AgeCap) \in Nat
  BY AgesAreNumbers DEF Sound, Detailed
<1>2. Sound(b) /\ Honest(b) /\ b.status = emergency[e].status
      /\ b.rescuers_have_arrived = emergency[e].rescuers_have_arrived
  BY <1>1 DEF Sound, Detailed, Known, LowIsIdle, Honest
<1>3. UpdatedWaiting(e) = AfterTimeout(b)
  BY DEF UpdatedWaiting
<1> HIDE DEF b
<1> QED  BY <1>2, <1>3, HonestTimeout DEF SilentChange

(* An update of a working node without a signal is a timeout at most. *)
LEMMA HonestWorking ==
    ASSUME NEW e \in Emergencies, Sound(emergency[e]), Honest(emergency[e])
    PROVE  /\ NewsChange(emergency[e], UpdatedWorking(e))
           /\ ~Signals(e) => SilentChange(emergency[e], UpdatedWorking(e))
<1> DEFINE b == [emergency[e] EXCEPT !.assigned = Older(@, CancelAge + 1),
                                     !.spent = Older(@, AgeCap)]
           a == AgedWorking(emergency[e])
<1>1. Older(emergency[e].spent, AgeCap) \in Nat
  BY AgesAreNumbers DEF Sound, Detailed
<1>2. Sound(b) /\ Honest(b) /\ b.status = emergency[e].status
      /\ b.rescuers_have_arrived = emergency[e].rescuers_have_arrived
  BY <1>1 DEF Sound, Detailed, Known, LowIsIdle, Honest
<1>3. a = AfterTimeout(b)
  BY DEF AgedWorking
<1> HIDE DEF b
<1>4. SilentChange(emergency[e], a) /\ Sound(a)
  BY <1>2, <1>3, HonestTimeout, TimeoutSound DEF SilentChange, Follows
<1>5. \/ UpdatedWorking(e) = [a EXCEPT !.status = "CANCELED"]
      \/ a.status = "WAITING_FOR_RESCUERS"
         /\ UpdatedWorking(e) = [a EXCEPT !.rescuers_have_arrived = TRUE]
      \/ a.status = "IN_PROGRESS" /\ UpdatedWorking(e) = [a EXCEPT !.status = "COMPLETED"]
      \/ UpdatedWorking(e) = a
  BY DEF UpdatedWorking
<1>6. ~Signals(e) => UpdatedWorking(e) = a
  BY DEF Signals
<1> HIDE DEF a
<1>7. NewsChange(a, UpdatedWorking(e))
  BY <1>4, <1>5 DEF NewsChange, SilentChange, Honest, Fresh, Sound, Detailed, Known, Attended
<1>8. Fresh(emergency[e]) => Fresh(a)
  BY <1>4 DEF SilentChange, Fresh, Attended
<1> QED  BY <1>4, <1>6, <1>7, <1>8 DEF NewsChange

--------------------------------------------------------------------------------
(* What a step does to an emergency *)

Robbed(e) ==
    /\ emergency'[e].status = "PAUSED"
    /\ \E w \in Workers : pc[w] = "steal" /\ Victim(w) = e

Here(e) == e \in Waiting \cup Working

(* Nothing, or a timeout. *)
Quiet(e) ==
    /\ SilentChange(emergency[e], emergency'[e])
    /\ emergency'[e].status # emergency[e].status => Here(e)

(* News, with a signal to its worker *)
Noticed(e) ==
    /\ NewsChange(emergency[e], emergency'[e])
    /\ Here(e) \/ Robbed(e)
    /\ emergency'[e].status = "COMPLETED" =>
          emergency[e].status = "COMPLETED" \/ updater = "updateWorking"
    /\ \A w \in Workers : node[w] = e => pc'[w] \notin Waits

(* The work of its worker: it takes it, has sent the rescuers, sees them at *)
(* the scene.                                                               *)
Taken(w) ==
    /\ pc[w] = "lockNode" /\ pc'[w] = "lockRescuers"
    /\ NewsChange(emergency[node[w]], emergency'[node[w]])
    /\ emergency'[node[w]].status = "ASKING_FOR_RESCUERS"

SearchedFor(w) ==
    /\ pc[w] = "search" /\ pc'[w] = "arriveWait"
    /\ Honest(emergency'[node[w]])
    /\ emergency'[node[w]].rescuers_have_arrived = emergency[node[w]].rescuers_have_arrived
    /\ emergency'[node[w]].status = "WAITING_FOR_RESCUERS"

Begun(w) ==
    /\ pc[w] = "arriveWoken" /\ pc'[w] = "finishWait"
    /\ emergency[node[w]].rescuers_have_arrived
    /\ Honest(emergency'[node[w]]) /\ emergency'[node[w]].status = "IN_PROGRESS"

Handled(e) ==
    \E w \in Workers :
        /\ node[w] = e /\ node'[w] = e /\ e \in Working
        /\ \A u \in Workers : u # w => node[u] # e \/ pc[u] \notin Handling
        /\ Taken(w) \/ SearchedFor(w) \/ Begun(w)

StepOf(e) == Quiet(e) \/ Noticed(e) \/ Handled(e)

LEMMA Unchanged ==
    ASSUME LifeInvariant, RecordsHonest, NEW e \in Emergencies, emergency'[e] = emergency[e]
    PROVE  StepOf(e)
BY HonestRecords DEF LifeInvariant, RecordsSound, RecordsHonest, Quiet, StepOf

(* Steps of a worker on its own node *)
LEMMA OwnSteps ==
    ASSUME PlaceInvariant, LifeInvariant, RecordsHonest, NEW w \in Workers,
           pc[w] \in Handling
    PROVE  /\ node[w] \in Emergencies /\ node[w] \in Working
           /\ \A u \in Workers : u # w => node[u] # node[w] \/ pc[u] \notin Handling
           /\ BeginSearch(w) => Taken(w)
           /\ SearchEnds(w) => SearchedFor(w)
           /\ BeginProcessing(w) => Begun(w)
<1> DEFINE e == node[w]
<1>1. /\ node[w] \in Emergencies /\ node[w] \in Working
      /\ \A u \in Workers : u # w => node[u] # node[w] \/ pc[u] \notin Handling
  BY LevelsAreEmergencies, ThreadsAssumption
  DEF PlaceInvariant, DataTypeOK, HandledIsWorking, Working, Busy
<1>2. /\ DOMAIN emergency = Emergencies /\ pc \in [Workers -> WorkerSteps]
      /\ Sound(emergency[e]) /\ Honest(emergency[e])
  BY <1>1 DEF LifeInvariant, RecordsSound, RecordsHonest, PlaceInvariant, LockInvariant,
              ControlTypeOK
<1>3. ASSUME BeginSearch(w) PROVE Taken(w)
  <2>1. /\ pc[w] = "lockNode" /\ pc'[w] = "lockRescuers"
        /\ emergency'[e] = Assigned(emergency[e])
    BY <1>1, <1>2, <1>3 DEF BeginSearch
  <2>2. /\ NewsChange(emergency[e], Assigned(emergency[e]))
        /\ Assigned(emergency[e]).status = "ASKING_FOR_RESCUERS"
    BY <1>2, HonestRecords
  <2> QED  BY <2>1, <2>2 DEF Taken
<1>4. ASSUME SearchEnds(w) PROVE SearchedFor(w)
  <2> DEFINE a == [emergency[e] EXCEPT !.eta = TimeToArrive(node[w], chosen[w])]
             b == [a EXCEPT !.rescuers_found = TRUE]
             r == [b EXCEPT !.status = "WAITING_FOR_RESCUERS"]
  <2>1. /\ pc[w] = "search" /\ pc'[w] = "arriveWait" /\ emergency'[e] = r
    BY <1>1, <1>2, <1>4 DEF SearchEnds, Sending
  <2>2. Honest(a) /\ "status" \in DOMAIN a
        /\ a.rescuers_have_arrived = emergency[e].rescuers_have_arrived
    BY <1>2 DEF Honest, Sound, Detailed, Known
  <2> HIDE DEF a
  <2>3. Honest(b) /\ "status" \in DOMAIN b /\ b.rescuers_found
        /\ b.rescuers_have_arrived = a.rescuers_have_arrived
    BY <2>2 DEF Honest
  <2> HIDE DEF b
  <2>4. Honest(r) /\ r.rescuers_have_arrived = b.rescuers_have_arrived
        /\ r.status = "WAITING_FOR_RESCUERS"
    BY <2>3 DEF Honest, Attended
  <2> HIDE DEF r
  <2> QED  BY <2>1, <2>2, <2>3, <2>4 DEF SearchedFor
<1>5. ASSUME BeginProcessing(w) PROVE Begun(w)
  <2>1. /\ pc[w] = "arriveWoken" /\ pc'[w] = "finishWait"
        /\ emergency[e].rescuers_have_arrived
        /\ emergency'[e] = [emergency[e] EXCEPT !.status = "IN_PROGRESS"]
    BY <1>1, <1>2, <1>5 DEF BeginProcessing, WithStatus
  <2>2. Honest([emergency[e] EXCEPT !.status = "IN_PROGRESS"])
    BY <1>2, <2>1, HonestRecords
  <2>3. [emergency[e] EXCEPT !.status = "IN_PROGRESS"].status = "IN_PROGRESS"
    BY <1>2 DEF Sound, Detailed, Known
  <2> QED  BY <2>1, <2>2, <2>3 DEF Begun
<1> QED  BY <1>1, <1>3, <1>4, <1>5

LEMMA HandlersStep ==
    ASSUME PlaceInvariant, LifeInvariant, RecordsHonest, NEW w \in Workers,
           BeginSearch(w) \/ SearchEnds(w) \/ BeginProcessing(w), NEW e \in Emergencies
    PROVE  StepOf(e)
<1>1. pc[w] \in Handling /\ node' = node
  BY DEF Handling, BeginSearch, SearchEnds, Sending, BeginProcessing
<1>2. CASE e # node[w]
  <2>1. emergency'[e] = emergency[e]
    BY <1>2 DEF LifeInvariant, RecordsSound, BeginSearch, SearchEnds, BeginProcessing, WithStatus
  <2> QED  BY <2>1, Unchanged
<1>3. CASE e = node[w]
  <2>1. /\ e \in Working /\ (Taken(w) \/ SearchedFor(w) \/ Begun(w))
        /\ \A u \in Workers : u # w => node[u] # e \/ pc[u] \notin Handling
    BY <1>1, <1>3, OwnSteps
  <2> QED  BY <1>1, <1>3, <2>1 DEF Handled, StepOf
<1> QED  BY <1>2, <1>3

(* Steps of a search *)
LEMMA SearchersStep ==
    ASSUME PlaceInvariant, LifeInvariant, RecordsHonest, FreshUntilSent, NEW w \in Workers,
           SearchFails(w) \/ SendFree(w), NEW e \in Emergencies
    PROVE  StepOf(e)
<1>1. /\ DOMAIN emergency = Emergencies
      /\ \A x \in Emergencies : Sound(emergency[x]) /\ Honest(emergency[x])
  BY DEF LifeInvariant, RecordsSound, RecordsHonest
<1>2. CASE SearchFails(w)
  <2>1. pc[w] = "search"
        /\ emergency' = [emergency EXCEPT ![node[w]].rescuers_found = FALSE]
    BY <1>2 DEF SearchFails
  <2>2. CASE e # node[w]
    BY <1>1, <2>1, <2>2, Unchanged
  <2>3. CASE e = node[w]
    <3>1. Fresh(emergency[e])
      BY <2>1, <2>3 DEF FreshUntilSent, Sent, BeforeSending
    <3>2. emergency'[e] = [emergency[e] EXCEPT !.rescuers_found = FALSE]
      BY <1>1, <2>1, <2>3
    <3>3. emergency'[e].status = emergency[e].status
      BY <3>2
    <3> QED  BY <1>1, <3>1, <3>2, <3>3, HonestRecords DEF Quiet, StepOf
  <2> QED  BY <2>2, <2>3
<1>3. CASE SendFree(w)
  <2>1. \E i, t : emergency'[e] \in {emergency[e], WithTwin(emergency[e], i, t)}
    BY <1>1, <1>3 DEF SendFree
  <2>2. \A i, t : /\ SilentChange(emergency[e], WithTwin(emergency[e], i, t))
                  /\ WithTwin(emergency[e], i, t).status = emergency[e].status
    BY <1>1, HonestRecords
  <2> QED  BY <2>1, <2>2, Unchanged DEF Quiet, StepOf
<1> QED  BY <1>2, <1>3

LEMMA RobbersStep ==
    ASSUME PlaceInvariant, LifeInvariant, RecordsHonest, NEW w \in Workers,
           PauseAndSend(w), NEW e \in Emergencies
    PROVE  StepOf(e)
<1>1. /\ DOMAIN emergency = Emergencies /\ pc \in [Workers -> WorkerSteps]
      /\ \A x \in Emergencies : Sound(emergency[x]) /\ Honest(emergency[x])
  BY DEF LifeInvariant, RecordsSound, RecordsHonest, PlaceInvariant, LockInvariant,
         ControlTypeOK
<1> DEFINE before == [emergency EXCEPT ![Victim(w)] = Paused(@)]
           after(s) == WithTwin(s, sent[w] + 1, NextToSend(w))
<1>2. /\ emergency'[e] \in {before[e], after(before[e]), after(emergency[e])}
      /\ e # Victim(w) => before[e] = emergency[e]
      /\ e = Victim(w) => before[e] = Paused(emergency[e])
  <2>1. emergency' = [emergency EXCEPT ![Victim(w)] = Paused(@), ![node[w]] = after(@)]
    BY DEF PauseAndSend, Victim
  <2> HIDE DEF after
  <2> QED  BY <1>1, <2>1
<1> HIDE DEF before
<1>3. Sound(before[e]) /\ Honest(before[e])
  <2>1. Sound(emergency[e]) /\ Honest(emergency[e])
    BY <1>1
  <2>2. NewsChange(emergency[e], Paused(emergency[e]))
    BY <2>1, HonestRecords
  <2>3. Sound(Paused(emergency[e]))
    BY <2>1, WorkerRecordsSound DEF Follows
  <2> QED  BY <1>2, <2>1, <2>2, <2>3 DEF NewsChange
<1>4. ASSUME NEW s, Sound(s), Honest(s)
      PROVE  /\ SilentChange(s, s) /\ SilentChange(s, after(s))
             /\ after(s).status = s.status
  <2>1. \A i, t : SilentChange(s, WithTwin(s, i, t)) /\ WithTwin(s, i, t).status = s.status
    BY <1>4, HonestRecords
  <2>2. SilentChange(s, s)
    BY <1>4, HonestRecords
  <2> QED  BY <2>1, <2>2
<1> HIDE DEF after
<1>5. CASE before[e] = emergency[e]
  <2>1. SilentChange(emergency[e], emergency'[e]) /\ emergency'[e].status = emergency[e].status
    BY <1>1, <1>2, <1>4, <1>5
  <2> QED  BY <2>1 DEF Quiet, StepOf
<1>6. CASE emergency'[e] = after(emergency[e])
  BY <1>1, <1>4, <1>6 DEF Quiet, StepOf
<1>7. CASE before[e] # emergency[e] /\ emergency'[e] \in {before[e], after(before[e])}
  <2>1. e = Victim(w) /\ before[e] = Paused(emergency[e]) /\ emergency[e].status # "PAUSED"
    BY <1>2, <1>7 DEF Paused
  <2>2. NewsChange(emergency[e], before[e]) /\ before[e].status = "PAUSED"
    <3>1. Sound(emergency[e]) /\ Honest(emergency[e])
      BY <1>1
    <3> QED  BY <2>1, <3>1, HonestRecords
  <2>3. SilentChange(before[e], emergency'[e]) /\ emergency'[e].status = "PAUSED"
    BY <1>3, <1>4, <1>7, <2>2
  <2>4. NewsChange(emergency[e], emergency'[e])
    BY <2>2, <2>3 DEF NewsChange, SilentChange, Fresh, Attended
  <2>5. pc[w] = "steal" /\ pc' = [SignalNode(e) EXCEPT ![w] = "search"]
    BY <2>1 DEF PauseAndSend, Victim
  <2>6. \A u \in Workers : node[u] = e => pc'[u] \notin Waits
    BY <2>5 DEF SignalNode, WokenFrom, Waits
  <2> QED  BY <2>1, <2>3, <2>4, <2>5, <2>6 DEF Robbed, Noticed, StepOf
<1> QED  BY <1>2, <1>5, <1>6, <1>7

(* Steps of the updater *)
LEMMA UpdatersStep ==
    ASSUME PlaceInvariant, LifeInvariant, RecordsHonest,
           UpdateWorkingNode \/ UpdateWaitingNode \/ CancelNode, NEW e \in Emergencies
    PROVE  StepOf(e)
<1> DEFINE x == Head(todo)
<1>1. /\ DOMAIN emergency = Emergencies
      /\ \A y \in Emergencies : Sound(emergency[y]) /\ Honest(emergency[y])
  BY DEF LifeInvariant, RecordsSound, RecordsHonest
<1>2. updater \in Scanning /\ todo # <<>>
  BY DEF UpdateWorkingNode, UpdateWaitingNode, CancelNode, Scanning
<1>3. CASE e # x
  <2>1. emergency'[e] = emergency[e]
    BY <1>1, <1>3 DEF UpdateWorkingNode, UpdateWaitingNode, CancelNode, WithStatus
  <2> QED  BY <2>1, Unchanged
<1>4. CASE e = x
  <2>1. Sound(emergency[e]) /\ Honest(emergency[e])
    BY <1>1
  <2>2. e \in Nodes(ScannedQueue)
    BY <1>2, <1>4, HeadIsScanned
  <2>3. CASE UpdateWorkingNode
    <3> DEFINE r == UpdatedWorking(e)
    <3>1. /\ emergency'[e] = WithPromotion(r) /\ updater = "updateWorking"
          /\ pc' = IF Signals(e) THEN SignalNode(e) ELSE pc
      BY <1>1, <1>4, <2>3 DEF UpdateWorkingNode
    <3>2. Here(e)
      BY <2>2, <3>1 DEF ScannedQueue, Here, Working
    <3>3. /\ NewsChange(emergency[e], r)
          /\ ~Signals(e) => SilentChange(emergency[e], r)
          /\ Sound(r)
      BY <2>1, HonestWorking, WorkingSound DEF Follows
    <3>4. SilentChange(r, emergency'[e]) /\ emergency'[e].status = r.status
      BY <3>1, <3>3, HonestPromotion DEF NewsChange
    <3> HIDE DEF r
    <3>5. CASE Signals(e)
      <4>1. \A w \in Workers : node[w] = e => pc'[w] \notin Waits
        BY <3>1, <3>5 DEF SignalNode, WokenFrom, Waits
      <4>2. NewsChange(emergency[e], emergency'[e])
        BY <3>3, <3>4 DEF NewsChange, SilentChange, Fresh, Attended
      <4> QED  BY <3>1, <3>2, <4>1, <4>2 DEF Noticed, StepOf
    <3>6. CASE ~Signals(e)
      BY <3>2, <3>3, <3>4, <3>6 DEF SilentChange, Quiet, StepOf
    <3> QED  BY <3>5, <3>6
  <2>4. CASE UpdateWaitingNode
    <3> DEFINE r == UpdatedWaiting(e)
    <3>1. emergency'[e] = WithPromotion(r) /\ updater = "updateWaiting"
      BY <1>1, <1>4, <2>4 DEF UpdateWaitingNode
    <3>2. Here(e)
      BY <2>2, <3>1 DEF ScannedQueue, Here, Waiting
    <3>3. SilentChange(emergency[e], r) /\ Sound(r)
      BY <2>1, HonestWaiting, WaitingSound DEF Follows
    <3>4. SilentChange(r, emergency'[e])
      BY <3>1, <3>3, HonestPromotion DEF SilentChange
    <3> HIDE DEF r
    <3> QED  BY <3>2, <3>3, <3>4 DEF SilentChange, Quiet, StepOf
  <2>5. CASE CancelNode
    <3>1. /\ emergency'[e] = [emergency[e] EXCEPT !.status = "CANCELED"]
          /\ pc' = SignalNode(e) /\ updater = "cancelling"
      BY <1>1, <1>4, <2>5 DEF CancelNode, WithStatus
    <3>2. Here(e)
      BY <2>2, <3>1 DEF ScannedQueue, Here, Working
    <3>3. NewsChange(emergency[e], [emergency[e] EXCEPT !.status = "CANCELED"])
      BY <2>1, HonestRecords
    <3>4. emergency'[e].status = "CANCELED"
      BY <2>1, <3>1 DEF Sound, Detailed, Known
    <3>5. \A w \in Workers : node[w] = e => pc'[w] \notin Waits
      BY <3>1 DEF SignalNode, WokenFrom, Waits
    <3> QED  BY <3>1, <3>2, <3>3, <3>4, <3>5 DEF Noticed, StepOf
  <2> QED  BY <2>3, <2>4, <2>5
<1> QED  BY <1>3, <1>4

LEMMA EveryStep ==
    PlaceInvariant /\ LifeInvariant /\ WaitInvariant /\ [Next]_vars
      => \A e \in Emergencies : StepOf(e)
<1> SUFFICES ASSUME PlaceInvariant, LifeInvariant, WaitInvariant, [Next]_vars,
                    NEW e \in Emergencies
             PROVE  StepOf(e)
  OBVIOUS
<1>1. RecordsHonest /\ FreshUntilSent
  BY DEF WaitInvariant
<1>2. emergency' = emergency => StepOf(e)
  BY <1>1, Unchanged
<1>3. ASSUME NEW w \in Workers, WorkerStep(w) \/ SpuriousWakeup(w) PROVE StepOf(e)
  <2>1. CASE BeginSearch(w) \/ SearchEnds(w) \/ BeginProcessing(w)
    BY <1>1, <2>1, HandlersStep
  <2>2. CASE SearchFails(w) \/ SendFree(w)
    BY <1>1, <2>2, SearchersStep
  <2>3. CASE PauseAndSend(w)
    BY <1>1, <2>3, RobbersStep
  <2>4. CASE \/ CheckStop(w) \/ WaitForWork(w) \/ TakeNode(w) \/ EnqueueWorking(w)
             \/ SearchRescuers(w) \/ (\E x \in Emergencies : ProbeNode(w, x))
             \/ RetrySearch(w) \/ DecideToSteal(w)
    BY <1>2, <2>4 DEF CheckStop, WaitForWork, TakeNode, EnqueueWorking, SearchRescuers,
                      ProbeNode, RetrySearch, DecideToSteal, dataVars
  <2>5. CASE \/ GiveUpArrival(w) \/ EndProcessing(w) \/ WaitAgain(w) \/ Complete(w)
             \/ Cancel(w) \/ PauseLockWaiting(w) \/ Pause(w) \/ RecheckCanceled(w)
             \/ SpuriousWakeup(w)
    BY <1>2, <2>5 DEF GiveUpArrival, EndProcessing, ResumeWith, WaitAgain, Complete,
                      Cancel, PauseLockWaiting, Pause, RecheckCanceled, SpuriousWakeup,
                      dataVars
  <2> QED  BY <1>3, <2>1, <2>2, <2>3, <2>4, <2>5 DEF WorkerStep, SearchStep
<1>4. CASE UpdateWorkingNode \/ UpdateWaitingNode \/ CancelNode
  BY <1>1, <1>4, UpdatersStep
<1>5. CASE CheckUpdater \/ TakeTick \/ UpdaterLockRescuers \/ UpdaterLockWaiting
           \/ UpdateRescuers
  BY <1>2, <1>5 DEF CheckUpdater, TakeTick, UpdaterLockRescuers, UpdaterLockWaiting,
                    UpdateRescuers, dataVars
<1>6. CASE ScanWaiting \/ EndUpdate \/ BeginCancelAll \/ EndCancelAll
  BY <1>2, <1>6 DEF ScanWaiting, EndUpdate, BeginCancelAll, EndCancelAll, dataVars
<1>7. CASE \/ ReceiveStop \/ CloseServer \/ ClockStep \/ UNCHANGED vars
           \/ \E x \in Emergencies : ReceiveRequest(x)
  BY <1>2, <1>7 DEF ReceiveStop, CloseServer, ClockStep, Tick, StopClock, ReceiveRequest,
                    vars, dataVars
<1> QED  BY <1>3, <1>4, <1>5, <1>6, <1>7 DEF Next, UpdaterStep

LEMMA NextHonest ==
    PlaceInvariant /\ LifeInvariant /\ WaitInvariant /\ [Next]_vars => RecordsHonest'
<1> SUFFICES ASSUME PlaceInvariant, LifeInvariant, WaitInvariant, [Next]_vars,
                    NEW e \in Emergencies
             PROVE  Honest(emergency[e])'
  BY DEF RecordsHonest
<1>1. StepOf(e)
  BY EveryStep
<1>2. Honest(emergency'[e])
  BY <1>1 DEF StepOf, Quiet, SilentChange, Noticed, NewsChange, Handled, Taken,
              SearchedFor, Begun
<1> QED  BY <1>2

--------------------------------------------------------------------------------
(* Who moves *)

Woken == {"arriveWoken", "finishWoken", "lockWaiting"}

(* A worker that does not step may only be woken. *)
LEMMA OnlySignalsReach ==
    ASSUME pc \in [Workers -> WorkerSteps], node \in [Workers -> Emergencies \cup {None}],
           [Next]_vars, NEW u \in Workers, ~(WorkerStep(u) \/ SpuriousWakeup(u))
    PROVE  node'[u] = node[u] /\ pc'[u] \in {pc[u]} \cup Woken
<1>1. \A e : SignalNode(e)[u] \in {pc[u]} \cup Woken /\ DOMAIN SignalNode(e) = Workers
  BY DEF SignalNode, WokenFrom, Woken
<1>2. SignalNotEmpty => pc'[u] \in {pc[u]} \cup Woken
  BY DEF SignalNotEmpty, Asleep, Woken
<1>3. ASSUME NEW w \in Workers, w # u, WorkerStep(w) \/ SpuriousWakeup(w)
      PROVE  node'[u] = node[u] /\ pc'[u] \in {pc[u]} \cup Woken
  <2>1. CASE \/ CheckStop(w) \/ WaitForWork(w) \/ TakeNode(w) \/ EnqueueWorking(w)
             \/ BeginSearch(w) \/ BeginProcessing(w) \/ WaitAgain(w) \/ SpuriousWakeup(w)
    BY <1>3, <2>1 DEF CheckStop, WaitForWork, TakeNode, EnqueueWorking, BeginSearch,
                      BeginProcessing, WaitAgain, SpuriousWakeup
  <2>2. CASE \/ SearchRescuers(w) \/ (\E e \in Emergencies : ProbeNode(w, e))
             \/ SearchFails(w) \/ SendFree(w) \/ DecideToSteal(w) \/ SearchEnds(w)
             \/ RetrySearch(w)
    BY <1>3, <2>2 DEF SearchRescuers, ProbeNode, SearchFails, SendFree, DecideToSteal,
                      SearchEnds, RetrySearch
  <2>3. CASE \/ GiveUpArrival(w) \/ EndProcessing(w) \/ Complete(w) \/ Cancel(w)
             \/ PauseLockWaiting(w) \/ Pause(w) \/ RecheckCanceled(w)
    BY <1>3, <2>3 DEF GiveUpArrival, EndProcessing, ResumeWith, Complete, Cancel,
                      PauseLockWaiting, Pause, RecheckCanceled
  <2>4. CASE PauseAndSend(w)
    <3>1. /\ node' = node
          /\ \E p \in {pc, SignalNode(Victim(w))} : pc' = [p EXCEPT ![w] = "search"]
      BY <2>4 DEF PauseAndSend, Victim
    <3> QED  BY <1>1, <1>3, <3>1
  <2> QED  BY <1>3, <2>1, <2>2, <2>3, <2>4 DEF WorkerStep, SearchStep
<1>4. CASE OtherStep \/ (\E e \in Emergencies : ReceiveRequest(e)) \/ UNCHANGED vars
  <2>1. node' = node /\ (pc' = pc \/ SignalNotEmpty \/ \E e : pc' = SignalNode(e))
    BY <1>4, OthersOnlySignal
  <2> QED  BY <1>1, <1>2, <2>1
<1> QED  BY <1>3, <1>4 DEF Next, OtherStep

(* A robber goes on with its search. *)
LEMMA RobberGoesOn ==
    ASSUME pc \in [Workers -> WorkerSteps], NEW w \in Workers, PauseAndSend(w)
    PROVE  pc'[w] = "search"
<1>1. \A e : DOMAIN SignalNode(e) = Workers
  BY DEF SignalNode
<1>2. \E p \in {pc, SignalNode(Victim(w))} : pc' = [p EXCEPT ![w] = "search"]
  BY DEF PauseAndSend, Victim
<1> QED  BY <1>1, <1>2

(* A search begins with what was just taken from the waiting queue. *)
LEMMA SearchesBegin ==
    ASSUME PlaceInvariant, [Next]_vars, NEW w \in Workers, pc'[w] \in BeforeSending
    PROVE  node'[w] = node[w] /\ pc[w] \in BeforeSending \cup {"lockWorking"}
<1>1. /\ pc \in [Workers -> WorkerSteps] /\ node \in [Workers -> Emergencies \cup {None}]
  BY DEF PlaceInvariant, LockInvariant, ControlTypeOK, DataTypeOK
<1>2. CASE ~(WorkerStep(w) \/ SpuriousWakeup(w))
  BY <1>1, <1>2, OnlySignalsReach DEF Woken, BeforeSending
<1> USE DEF BeforeSending
<1>3. CASE \/ CheckStop(w) \/ WaitForWork(w) \/ TakeNode(w) \/ EnqueueWorking(w)
           \/ BeginSearch(w) \/ BeginProcessing(w) \/ WaitAgain(w) \/ SpuriousWakeup(w)
  BY <1>1, <1>3 DEF CheckStop, WaitForWork, TakeNode, EnqueueWorking, BeginSearch,
                    BeginProcessing, WaitAgain, SpuriousWakeup, WokenFrom
<1>4. CASE SearchStep(w)
  BY <1>1, <1>4 DEF SearchStep, SearchRescuers, ProbeNode, SearchFails, SendFree,
                    DecideToSteal, SearchEnds, RetrySearch, PauseAndSend, Sending
<1>5. CASE \/ GiveUpArrival(w) \/ EndProcessing(w) \/ Complete(w) \/ Cancel(w)
           \/ PauseLockWaiting(w) \/ Pause(w) \/ RecheckCanceled(w)
  BY <1>1, <1>5 DEF GiveUpArrival, EndProcessing, ResumeWith, AfterWait, Complete, Cancel,
                    PauseLockWaiting, Pause, RecheckCanceled
<1> QED  BY <1>2, <1>3, <1>4, <1>5 DEF WorkerStep

LEMMA NotStartedYet ==
    ASSUME PlaceInvariant, NEW w \in Workers, pc[w] = "lockWorking"
    PROVE  node[w] \notin Started
<1>1. node[w] \in Emergencies => node[w] \in Transit
  BY DEF Transit
<1>2. Started \subseteq Emergencies
  BY DEF PlaceInvariant, PlacesApart, DataTypeOK, Started
<1> QED  BY <1>1, <1>2 DEF PlaceInvariant, PlacesApart, Started

LEMMA SentStays ==
    ASSUME PlaceInvariant, [Next]_vars, NEW e, Sent(e)
    PROVE  Sent(e)'
<1>1. e \in Started'
  BY StartedGrows DEF Sent
<1>2. ASSUME NEW w \in Workers, pc'[w] \in BeforeSending PROVE node'[w] # e
  <2>1. node'[w] = node[w] /\ pc[w] \in BeforeSending \cup {"lockWorking"}
    BY <1>2, SearchesBegin
  <2>2. pc[w] = "lockWorking" => node[w] # e
    BY NotStartedYet DEF Sent
  <2> QED  BY <2>1, <2>2 DEF Sent
<1> QED  BY <1>1, <1>2 DEF Sent

LEMMA NextFresh ==
    PlaceInvariant /\ LifeInvariant /\ WaitInvariant /\ [Next]_vars => FreshUntilSent'
<1> SUFFICES ASSUME PlaceInvariant, LifeInvariant, WaitInvariant, [Next]_vars,
                    NEW e \in Emergencies
             PROVE  Fresh(emergency'[e]) \/ Sent(e)'
  BY DEF FreshUntilSent
<1>1. StepOf(e)
  BY EveryStep
<1>2. CASE Sent(e)
  BY <1>2, SentStays
<1>3. CASE Fresh(emergency[e]) /\ (Quiet(e) \/ Noticed(e))
  BY <1>3 DEF Quiet, SilentChange, Noticed, NewsChange, Fresh, Attended
<1>4. CASE Fresh(emergency[e]) /\ Handled(e)
  <2>1. PICK w \in Workers :
           /\ node[w] = e /\ node'[w] = e /\ e \in Working
           /\ \A u \in Workers : u # w => node[u] # e \/ pc[u] \notin Handling
           /\ Taken(w) \/ SearchedFor(w) \/ Begun(w)
    BY <1>4 DEF Handled
  <2>2. CASE Taken(w) \/ Begun(w)
    BY <1>4, <2>1, <2>2 DEF Taken, Begun, NewsChange, Fresh
  <2>3. CASE SearchedFor(w)
    <3>1. e \in Started /\ e \in Started'
      BY <2>1, StartedGrows DEF Started
    <3>2. ASSUME NEW u \in Workers, pc'[u] \in BeforeSending PROVE node'[u] # e
      <4>1. u # w
        BY <2>3, <3>2 DEF SearchedFor, BeforeSending
      <4>2. node'[u] = node[u] /\ pc[u] \in BeforeSending \cup {"lockWorking"}
        BY <3>2, SearchesBegin
      <4>3. pc[u] = "lockWorking" => node[u] # e
        BY <3>1, NotStartedYet
      <4> QED  BY <2>1, <4>1, <4>2, <4>3 DEF BeforeSending, Handling
    <3> QED  BY <3>1, <3>2 DEF Sent
  <2> QED  BY <2>1, <2>2, <2>3
<1> QED  BY <1>1, <1>2, <1>3, <1>4 DEF StepOf, WaitInvariant, FreshUntilSent

LEMMA NextWakeups ==
    PlaceInvariant /\ LifeInvariant /\ WaitInvariant /\ [Next]_vars => NoWakeupIsLost'
<1> DEFINE OK(w) == /\ pc[w] = "arriveWait" =>
                          /\ ~emergency[node[w]].rescuers_have_arrived
                          /\ emergency[node[w]].status \notin {"PAUSED", "CANCELED"}
                    /\ pc[w] = "finishWait" =>
                          emergency[node[w]].status \notin {"COMPLETED", "PAUSED", "CANCELED"}
<1> SUFFICES ASSUME PlaceInvariant, LifeInvariant, WaitInvariant, [Next]_vars,
                    NEW u \in Workers, pc'[u] \in Waits
             PROVE  OK(u)'
  BY DEF NoWakeupIsLost, Waits
<1>1. /\ pc \in [Workers -> WorkerSteps] /\ node \in [Workers -> Emergencies \cup {None}]
  BY DEF PlaceInvariant, LockInvariant, ControlTypeOK, DataTypeOK
<1>2. CASE ~(WorkerStep(u) \/ SpuriousWakeup(u))
  <2>1. node'[u] = node[u] /\ pc'[u] = pc[u] /\ pc[u] \in Handling
    BY <1>1, <1>2, OnlySignalsReach DEF Woken, Waits, Handling
  <2>2. node[u] \in Emergencies /\ OK(u)
    BY <2>1, OwnSteps DEF WaitInvariant, NoWakeupIsLost
  <2>3. StepOf(node[u])
    BY <2>2, EveryStep
  <2>4. ~Handled(node[u])
    <3>1. ASSUME NEW w \in Workers, node[w] = node[u],
                 \A x \in Workers : x # w => node[x] # node[u] \/ pc[x] \notin Handling
          PROVE  w = u
      BY <2>1, <3>1
    <3> QED  BY <2>1, <3>1 DEF Handled, Taken, SearchedFor, Begun, Waits
  <2>5. Quiet(node[u])
    BY <2>1, <2>3, <2>4 DEF StepOf, Noticed
  <2> QED  BY <2>1, <2>2, <2>5 DEF Quiet, SilentChange
<1>3. CASE SearchEnds(u)
  <2>1. pc[u] \in Handling /\ pc[u] \in BeforeSending /\ node' = node
    BY <1>3 DEF SearchEnds, Sending, Handling, BeforeSending
  <2>2. node[u] \in Emergencies /\ SearchedFor(u)
    BY <1>3, <2>1, OwnSteps DEF WaitInvariant
  <2>3. Fresh(emergency[node[u]])
    BY <2>1, <2>2 DEF WaitInvariant, FreshUntilSent, Sent
  <2> QED  BY <2>1, <2>2, <2>3 DEF SearchedFor, Fresh
<1>4. CASE BeginProcessing(u)
  <2>1. pc[u] \in Handling /\ node' = node
    BY <1>4 DEF BeginProcessing, Handling
  <2>2. Begun(u)
    BY <1>4, <2>1, OwnSteps DEF WaitInvariant
  <2> QED  BY <2>1, <2>2 DEF Begun
<1>5. CASE WaitAgain(u)
  BY <1>1, <1>5 DEF WaitAgain, dataVars
<1> USE DEF Waits
<1>6. CASE \/ CheckStop(u) \/ WaitForWork(u) \/ TakeNode(u) \/ EnqueueWorking(u)
           \/ BeginSearch(u) \/ SpuriousWakeup(u)
  BY <1>1, <1>6 DEF CheckStop, WaitForWork, TakeNode, EnqueueWorking, BeginSearch,
                    SpuriousWakeup, WokenFrom
<1>7. CASE \/ SearchRescuers(u) \/ (\E e \in Emergencies : ProbeNode(u, e))
           \/ SearchFails(u) \/ RetrySearch(u) \/ SendFree(u) \/ DecideToSteal(u)
  BY <1>1, <1>7 DEF SearchRescuers, ProbeNode, SearchFails, SendFree, DecideToSteal,
                    RetrySearch, Sending
<1>8. CASE PauseAndSend(u)
  BY <1>1, <1>8, RobberGoesOn
<1>9. CASE \/ GiveUpArrival(u) \/ EndProcessing(u) \/ Complete(u) \/ Cancel(u)
           \/ PauseLockWaiting(u) \/ Pause(u) \/ RecheckCanceled(u)
  BY <1>1, <1>9 DEF GiveUpArrival, EndProcessing, ResumeWith, AfterWait, Complete, Cancel,
                    PauseLockWaiting, Pause, RecheckCanceled
<1> QED  BY <1>2, <1>3, <1>4, <1>5, <1>6, <1>7, <1>8, <1>9 DEF WorkerStep, SearchStep

--------------------------------------------------------------------------------
(* Robberies and archives *)

(* While a worker searches, nobody else sends rescuers or moves them. *)
LEMMA SearcherIsAlone ==
    ASSUME PlaceInvariant, [Next]_vars, NEW u \in Workers, pc[u] \in HoldsRescuers,
           ~(WorkerStep(u) \/ SpuriousWakeup(u))
    PROVE  UNCHANGED <<searchVars, twin>>
<1>1. /\ rescuers_mutex = u /\ rescuers_mutex # None /\ rescuers_mutex # Updater
      /\ \A w \in Workers : pc[w] \in HoldsRescuers => w = u
      /\ updater \notin UpdaterHoldsRescuers
  BY ThreadsAssumption DEF PlaceInvariant, LockInvariant, QueueMutexDiscipline
<1> USE DEF searchVars, dataVars
<1>2. ASSUME NEW w \in Workers, w # u, WorkerStep(w) \/ SpuriousWakeup(w)
      PROVE  UNCHANGED <<searchVars, twin>>
  <2>1. pc[w] \notin {"search", "steal"}
    BY <1>1, <1>2 DEF HoldsRescuers
  <2>2. CASE \/ CheckStop(w) \/ WaitForWork(w) \/ TakeNode(w) \/ EnqueueWorking(w)
             \/ BeginSearch(w) \/ BeginProcessing(w) \/ WaitAgain(w) \/ SpuriousWakeup(w)
    BY <2>2 DEF CheckStop, WaitForWork, TakeNode, EnqueueWorking, BeginSearch,
                BeginProcessing, WaitAgain, SpuriousWakeup
  <2>3. CASE SearchStep(w)
    BY <1>1, <2>1, <2>3 DEF SearchStep, SearchRescuers, ProbeNode, SearchFails, SendFree,
                            DecideToSteal, SearchEnds, RetrySearch, PauseAndSend, Sending
  <2>4. CASE \/ GiveUpArrival(w) \/ EndProcessing(w) \/ Complete(w) \/ Cancel(w)
             \/ PauseLockWaiting(w) \/ Pause(w) \/ RecheckCanceled(w)
    BY <2>4 DEF GiveUpArrival, EndProcessing, ResumeWith, Complete, Cancel,
                PauseLockWaiting, Pause, RecheckCanceled
  <2> QED  BY <1>2, <2>2, <2>3, <2>4 DEF WorkerStep
<1>3. CASE UpdaterStep
  BY <1>1, <1>3 DEF UpdaterStep, CheckUpdater, TakeTick, UpdaterLockRescuers, UpdaterLockWaiting,
                    UpdateRescuers, UpdateWorkingNode, UpdateWaitingNode, ScanWaiting,
                    EndUpdate, BeginCancelAll, CancelNode, EndCancelAll, poolVars,
                    UpdaterHoldsRescuers
<1>4. CASE \/ ReceiveStop \/ CloseServer \/ ClockStep \/ UNCHANGED vars
           \/ \E e \in Emergencies : ReceiveRequest(e)
  BY <1>4 DEF ReceiveStop, CloseServer, ClockStep, Tick, StopClock, ReceiveRequest,
              vars, poolVars
<1> QED  BY <1>2, <1>3, <1>4 DEF Next

LEMMA NextRobbed ==
    PlaceInvariant /\ LifeInvariant /\ WaitInvariant /\ [Next]_vars => RobbedIsUnfinished'
<1> SUFFICES ASSUME PlaceInvariant, LifeInvariant, WaitInvariant, [Next]_vars,
                    NEW u \in Workers, NEW e \in Emergencies,
                    pc'[u] = "steal", Victim(u)' = e
             PROVE  emergency'[e].status # "COMPLETED"
  BY DEF RobbedIsUnfinished
<1>1. /\ pc \in [Workers -> WorkerSteps] /\ node \in [Workers -> Emergencies \cup {None}]
  BY DEF PlaceInvariant, LockInvariant, ControlTypeOK, DataTypeOK
<1>2. CASE ~(WorkerStep(u) \/ SpuriousWakeup(u))
  <2>1. pc[u] = "steal"
    BY <1>1, <1>2, OnlySignalsReach DEF Woken
  <2>2. UNCHANGED <<searchVars, twin>>
    BY <1>2, <2>1, SearcherIsAlone DEF HoldsRescuers
  <2>3. Victim(u) = e
    BY <2>2 DEF Victim, NextToSend, searchVars
  <2>4. emergency[e].status # "COMPLETED"
    BY <2>1, <2>3 DEF WaitInvariant, RobbedIsUnfinished
  <2>5. updater # "updateWorking"
    BY <2>1, ThreadsAssumption
    DEF PlaceInvariant, LockInvariant, QueueMutexDiscipline, HoldsRescuers, UpdaterHoldsRescuers
  <2>6. StepOf(e)
    BY EveryStep
  <2> QED  BY <2>4, <2>5, <2>6 DEF StepOf, Quiet, SilentChange, Noticed, Handled, Taken,
                                   SearchedFor, Begun
<1>3. CASE DecideToSteal(u)
  <2>1. Victim(u) = e /\ emergency' = emergency
    BY <1>3 DEF DecideToSteal, Victim, NextToSend, searchVars, dataVars
  <2> QED  BY <1>3, <2>1 DEF DecideToSteal, MustBeStolen, Victim
<1>4. CASE \/ CheckStop(u) \/ WaitForWork(u) \/ TakeNode(u) \/ EnqueueWorking(u)
           \/ BeginSearch(u) \/ BeginProcessing(u) \/ WaitAgain(u) \/ SpuriousWakeup(u)
  BY <1>1, <1>4 DEF CheckStop, WaitForWork, TakeNode, EnqueueWorking, BeginSearch,
                    BeginProcessing, WaitAgain, SpuriousWakeup, WokenFrom
<1>5. CASE \/ SearchRescuers(u) \/ (\E x \in Emergencies : ProbeNode(u, x))
           \/ SearchFails(u) \/ RetrySearch(u) \/ SendFree(u) \/ SearchEnds(u)
  BY <1>1, <1>5 DEF SearchRescuers, ProbeNode, SearchFails, SendFree, SearchEnds,
                    RetrySearch, Sending
<1>6. CASE PauseAndSend(u)
  BY <1>1, <1>6, RobberGoesOn
<1>7. CASE \/ GiveUpArrival(u) \/ EndProcessing(u) \/ Complete(u) \/ Cancel(u)
           \/ PauseLockWaiting(u) \/ Pause(u) \/ RecheckCanceled(u)
  BY <1>1, <1>7 DEF GiveUpArrival, EndProcessing, ResumeWith, AfterWait, Complete, Cancel,
                    PauseLockWaiting, Pause, RecheckCanceled
<1> QED  BY <1>2, <1>3, <1>4, <1>5, <1>6, <1>7 DEF WorkerStep, SearchStep

(* Only the ways out of the working queue fill the archives. *)
LEMMA ArchivesGrow ==
    ASSUME PlaceInvariant, [Next]_vars
    PROVE  \/ Done' = Done /\ Shelved' = Shelved
           \/ \E w \in Workers : Complete(w) \/ Cancel(w) \/ Pause(w)
<1>1. CASE OtherStep
  BY <1>1, OthersAreCalm DEF CalmLists
<1>2. CASE UNCHANGED vars \/ \E e \in Emergencies : ReceiveRequest(e)
  BY <1>2 DEF ReceiveRequest, vars, listVars, archives, Done, Shelved
<1>3. ASSUME NEW w \in Workers, WorkerStep(w) \/ SpuriousWakeup(w),
             ~(Complete(w) \/ Cancel(w) \/ Pause(w))
      PROVE  Done' = Done /\ Shelved' = Shelved
  <2>1. pc \in [Workers -> WorkerSteps]
    BY DEF PlaceInvariant, LockInvariant, ControlTypeOK
  <2>2. CASE TakeNode(w) \/ EnqueueWorking(w)
    BY <2>2 DEF TakeNode, EnqueueWorking, archives, Done, Shelved
  <2>3. CASE CalmStep(w) \/ RecheckCanceled(w)
    <3>1. UNCHANGED listVars
      BY <2>1, <2>3, WorkersAreCalm, RecheckIsCalm
    <3> QED  BY <3>1 DEF listVars, archives, Done, Shelved
  <2> QED  BY <1>3, <2>2, <2>3 DEF WorkerStep, CalmStep
<1> QED  BY <1>1, <1>2, <1>3 DEF Next, OtherStep

(* What is archived is paused at most, and only in the list of the canceled. *)
LEMMA ArchivedIsKept ==
    ASSUME PlaceInvariant, LifeInvariant, WaitInvariant, [Next]_vars, NEW e \in Emergencies
    PROVE  /\ e \in Done => emergency'[e].status = "COMPLETED"
           /\ e \in Shelved => emergency'[e].status \in {"CANCELED", "PAUSED"}
<1> SUFFICES ASSUME e \in Done \cup Shelved
             PROVE  /\ e \in Done => emergency'[e].status = "COMPLETED"
                    /\ e \in Shelved => emergency'[e].status \in {"CANCELED", "PAUSED"}
  OBVIOUS
<1>1. ~Here(e) /\ e \notin Working
  BY DEF PlaceInvariant, PlacesApart, Here
<1>2. /\ e \in Done => emergency[e].status = "COMPLETED"
      /\ e \in Shelved => emergency[e].status \in {"CANCELED", "PAUSED"}
  BY DEF WaitInvariant, ArchivesTellStatus, Done, Shelved
<1>3. StepOf(e) /\ ~Handled(e)
  BY <1>1, EveryStep DEF Handled
<1>4. CASE Quiet(e)
  BY <1>1, <1>2, <1>4 DEF Quiet
<1>5. CASE Noticed(e)
  <2>1. Robbed(e)
    BY <1>1, <1>5 DEF Noticed
  <2>2. emergency[e].status # "COMPLETED"
    BY <2>1 DEF Robbed, WaitInvariant, RobbedIsUnfinished
  <2> QED  BY <1>2, <2>1, <2>2 DEF Robbed
<1> QED  BY <1>3, <1>4, <1>5 DEF StepOf

LEMMA NextArchives ==
    PlaceInvariant /\ LifeInvariant /\ WaitInvariant /\ [Next]_vars => ArchivesTellStatus'
<1> SUFFICES ASSUME PlaceInvariant, LifeInvariant, WaitInvariant, [Next]_vars
             PROVE  ArchivesTellStatus'
  OBVIOUS
<1>1. Done \cup Shelved \subseteq Emergencies
  BY DEF PlaceInvariant, PlacesApart, DataTypeOK
<1>2. \A e \in Done : emergency'[e].status = "COMPLETED"
  BY <1>1, ArchivedIsKept
<1>3. \A e \in Shelved : emergency'[e].status \in {"CANCELED", "PAUSED"}
  BY <1>1, ArchivedIsKept
<1>4. CASE Done' = Done /\ Shelved' = Shelved
  BY <1>2, <1>3, <1>4 DEF ArchivesTellStatus, Done, Shelved
<1>5. ASSUME NEW w \in Workers, Complete(w) PROVE ArchivesTellStatus'
  <2>1. Done' = Done \cup {node[w]} /\ Shelved' = Shelved
    BY <1>5, LeaveLists
  <2>2. emergency'[node[w]].status = "COMPLETED"
    BY <1>5 DEF Complete, dataVars, LifeInvariant, LeavesAsTold
  <2> QED  BY <1>2, <1>3, <2>1, <2>2 DEF ArchivesTellStatus, Done, Shelved
<1>6. ASSUME NEW w \in Workers, Cancel(w) \/ Pause(w) PROVE ArchivesTellStatus'
  <2>1. Done' = Done /\ Shelved' = Shelved \cup {node[w]}
    BY <1>6, LeaveLists DEF Cancel, Pause, Complete
  <2>2. emergency'[node[w]].status \in {"CANCELED", "PAUSED"}
    BY <1>6 DEF Cancel, Pause, dataVars, LifeInvariant, LeavesAsTold, PlaceInvariant,
                PausedStays, PausedSteps
  <2> QED  BY <1>2, <1>3, <2>1, <2>2 DEF ArchivesTellStatus, Done, Shelved
<1> QED  BY <1>4, <1>5, <1>6, ArchivesGrow

--------------------------------------------------------------------------------
(* The theorems *)

LEMMA InitWaits == Init => WaitInvariant
<1> SUFFICES ASSUME Init PROVE WaitInvariant
  OBVIOUS
<1>1. /\ emergency = [e \in Emergencies |-> NewEmergency(e)]
      /\ pc = [w \in Workers |-> "check"]
      /\ completed_emergencies = <<>> /\ canceled_emergencies = <<>>
  BY DEF Init
<1>2. \A e \in Emergencies : Honest(NewEmergency(e)) /\ Fresh(NewEmergency(e))
                             /\ NewEmergency(e).status = "WAITING"
  BY DEF NewEmergency, Honest, Fresh, Attended
<1>3. ArchivesTellStatus
  BY <1>1, EmptyList DEF ArchivesTellStatus
<1>4. RecordsHonest /\ FreshUntilSent /\ NoWakeupIsLost /\ RobbedIsUnfinished
  BY <1>1, <1>2 DEF RecordsHonest, FreshUntilSent, NoWakeupIsLost, RobbedIsUnfinished
<1> QED  BY <1>3, <1>4 DEF WaitInvariant

LEMMA WaitInvariantHolds == Spec => []WaitInvariant
<1>1. Init => WaitInvariant
  BY InitWaits
<1>2. PlaceInvariant /\ LifeInvariant /\ WaitInvariant /\ [Next]_vars => WaitInvariant'
  BY NextHonest, NextFresh, NextWakeups, NextRobbed, NextArchives DEF WaitInvariant
<1> QED  BY <1>1, <1>2, LifeInvariantHolds, PTL DEF Spec

(* No worker sleeps on its node's condition when what it waits for has     *)
(* happened, whoever made it happen (handler.c 80, 94).                    *)
THEOREM NoWakeupIsEverLost == Spec => []NoWakeupIsLost
<1>1. WaitInvariant => NoWakeupIsLost
  BY DEF WaitInvariant
<1> QED  BY <1>1, WaitInvariantHolds, PTL

(* An emergency is worked on, or completed, only with all its rescuers     *)
(* found and arrived and no pause since.                                   *)
THEOREM WorkAlwaysFollowsArrival == Spec => []WorkFollowsArrival
<1>1. WaitInvariant => WorkFollowsArrival
  BY DEF WaitInvariant, RecordsHonest, Honest, Attended, WorkFollowsArrival
<1> QED  BY <1>1, WaitInvariantHolds, PTL

(* The completed list holds completed emergencies, the canceled list those *)
(* that were canceled or paused, though others may still rob them.         *)
THEOREM ArchivesAlwaysTellStatus == Spec => []ArchivesTellStatus
<1>1. WaitInvariant => ArchivesTellStatus
  BY DEF WaitInvariant
<1> QED  BY <1>1, WaitInvariantHolds, PTL

=============================================================================
