------------------------------ MODULE PlaceProofs ------------------------------
(***************************************************************************)
(* Where an emergency is and who handles it, for every pool, every set of  *)
(* emergencies and rescuers and every limit: no node is lost, doubled, in  *)
(* the wrong list or handled by two workers, the next pointer of a scan is *)
(* good, and a mutex, shared or a node's, is released by its owner only.   *)
(* At the end, the same steps as calls of the list functions.              *)
(***************************************************************************)
EXTENDS ServerProperties, SequenceTheorems, FiniteSetTheorems, TLAPS

--------------------------------------------------------------------------------
(* Locks *)

(* The typing that the lock discipline rests on: where each thread is and  *)
(* who may own a mutex.                                                    *)
ControlTypeOK ==
    /\ pc \in [Workers -> WorkerSteps]
    /\ updater \in UpdaterSteps
    /\ rescuers_mutex \in Owners
    /\ waiting_mutex \in Owners
    /\ working_mutex \in Owners

(* Inductive: a thread that takes a mutex finds it free, so that no other  *)
(* is between its lock and its unlock; one that gives it back owned it.    *)
LockInvariant == ControlTypeOK /\ QueueMutexDiscipline

(* The steps of a worker that touch no mutex but its node's, and leave no  *)
(* worker where it would hold another: all that the discipline sees.       *)
Harmless ==
    /\ UNCHANGED <<updater, rescuers_mutex, waiting_mutex, working_mutex>>
    /\ pc' \in [Workers -> WorkerSteps]
    /\ \A w \in Workers :
          /\ pc'[w] \in HoldsRescuers <=> pc[w] \in HoldsRescuers
          /\ pc'[w] = "pauseLocked" <=> pc[w] = "pauseLocked"

(* Such a step preserves the lock invariant. *)
LEMMA HarmlessStep == LockInvariant /\ Harmless => LockInvariant'
BY DEF LockInvariant, ControlTypeOK, QueueMutexDiscipline, Harmless

(* A signal on a node's condition wakes its worker: it moves no worker     *)
(* into or out of a critical section.                                      *)
LEMMA SignalNodeIsHarmless ==
    ASSUME NEW e, pc \in [Workers -> WorkerSteps]
    PROVE  /\ SignalNode(e) \in [Workers -> WorkerSteps]
           /\ \A w \in Workers :
                 /\ SignalNode(e)[w] \in HoldsRescuers <=> pc[w] \in HoldsRescuers
                 /\ SignalNode(e)[w] = "pauseLocked" <=> pc[w] = "pauseLocked"
BY DEF SignalNode, WokenFrom, WorkerSteps, HoldsRescuers

(* Nor does the signal of a queue that is not empty any more. *)
LEMMA SignalNotEmptyIsHarmless ==
    ASSUME pc \in [Workers -> WorkerSteps], SignalNotEmpty
    PROVE  /\ pc' \in [Workers -> WorkerSteps]
           /\ \A w \in Workers :
                 /\ pc'[w] \in HoldsRescuers <=> pc[w] \in HoldsRescuers
                 /\ pc'[w] = "pauseLocked" <=> pc[w] = "pauseLocked"
BY DEF SignalNotEmpty, Asleep, WorkerSteps, HoldsRescuers

--------------------------------------------------------------------------------

LEMMA InitLocks == Init => LockInvariant
BY ThreadsAssumption
   DEF Init, LockInvariant, ControlTypeOK, QueueMutexDiscipline, WorkerSteps,
       UpdaterSteps, Owners, HoldsRescuers, UpdaterHoldsRescuers,
       UpdaterHoldsWaiting, UpdaterHoldsWorking

(* What the other threads do to the pool: at most a signal. *)
LEMMA ReceiverAndClockAreHarmless ==
    ASSUME LockInvariant,
           \/ \E e \in Emergencies : ReceiveRequest(e)
           \/ ReceiveStop \/ CloseServer \/ ClockStep
    PROVE  Harmless
<1>types. pc \in [Workers -> WorkerSteps]
  BY DEF LockInvariant, ControlTypeOK
<1>1. ASSUME NEW e \in Emergencies, ReceiveRequest(e)
      PROVE  Harmless
  <2>1. UNCHANGED <<updater, rescuers_mutex, waiting_mutex, working_mutex>>
    BY <1>1 DEF ReceiveRequest, locks, queueLocks
  <2>2. CASE EnqueueSignals(waiting_queue)
    <3>1. SignalNotEmpty
      BY <1>1, <2>2 DEF ReceiveRequest
    <3> QED  BY <2>1, <3>1, <1>types, SignalNotEmptyIsHarmless DEF Harmless
  <2>3. CASE ~EnqueueSignals(waiting_queue)
    <3>1. pc' = pc
      BY <1>1, <2>3 DEF ReceiveRequest
    <3> QED  BY <2>1, <3>1, <1>types DEF Harmless
  <2> QED  BY <2>2, <2>3
<1>2. CASE ReceiveStop \/ CloseServer \/ ClockStep
  BY <1>2, <1>types
     DEF ReceiveStop, CloseServer, ClockStep, Tick, StopClock, Harmless, locks,
         queueLocks, poolVars
<1> QED  BY <1>1, <1>2

(* The steps of a worker that neither take nor give back a shared mutex *)
Unlocked(w) ==
    \/ CheckStop(w) \/ WaitForWork(w) \/ TakeNode(w) \/ EnqueueWorking(w)
    \/ BeginSearch(w) \/ (\E e \in Emergencies : ProbeNode(w, e)) \/ RetrySearch(w)
    \/ SendFree(w) \/ DecideToSteal(w) \/ PauseAndSend(w)
    \/ BeginProcessing(w) \/ GiveUpArrival(w) \/ EndProcessing(w) \/ WaitAgain(w)
    \/ Complete(w) \/ Cancel(w) \/ RecheckCanceled(w) \/ SpuriousWakeup(w)

LEMMA UnlockedIsHarmless ==
    ASSUME LockInvariant, NEW w \in Workers, Unlocked(w)
    PROVE  Harmless
<1>types. pc \in [Workers -> WorkerSteps]
  BY DEF LockInvariant, ControlTypeOK
<1> USE DEF Harmless, HoldsRescuers, WorkerSteps, OnlyWorkers, locks, queueLocks
<1>1. CASE CheckStop(w) \/ WaitForWork(w) \/ TakeNode(w) \/ EnqueueWorking(w)
  BY <1>1, <1>types DEF CheckStop, WaitForWork, TakeNode, EnqueueWorking
<1>2. CASE BeginSearch(w) \/ RetrySearch(w)
  BY <1>2, <1>types DEF BeginSearch, RetrySearch
<1>3. CASE (\E e \in Emergencies : ProbeNode(w, e)) \/ SendFree(w) \/ DecideToSteal(w)
  BY <1>3, <1>types DEF ProbeNode, SendFree, DecideToSteal, Sending
<1>4. CASE PauseAndSend(w)
  <2> DEFINE victim == twin[NextToSend(w)].node
             before == IF emergency[victim].status = "PAUSED" THEN pc
                                                              ELSE SignalNode(victim)
  <2>1. /\ pc[w] = "steal" /\ pc' = [before EXCEPT ![w] = "search"]
        /\ UNCHANGED <<updater, rescuers_mutex, waiting_mutex, working_mutex>>
    BY <1>4 DEF PauseAndSend
  <2>2. /\ before \in [Workers -> WorkerSteps]
        /\ \A u \in Workers :
              /\ before[u] \in HoldsRescuers <=> pc[u] \in HoldsRescuers
              /\ before[u] = "pauseLocked" <=> pc[u] = "pauseLocked"
    BY <1>types, SignalNodeIsHarmless
  <2> QED  BY <2>1, <2>2
<1>5. CASE BeginProcessing(w) \/ WaitAgain(w)
  BY <1>5, <1>types DEF BeginProcessing, WaitAgain
<1>6. CASE GiveUpArrival(w) \/ EndProcessing(w)
  <2>1. PICK next : /\ next \in {"pause", "cancel", "complete"}
                    /\ pc[w] \in {"arriveWoken", "finishWoken"}
                    /\ ResumeWith(w, next)
    BY <1>6 DEF GiveUpArrival, EndProcessing, AfterWait
  <2> QED  BY <2>1, <1>types DEF ResumeWith
<1>7. CASE Complete(w) \/ Cancel(w) \/ RecheckCanceled(w)
  BY <1>7, <1>types DEF Complete, Cancel, RecheckCanceled
<1>8. CASE SpuriousWakeup(w)
  BY <1>8, <1>types DEF SpuriousWakeup, WokenFrom
<1> QED  BY <1>1, <1>2, <1>3, <1>4, <1>5, <1>6, <1>7, <1>8 DEF Unlocked

(* The steps of a worker that take or give back a shared mutex: it was     *)
(* free, or the worker's own, so that no other thread's claim is touched.  *)
LEMMA WorkerLocks ==
    ASSUME LockInvariant, NEW w \in Workers,
           \/ SearchRescuers(w) \/ SearchFails(w) \/ SearchEnds(w)
           \/ PauseLockWaiting(w) \/ Pause(w)
    PROVE  LockInvariant'
<1>1. /\ ControlTypeOK /\ QueueMutexDiscipline
      /\ w # Updater /\ w # None /\ None \notin Workers /\ Updater # None
  BY ThreadsAssumption DEF LockInvariant
<1> USE <1>1 DEF LockInvariant, ControlTypeOK, QueueMutexDiscipline, Owners,
                 WorkerSteps, HoldsRescuers, OnlyWorkers, queueLocks
<1>2. CASE SearchRescuers(w)
  BY <1>2 DEF SearchRescuers
<1>3. CASE SearchFails(w)
  BY <1>3 DEF SearchFails
<1>4. CASE SearchEnds(w)
  BY <1>4 DEF SearchEnds, Sending
<1>5. CASE PauseLockWaiting(w)
  BY <1>5 DEF PauseLockWaiting
<1>6. CASE Pause(w)
  BY <1>6 DEF Pause
<1> QED  BY <1>2, <1>3, <1>4, <1>5, <1>6

(* The updater takes the three mutexes in the order rescuers, waiting,     *)
(* working, scans under them and gives them back; after a stop it takes    *)
(* the last one alone.                                                     *)
LEMMA UpdaterLocks ==
    ASSUME LockInvariant, UpdaterStep
    PROVE  LockInvariant'
<1>1. /\ ControlTypeOK /\ QueueMutexDiscipline
      /\ Updater \notin Workers /\ None \notin Workers /\ Updater # None
  BY ThreadsAssumption DEF LockInvariant
<1>2. CASE UpdateWorkingNode \/ UpdateWaitingNode \/ CancelNode
  <2>1. UNCHANGED <<updater, rescuers_mutex, waiting_mutex, working_mutex>>
    BY <1>2 DEF UpdateWorkingNode, UpdateWaitingNode, CancelNode, locks, queueLocks
  <2>2. pc' = pc \/ \E e : pc' = SignalNode(e)
    BY <1>2 DEF UpdateWorkingNode, UpdateWaitingNode, CancelNode, poolVars
  <2>3. Harmless
    BY <2>1, <2>2, <1>1, SignalNodeIsHarmless DEF Harmless, ControlTypeOK
  <2> QED  BY <2>3, HarmlessStep
<1> USE <1>1 DEF LockInvariant, ControlTypeOK, QueueMutexDiscipline, Owners,
                 UpdaterSteps, UpdaterHoldsRescuers, UpdaterHoldsWaiting,
                 UpdaterHoldsWorking, OnlyUpdater, locks, queueLocks, poolVars
<1>3. CASE CheckUpdater \/ TakeTick \/ ScanWaiting
  BY <1>3 DEF CheckUpdater, TakeTick, ScanWaiting
<1>4. CASE UpdaterLockRescuers \/ UpdaterLockWaiting
  BY <1>4 DEF UpdaterLockRescuers, UpdaterLockWaiting
<1>5. CASE UpdateRescuers
  BY <1>5 DEF UpdateRescuers
<1>6. CASE EndUpdate
  BY <1>6 DEF EndUpdate
<1>7. CASE BeginCancelAll \/ EndCancelAll
  BY <1>7 DEF BeginCancelAll, EndCancelAll
<1> QED  BY <1>2, <1>3, <1>4, <1>5, <1>6, <1>7 DEF UpdaterStep

(* Every step preserves the lock invariant. *)
LEMMA NextLocks == LockInvariant /\ [Next]_vars => LockInvariant'
<1> SUFFICES ASSUME LockInvariant, [Next]_vars PROVE LockInvariant'
  OBVIOUS
<1>1. CASE (\E e \in Emergencies : ReceiveRequest(e)) \/ ReceiveStop \/ CloseServer
           \/ ClockStep
  BY <1>1, ReceiverAndClockAreHarmless, HarmlessStep
<1>2. CASE UpdaterStep
  BY <1>2, UpdaterLocks
<1>3. ASSUME NEW w \in Workers, WorkerStep(w) \/ SpuriousWakeup(w)
      PROVE  LockInvariant'
  <2>1. \/ Unlocked(w)
        \/ SearchRescuers(w) \/ SearchFails(w) \/ SearchEnds(w)
        \/ PauseLockWaiting(w) \/ Pause(w)
    BY <1>3 DEF WorkerStep, SearchStep, Unlocked
  <2> QED  BY <2>1, UnlockedIsHarmless, HarmlessStep, WorkerLocks
<1>4. CASE UNCHANGED vars
  <2>1. UNCHANGED <<pc, updater, rescuers_mutex, waiting_mutex, working_mutex>>
    BY <1>4 DEF vars, poolVars, locks, queueLocks
  <2> QED  BY <2>1 DEF LockInvariant, ControlTypeOK, QueueMutexDiscipline
<1> QED  BY <1>1, <1>2, <1>3, <1>4 DEF Next

(* Whatever the pool and the load, a shared mutex is owned exactly between *)
(* the lock and the unlock of the code (handler.c 58-60, 113-122,          *)
(* updater.c 22-38, 268-282).                                              *)
THEOREM LocksAreDisciplined == Spec => []QueueMutexDiscipline
<1>1. Init => LockInvariant
  BY InitLocks
<1>2. LockInvariant /\ [Next]_vars => LockInvariant'
  BY NextLocks
<1>3. LockInvariant => QueueMutexDiscipline
  BY DEF LockInvariant
<1> QED  BY <1>1, <1>2, <1>3, PTL DEF Spec

--------------------------------------------------------------------------------
(* Lists *)

(* A list never holds a node twice. *)
NodeLists == {s \in Seq(Emergencies) : IsInjective(s)}

QueueOK(q) == q \in [lists : [Priorities -> NodeLists], is_empty : BOOLEAN]

Level(q, p) == ToSet(q.lists[p])

--------------------------------------------------------------------------------
(* What the operations on lists and queues do to the nodes in them. *)

LEMMA EmptyList == <<>> \in NodeLists /\ ToSet(<<>>) = {}
BY DEF NodeLists, IsInjective, ToSet

LEMMA RemoveFromList ==
    ASSUME NEW s \in NodeLists, NEW e
    PROVE  /\ RemoveFirst(s, e) \in NodeLists
           /\ ToSet(RemoveFirst(s, e)) = ToSet(s) \ {e}
<1> DEFINE r == RemoveFirst(s, e)
<1>1. s \in Seq(Emergencies) /\ IsInjective(s) /\ DOMAIN s = 1 .. Len(s) /\ Len(s) \in Nat
  BY DEF NodeLists
<1>2. CASE ~\E i \in 1 .. Len(s) : s[i] = e
  <2>1. r = s
    BY <1>2 DEF RemoveFirst
  <2> QED  BY <1>1, <1>2, <2>1 DEF ToSet
<1>3. CASE \E i \in 1 .. Len(s) : s[i] = e
  <2>1. PICK k \in 1 .. Len(s) : s[k] = e
    BY <1>3
  <2>2. {i \in 1 .. Len(s) : s[i] = e} = {k}
    BY <1>1, <2>1 DEF IsInjective
  <2>3. Min({k}) = k
    BY <2>1 DEF Min
  <2>4. SelectInSeq(s, LAMBDA v : v = e) = k
    <3>1. {i \in 1 .. Len(s) : s[i] = e} # {}
      BY <2>2
    <3> QED  BY <2>2, <2>3, <3>1, Zenon DEF SelectInSeq
  <2>5. r = SubSeq(s, 1, k - 1) \o SubSeq(s, k + 1, Len(s))
    BY <1>3, <2>4 DEF RemoveFirst, RemoveAt
  <2> HIDE DEF r
  <2>6. /\ r \in Seq(Emergencies) /\ Len(r) = Len(s) - 1
        /\ \A i \in 1 .. Len(r) : r[i] = IF i < k THEN s[i] ELSE s[i + 1]
    <3> DEFINE a == SubSeq(s, 1, k - 1)
               b == SubSeq(s, k + 1, Len(s))
    <3>1. /\ a \in Seq(Emergencies) /\ Len(a) = k - 1
          /\ \A i \in 1 .. k - 1 : a[i] = s[i]
      <4>1. \A i \in 1 .. k - 1 : s[i] \in Emergencies
        BY <1>1, <2>1
      <4>2. /\ a \in Seq(Emergencies)
            /\ Len(a) = IF 1 <= k - 1 THEN k - 1 - 1 + 1 ELSE 0
            /\ \A i \in 1 .. k - 1 - 1 + 1 : a[i] = s[1 + i - 1]
        BY <2>1, <4>1, SubSeqProperties
      <4> HIDE DEF a
      <4> QED  BY <2>1, <4>2
    <3>2. /\ b \in Seq(Emergencies) /\ Len(b) = Len(s) - k
          /\ \A i \in 1 .. Len(s) - k : b[i] = s[k + i]
      <4>1. \A i \in k + 1 .. Len(s) : s[i] \in Emergencies
        BY <1>1, <2>1
      <4>2. /\ b \in Seq(Emergencies)
            /\ Len(b) = IF k + 1 <= Len(s) THEN Len(s) - (k + 1) + 1 ELSE 0
            /\ \A i \in 1 .. Len(s) - (k + 1) + 1 : b[i] = s[(k + 1) + i - 1]
        BY <1>1, <2>1, <4>1, SubSeqProperties
      <4> HIDE DEF b
      <4>3. k \in Nat /\ k <= Len(s) /\ Len(s) \in Nat
        BY <1>1, <2>1
      <4>4. Len(b) = Len(s) - k
        BY <4>2, <4>3
      <4>5. ASSUME NEW i \in 1 .. Len(s) - k PROVE b[i] = s[k + i]
        <5>1. i \in 1 .. Len(s) - (k + 1) + 1 /\ (k + 1) + i - 1 = k + i
          BY <4>3
        <5> QED  BY <4>2, <5>1
      <4> QED  BY <4>2, <4>4, <4>5
    <3> HIDE DEF a, b
    <3>3. /\ a \o b \in Seq(Emergencies) /\ Len(a \o b) = Len(s) - 1
          /\ \A i \in 1 .. Len(a \o b) :
                (a \o b)[i] = IF i <= Len(a) THEN a[i] ELSE b[i - Len(a)]
      <4>1. Len(a) + Len(b) = Len(s) - 1
        BY <1>1, <2>1, <3>1, <3>2
      <4>2. /\ a \o b \in Seq(Emergencies) /\ Len(a \o b) = Len(a) + Len(b)
            /\ \A i \in 1 .. Len(a) + Len(b) :
                  (a \o b)[i] = IF i <= Len(a) THEN a[i] ELSE b[i - Len(a)]
        BY <3>1, <3>2, ConcatProperties
      <4> QED  BY <4>1, <4>2
    <3>4. r = a \o b
      BY <2>5 DEF a, b
    <3>6. r \in Seq(Emergencies) /\ Len(r) = Len(s) - 1
      BY <3>3, <3>4
    <3>5. ASSUME NEW i \in 1 .. Len(r) PROVE r[i] = IF i < k THEN s[i] ELSE s[i + 1]
      <4>1. /\ k \in Nat \ {0} /\ k <= Len(s) /\ Len(s) \in Nat
            /\ i \in Nat \ {0} /\ i <= Len(s) - 1
        BY <1>1, <2>1, <3>3, <3>4
      <4>2. r[i] = IF i <= k - 1 THEN a[i] ELSE b[i - (k - 1)]
        BY <3>1, <3>3, <3>4
      <4>3. CASE i < k
        BY <3>1, <4>1, <4>2, <4>3
      <4>4. CASE ~(i < k)
        <5>1. i - (k - 1) \in 1 .. Len(s) - k /\ k + (i - (k - 1)) = i + 1 /\ ~(i <= k - 1)
          BY <4>1, <4>4
        <5>2. b[i - (k - 1)] = s[k + (i - (k - 1))]
          BY <3>2, <5>1
        <5> QED  BY <4>2, <4>4, <5>1, <5>2
      <4> QED  BY <4>3, <4>4
    <3> QED  BY <3>5, <3>6
  <2>7. DOMAIN r = 1 .. (Len(s) - 1)
    BY <2>6
  <2>8. IsInjective(r)
    <3> SUFFICES ASSUME NEW a \in DOMAIN r, NEW b \in DOMAIN r, r[a] = r[b]
                 PROVE  a = b
      BY DEF IsInjective
    <3> DEFINE old(i) == IF i < k THEN i ELSE i + 1
    <3>1. \A i \in DOMAIN r : i \in Int /\ old(i) \in DOMAIN s /\ r[i] = s[old(i)]
      BY <1>1, <2>1, <2>6, <2>7
    <3>2. old(a) = old(b)
      BY <1>1, <3>1 DEF IsInjective
    <3> QED  BY <3>1, <3>2
  <2>9. ASSUME NEW x \in ToSet(s), x # e PROVE x \in ToSet(r)
    <3>1. PICK i \in 1 .. Len(s) : s[i] = x
      BY <1>1 DEF ToSet
    <3>2. i # k
      BY <2>1, <2>9, <3>1
    <3>3. CASE i < k
      <4>1. i \in DOMAIN r /\ r[i] = x
        BY <1>1, <2>1, <2>6, <2>7, <3>1, <3>3
      <4> QED BY <4>1 DEF ToSet
    <3>4. CASE i > k
      <4>1. i - 1 \in DOMAIN r /\ r[i - 1] = x
        BY <1>1, <2>1, <2>6, <2>7, <3>1, <3>4
      <4> QED BY <4>1 DEF ToSet
    <3> QED  BY <1>1, <2>1, <3>1, <3>2, <3>3, <3>4
  <2>10. ASSUME NEW i \in DOMAIN r PROVE r[i] \in ToSet(s) /\ r[i] # e
    <3>1. PICK j \in 1 .. Len(s) : r[i] = s[j] /\ j # k
      BY <1>1, <2>1, <2>6, <2>7
    <3> QED  BY <1>1, <2>1, <3>1 DEF ToSet, IsInjective
  <2>11. ToSet(r) = ToSet(s) \ {e}
    BY <2>9, <2>10 DEF ToSet
  <2> QED  BY <2>6, <2>8, <2>11 DEF NodeLists, r
<1> QED  BY <1>2, <1>3

LEMMA AppendToList ==
    ASSUME NEW s \in NodeLists, NEW e \in Emergencies, e \notin ToSet(s)
    PROVE  /\ Append(s, e) \in NodeLists
           /\ ToSet(Append(s, e)) = ToSet(s) \cup {e}
<1>1. s \in Seq(Emergencies) /\ IsInjective(s) /\ DOMAIN s = 1 .. Len(s) /\ Len(s) \in Nat
  BY DEF NodeLists
<1>2. /\ Append(s, e) \in Seq(Emergencies)
      /\ DOMAIN Append(s, e) = 1 .. (Len(s) + 1)
      /\ \A i \in 1 .. Len(s) : Append(s, e)[i] = s[i]
      /\ Append(s, e)[Len(s) + 1] = e
  BY <1>1
<1>3. \A i \in 1 .. Len(s) : s[i] # e
  BY <1>1 DEF ToSet
<1>4. IsInjective(Append(s, e))
  BY <1>1, <1>2, <1>3 DEF IsInjective
<1>5. ToSet(Append(s, e)) = ToSet(s) \cup {e}
  BY <1>1, <1>2 DEF ToSet
<1> QED  BY <1>2, <1>4, <1>5 DEF NodeLists

LEMMA PushToList ==
    ASSUME NEW s \in NodeLists, NEW e \in Emergencies, e \notin ToSet(s)
    PROVE  /\ <<e>> \o s \in NodeLists
           /\ ToSet(<<e>> \o s) = ToSet(s) \cup {e}
<1> DEFINE r == <<e>> \o s
<1>1. s \in Seq(Emergencies) /\ IsInjective(s) /\ DOMAIN s = 1 .. Len(s) /\ Len(s) \in Nat
  BY DEF NodeLists
<1>2. /\ r \in Seq(Emergencies)
      /\ DOMAIN r = 1 .. (Len(s) + 1)
      /\ r[1] = e
      /\ \A i \in 1 .. Len(s) : r[i + 1] = s[i]
      /\ \A i \in 2 .. Len(s) + 1 : i - 1 \in 1 .. Len(s) /\ r[i] = s[i - 1]
  BY <1>1
<1>3. \A i \in 1 .. Len(s) : s[i] # e
  BY <1>1 DEF ToSet
<1>4. \A i \in 1 .. (Len(s) + 1) : i = 1 \/ i \in 2 .. Len(s) + 1
  BY <1>1
<1>5. IsInjective(r)
  BY <1>1, <1>2, <1>3, <1>4 DEF IsInjective
<1>6. ToSet(r) = ToSet(s) \cup {e}
  <2>1. \A i \in DOMAIN r : r[i] = e \/ r[i] \in ToSet(s)
    BY <1>1, <1>2, <1>4 DEF ToSet
  <2>2. \A i \in DOMAIN s : s[i] \in ToSet(r)
    <3>1. \A i \in DOMAIN s : i + 1 \in DOMAIN r /\ r[i + 1] = s[i]
      BY <1>1, <1>2
    <3> QED  BY <3>1 DEF ToSet
  <2>3. e \in ToSet(r)
    BY <1>1, <1>2 DEF ToSet
  <2> QED  BY <2>1, <2>2, <2>3 DEF ToSet
<1> QED  BY <1>2, <1>5, <1>6 DEF NodeLists

LEMMA TailOfList ==
    ASSUME NEW s \in NodeLists, s # <<>>
    PROVE  /\ Head(s) \in ToSet(s)
           /\ Tail(s) \in NodeLists
           /\ ToSet(Tail(s)) = ToSet(s) \ {Head(s)}
<1>1. /\ s \in Seq(Emergencies) /\ IsInjective(s) /\ DOMAIN s = 1 .. Len(s)
      /\ Len(s) \in Nat \ {0} /\ Head(s) = s[1]
  BY DEF NodeLists
<1>2. /\ Tail(s) \in Seq(Emergencies)
      /\ DOMAIN Tail(s) = 1 .. (Len(s) - 1)
      /\ \A i \in 1 .. (Len(s) - 1) : Tail(s)[i] = s[i + 1]
  BY <1>1
<1>3. Head(s) \in ToSet(s)
  BY <1>1 DEF ToSet
<1>4. IsInjective(Tail(s))
  BY <1>1, <1>2 DEF IsInjective
<1>5. \A i \in DOMAIN Tail(s) : Tail(s)[i] \in ToSet(s) /\ Tail(s)[i] # Head(s)
  <2>1. \A i \in DOMAIN Tail(s) : i + 1 \in DOMAIN s /\ i + 1 # 1 /\ 1 \in DOMAIN s
    BY <1>1, <1>2
  <2> QED  BY <1>1, <1>2, <2>1 DEF ToSet, IsInjective
<1>6. \A i \in DOMAIN s : i # 1 => s[i] \in ToSet(Tail(s))
  <2>1. \A i \in DOMAIN s : i # 1 => i - 1 \in DOMAIN Tail(s) /\ s[i] = Tail(s)[i - 1]
    BY <1>1, <1>2
  <2> QED  BY <2>1 DEF ToSet
<1>7. ToSet(Tail(s)) = ToSet(s) \ {Head(s)}
  BY <1>1, <1>5, <1>6 DEF ToSet
<1> QED  BY <1>2, <1>3, <1>4, <1>7 DEF NodeLists

LEMMA NodesAreLevels ==
    ASSUME NEW q, NEW e
    PROVE  e \in Nodes(q) <=> \E p \in Priorities : e \in Level(q, p)
BY DEF Nodes, Level

LEMMA EmptyQueueOK ==
    QueueOK(EmptyQueue) /\ \A p \in Priorities : Level(EmptyQueue, p) = {}
<1>1. \A p \in Priorities : EmptyQueue.lists[p] = <<>>
  BY DEF EmptyQueue
<1> QED  BY <1>1, EmptyList DEF EmptyQueue, QueueOK, Level

(* A queue whose list at p becomes s *)
WithList(q, p, s) == [q EXCEPT !.lists[p] = s]

LEMMA NewListAt ==
    ASSUME NEW q, QueueOK(q), NEW p \in Priorities, NEW s \in NodeLists
    PROVE  /\ QueueOK(WithList(q, p, s))
           /\ Level(WithList(q, p, s), p) = ToSet(s)
           /\ \A o \in Priorities : o # p => Level(WithList(q, p, s), o) = Level(q, o)
<1>1. /\ q.lists \in [Priorities -> NodeLists]
      /\ WithList(q, p, s) \in [lists : [Priorities -> NodeLists], is_empty : BOOLEAN]
      /\ WithList(q, p, s).lists = [q.lists EXCEPT ![p] = s]
  BY DEF QueueOK, WithList
<1>2. /\ WithList(q, p, s).lists[p] = s
      /\ \A o \in Priorities : o # p => WithList(q, p, s).lists[o] = q.lists[o]
  BY <1>1
<1> QED  BY <1>1, <1>2 DEF QueueOK, Level

LEMMA RemoveNodeLevels ==
    ASSUME NEW q, QueueOK(q), NEW e
    PROVE  /\ QueueOK(RemoveNode(q, e))
           /\ \A p \in Priorities : Level(RemoveNode(q, e), p) = Level(q, p) \ {e}
<1> DEFINE r == RemoveNode(q, e)
<1>1. \A p \in Priorities : q.lists[p] \in NodeLists
  BY DEF QueueOK
<1>2. r.lists = [p \in Priorities |-> RemoveFirst(q.lists[p], e)]
  BY DEF RemoveNode, QueueOK
<1>3. \A p \in Priorities : /\ RemoveFirst(q.lists[p], e) \in NodeLists
                            /\ ToSet(RemoveFirst(q.lists[p], e)) = ToSet(q.lists[p]) \ {e}
  BY <1>1, RemoveFromList
<1>4. r.lists \in [Priorities -> NodeLists]
  BY <1>2, <1>3
<1>5. r = [lists |-> r.lists, is_empty |-> q.is_empty]
  BY DEF RemoveNode, QueueOK
<1>6. QueueOK(r)
  <2>1. q.is_empty \in BOOLEAN
    BY DEF QueueOK
  <2> HIDE DEF r
  <2> QED  BY <1>4, <1>5, <2>1 DEF QueueOK
<1>7. \A p \in Priorities : r.lists[p] = RemoveFirst(q.lists[p], e)
  BY <1>2
<1> HIDE DEF r
<1>8. \A p \in Priorities : Level(r, p) = Level(q, p) \ {e}
  BY <1>3, <1>7 DEF Level
<1> QED  BY <1>6, <1>8 DEF r

LEMMA AppendNodeLevels ==
    ASSUME NEW q, QueueOK(q), NEW p \in Priorities, NEW e \in Emergencies,
           e \notin Level(q, p)
    PROVE  /\ QueueOK(AppendNode(q, e, p))
           /\ Level(AppendNode(q, e, p), p) = Level(q, p) \cup {e}
           /\ \A o \in Priorities : o # p => Level(AppendNode(q, e, p), o) = Level(q, o)
<1>1. q.lists[p] \in NodeLists /\ e \notin ToSet(q.lists[p])
  BY DEF QueueOK, Level
<1>2. /\ Append(q.lists[p], e) \in NodeLists
      /\ ToSet(Append(q.lists[p], e)) = Level(q, p) \cup {e}
  BY <1>1, AppendToList DEF Level
<1>3. AppendNode(q, e, p) = WithList(q, p, Append(q.lists[p], e))
  BY DEF AppendNode, WithList
<1> QED  BY <1>2, <1>3, NewListAt

LEMMA EnqueueLevels ==
    ASSUME NEW q, QueueOK(q), NEW p \in Priorities, NEW e \in Emergencies,
           e \notin Level(q, p)
    PROVE  /\ QueueOK(Enqueue(q, e, p))
           /\ Level(Enqueue(q, e, p), p) = Level(q, p) \cup {e}
           /\ \A o \in Priorities : o # p => Level(Enqueue(q, e, p), o) = Level(q, o)
<1> DEFINE r == AppendNode(q, e, p)
<1>1. /\ QueueOK(r)
      /\ Level(r, p) = Level(q, p) \cup {e}
      /\ \A o \in Priorities : o # p => Level(r, o) = Level(q, o)
  BY AppendNodeLevels
<1>2. Enqueue(q, e, p) = [r EXCEPT !.is_empty = FALSE]
  BY DEF Enqueue
<1> HIDE DEF r
<1>3. QueueOK(Enqueue(q, e, p)) /\ Enqueue(q, e, p).lists = r.lists
  BY <1>1, <1>2 DEF QueueOK
<1> QED  BY <1>1, <1>3 DEF Level

(* Three priorities: one of the lists that are not empty is the highest,   *)
(* and one the lowest.                                                     *)
LEMMA HottestIsThere ==
    ASSUME NEW q, HasNode(q)
    PROVE  /\ Hottest(q) \in Priorities /\ q.lists[Hottest(q)] # <<>>
           /\ \A r \in Priorities : q.lists[r] # <<>> => r <= Hottest(q)
<1> DEFINE Is(p) == /\ q.lists[p] # <<>>
                    /\ \A r \in Priorities : q.lists[r] # <<>> => r <= p
<1>1. \E p \in Priorities : Is(p)
  BY DEF HasNode, Priorities, MIN_PRIORITY, MAX_PRIORITY
<1>2. Hottest(q) = CHOOSE p \in Priorities : Is(p)
  BY DEF Hottest
<1> HIDE DEF Is
<1>3. Hottest(q) \in Priorities /\ Is(Hottest(q))
  BY <1>1, <1>2
<1> QED  BY <1>3 DEF Is

LEMMA DequeueLevels ==
    ASSUME NEW q, QueueOK(q)
    PROVE  /\ QueueOK(Dequeue(q))
           /\ HasNode(q) =>
                 /\ Hottest(q) \in Priorities
                 /\ First(q) \in Level(q, Hottest(q))
                 /\ Level(Dequeue(q), Hottest(q)) = Level(q, Hottest(q)) \ {First(q)}
                 /\ \A o \in Priorities :
                       o # Hottest(q) => Level(Dequeue(q), o) = Level(q, o)
           /\ ~HasNode(q) => \A o \in Priorities : Level(Dequeue(q), o) = Level(q, o)
<1>1. CASE HasNode(q)
  <2> DEFINE p == Hottest(q)
  <2>1. p \in Priorities /\ q.lists[p] # <<>>
    BY <1>1, HottestIsThere
  <2> HIDE DEF p
  <2>2. q.lists[p] \in NodeLists
    BY <2>1 DEF QueueOK
  <2>3. /\ Head(q.lists[p]) \in ToSet(q.lists[p])
        /\ Tail(q.lists[p]) \in NodeLists
        /\ ToSet(Tail(q.lists[p])) = ToSet(q.lists[p]) \ {Head(q.lists[p])}
    BY <2>1, <2>2, TailOfList
  <2>4. /\ First(q) = Head(q.lists[p])
        /\ Dequeue(q) = WithList(q, p, Tail(q.lists[p]))
    BY <1>1 DEF First, Dequeue, WithList, p
  <2>5. /\ QueueOK(Dequeue(q))
        /\ Level(Dequeue(q), p) = ToSet(Tail(q.lists[p]))
        /\ \A o \in Priorities : o # p => Level(Dequeue(q), o) = Level(q, o)
    BY <2>1, <2>3, <2>4, NewListAt
  <2>6. First(q) \in Level(q, p) /\ Level(Dequeue(q), p) = Level(q, p) \ {First(q)}
    BY <2>3, <2>4, <2>5 DEF Level
  <2> QED  BY <1>1, <2>1, <2>5, <2>6 DEF p
<1>2. CASE ~HasNode(q)
  <2>1. Dequeue(q) = [q EXCEPT !.is_empty = TRUE]
    BY <1>2 DEF Dequeue
  <2>2. QueueOK(Dequeue(q)) /\ Dequeue(q).lists = q.lists
    BY <2>1 DEF QueueOK
  <2> QED  BY <1>2, <2>2 DEF Level
<1> QED  BY <1>1, <1>2

LEMMA ChangePriorityLevels ==
    ASSUME NEW q, QueueOK(q), NEW p \in Priorities, NEW e \in Emergencies
    PROVE  /\ QueueOK(ChangePriority(q, e, p))
           /\ Level(ChangePriority(q, e, p), p) = Level(q, p) \cup {e}
           /\ \A o \in Priorities :
                 o # p => Level(ChangePriority(q, e, p), o) = Level(q, o) \ {e}
<1> DEFINE r == RemoveNode(q, e)
<1>1. /\ QueueOK(r) /\ \A o \in Priorities : Level(r, o) = Level(q, o) \ {e}
  BY RemoveNodeLevels
<1>2. ChangePriority(q, e, p) = AppendNode(r, e, p)
  BY DEF ChangePriority
<1> HIDE DEF r
<1>3. /\ QueueOK(AppendNode(r, e, p))
      /\ Level(AppendNode(r, e, p), p) = Level(r, p) \cup {e}
      /\ \A o \in Priorities : o # p => Level(AppendNode(r, e, p), o) = Level(r, o)
  BY <1>1, AppendNodeLevels
<1> QED  BY <1>1, <1>2, <1>3

(* A place in a scan is a list that is not scanned twice. *)
PlaceOK(q, place) ==
    /\ place.level \in Priorities
    /\ place.todo \in NodeLists
    /\ ToSet(place.todo) \subseteq Level(q, place.level)

LEMMA UpwardsIsAPlace ==
    ASSUME NEW q, QueueOK(q), NEW from \in Int
    PROVE  PlaceOK(q, Upwards(q, from))
<1> DEFINE left == {p \in Priorities : p >= from /\ q.lists[p] # <<>>}
           Least(p) == \A r \in left : p <= r
<1>1. CASE left = {}
  <2>1. Upwards(q, from) = [level |-> MAX_PRIORITY, todo |-> <<>>]
    BY <1>1 DEF Upwards
  <2> QED  BY <2>1, EmptyList DEF PlaceOK, Priorities, MIN_PRIORITY, MAX_PRIORITY
<1>2. CASE left # {}
  <2>1. \E p \in left : Least(p)
    BY <1>2 DEF Priorities, MIN_PRIORITY, MAX_PRIORITY
  <2>2. PICK p \in left : p = CHOOSE m \in left : Least(m)
    BY <2>1
  <2>3. Upwards(q, from) = [level |-> p, todo |-> q.lists[p]]
    BY <1>2, <2>2 DEF Upwards
  <2> QED  BY <2>2, <2>3 DEF PlaceOK, Level, QueueOK
<1> QED  BY <1>1, <1>2

--------------------------------------------------------------------------------
(* What the steps do to the record of an emergency: the two fields that    *)
(* matter here, status and priority.                                       *)

Known(r) == {"status", "priority"} \subseteq DOMAIN r /\ r.priority \in Priorities

SamePriority(r, s) == Known(s) /\ s.priority = r.priority

LEMMA WorkerRecords ==
    ASSUME NEW r, Known(r)
    PROVE  /\ SamePriority(r, Assigned(r))
           /\ SamePriority(r, Paused(r)) /\ Paused(r).status = "PAUSED"
           /\ \A i, t : SamePriority(r, WithTwin(r, i, t))
                        /\ WithTwin(r, i, t).status = r.status
           /\ \A s : SamePriority(r, [r EXCEPT !.status = s])
BY DEF Known, SamePriority, Assigned, Paused, WithTwin

LEMMA AgeingRecords ==
    ASSUME NEW e \in Emergencies, Known(emergency[e])
    PROVE  /\ SamePriority(emergency[e], AgedWorking(emergency[e]))
           /\ SamePriority(emergency[e], UpdatedWorking(e))
           /\ SamePriority(emergency[e], UpdatedWaiting(e))
<1> DEFINE r == emergency[e]
           a == AgedWorking(r)
<1>1. \A s : Known(s) => SamePriority(s, AfterTimeout(s))
  BY DEF AfterTimeout, SamePriority, Known
<1>2. SamePriority(r, a)
  <2> DEFINE b == [r EXCEPT !.assigned = Older(@, CancelAge + 1),
                            !.spent = Older(@, AgeCap)]
  <2>1. SamePriority(r, b)
    BY DEF SamePriority, Known
  <2>2. a = AfterTimeout(b)
    BY DEF AgedWorking
  <2> HIDE DEF b
  <2> QED  BY <1>1, <2>1, <2>2 DEF SamePriority
<1>3. SamePriority(r, UpdatedWaiting(e))
  <2> DEFINE b == [r EXCEPT !.spent = Older(@, AgeCap)]
  <2>1. SamePriority(r, b)
    BY DEF SamePriority, Known
  <2>2. UpdatedWaiting(e) = AfterTimeout(b)
    BY DEF UpdatedWaiting
  <2> HIDE DEF b
  <2> QED  BY <1>1, <2>1, <2>2 DEF SamePriority
<1> HIDE DEF a
<1>4. \/ UpdatedWorking(e) = [a EXCEPT !.status = "CANCELED"]
      \/ UpdatedWorking(e) = [a EXCEPT !.rescuers_have_arrived = TRUE]
      \/ UpdatedWorking(e) = [a EXCEPT !.status = "COMPLETED"]
      \/ UpdatedWorking(e) = a
  BY DEF UpdatedWorking, a
<1>5. SamePriority(r, UpdatedWorking(e))
  BY <1>2, <1>4 DEF SamePriority, Known
<1> QED  BY <1>2, <1>3, <1>5 DEF a

LEMMA PromotedRecord ==
    ASSUME NEW r, Known(r)
    PROVE  /\ Known(WithPromotion(r))
           /\ WithPromotion(r).priority = IF IsPromoted(r) THEN MEDIUM_PRIORITY
                                                           ELSE r.priority
BY DEF Known, WithPromotion, IsPromoted, Priorities, MIN_PRIORITY, MEDIUM_PRIORITY,
       MAX_PRIORITY

--------------------------------------------------------------------------------
(* The invariant. *)

Busy        == Handling \cup {"lockWorking"}
PausedSteps == {"pause", "pauseLocked", "recheck"}

Waiting == Nodes(waiting_queue)
Working == Nodes(working_queue)
Done    == ToSet(completed_emergencies)
Shelved == ToSet(canceled_emergencies)
Transit == {e \in Emergencies : \E w \in Workers : pc[w] = "lockWorking" /\ node[w] = e}

DataTypeOK ==
    /\ QueueOK(waiting_queue) /\ QueueOK(working_queue)
    /\ completed_emergencies \in NodeLists /\ canceled_emergencies \in NodeLists
    /\ received \subseteq Emergencies
    /\ node \in [Workers -> Emergencies \cup {None}]
    /\ node_mutex \in [Emergencies -> Owners]
    /\ DOMAIN emergency = Emergencies
    /\ \A e \in Emergencies : Known(emergency[e])

(* The five places have no node in common, and hold what was received. *)
PlacesApart ==
    /\ Waiting \cap Working = {}
    /\ (Waiting \cup Working) \cap Done = {}
    /\ (Waiting \cup Working \cup Done) \cap Shelved = {}
    /\ (Waiting \cup Working \cup Done \cup Shelved) \cap Transit = {}
    /\ Waiting \cup Working \cup Done \cup Shelved \cup Transit = received

(* A node is in one worker's hands at a time, and the working queue holds  *)
(* the nodes that are handled.                                             *)
HandledIsWorking ==
    /\ \A w \in Workers : pc[w] \in Handling => node[w] \in Working
    /\ \A e \in Working : \E w \in Workers : pc[w] \in Handling /\ node[w] = e
    /\ \A u, w \in Workers :
          u # w /\ pc[u] \in Busy /\ pc[w] \in Busy /\ node[u] = node[w] => node[w] = None

(* A node is paused as long as its worker acts on that. *)
PausedStays ==
    \A w \in Workers : pc[w] \in PausedSteps =>
        /\ node[w] \in Emergencies /\ emergency[node[w]].status = "PAUSED"
        /\ pc[w] = "recheck" => node[w] \in Shelved

(* A list is not changed by others as long as it is scanned. *)
ScanIsAPlace ==
    updater \in Scanning => PlaceOK(ScannedQueue, [level |-> level, todo |-> todo])

PlaceInvariant ==
    /\ LockInvariant /\ DataTypeOK /\ ListsMatchPriorities /\ NodeMutexDiscipline
    /\ PlacesApart /\ HandledIsWorking /\ PausedStays /\ ScanIsAPlace

--------------------------------------------------------------------------------
(* Initially *)

LEMMA InitPlaces == Init => PlaceInvariant
<1> SUFFICES ASSUME Init PROVE PlaceInvariant
  OBVIOUS
<1>1. LockInvariant
  BY InitLocks
<1>2. /\ QueueOK(waiting_queue) /\ QueueOK(working_queue)
      /\ Waiting = {} /\ Working = {} /\ Done = {} /\ Shelved = {} /\ Transit = {}
      /\ completed_emergencies \in NodeLists /\ canceled_emergencies \in NodeLists
  <2>1. waiting_queue = EmptyQueue /\ working_queue = EmptyQueue
    BY DEF Init
  <2>2. Nodes(EmptyQueue) = {}
    BY EmptyQueueOK, NodesAreLevels
  <2>3. completed_emergencies = <<>> /\ canceled_emergencies = <<>>
    BY DEF Init
  <2>4. Transit = {}
    BY DEF Init, Transit
  <2> QED  BY <2>1, <2>2, <2>3, <2>4, EmptyQueueOK, EmptyList
           DEF Waiting, Working, Done, Shelved
<1>3. DataTypeOK
  <2>1. /\ received \subseteq Emergencies
        /\ node \in [Workers -> Emergencies \cup {None}]
        /\ node_mutex \in [Emergencies -> Owners]
        /\ emergency = [e \in Emergencies |-> NewEmergency(e)]
    BY DEF Init, Owners
  <2>2. \A e \in Emergencies : Known(NewEmergency(e))
    BY EmergenciesAssumption DEF Known, NewEmergency
  <2> QED  BY <1>2, <2>1, <2>2 DEF DataTypeOK
<1>4. ListsMatchPriorities
  <2>1. \A q \in {waiting_queue, working_queue} : q = EmptyQueue
    BY DEF Init
  <2> QED  BY <2>1, EmptyQueueOK DEF ListsMatchPriorities, Level
<1>5. NodeMutexDiscipline
  BY ThreadsAssumption DEF Init, NodeMutexDiscipline, HoldsNode
<1>6. PlacesApart
  <2>1. received = {}
    BY DEF Init
  <2> QED  BY <1>2, <2>1 DEF PlacesApart
<1>7. HandledIsWorking
  BY <1>2 DEF Init, HandledIsWorking, Handling, Busy
<1>8. PausedStays /\ ScanIsAPlace
  BY DEF Init, PausedStays, PausedSteps, ScanIsAPlace, Scanning
<1> QED  BY <1>1, <1>3, <1>4, <1>5, <1>6, <1>7, <1>8 DEF PlaceInvariant

--------------------------------------------------------------------------------
(* Places: a calm step moves no worker to or away from a node, and changes *)
(* no list.                                                                *)

CalmPool ==
    \A w \in Workers :
        /\ pc'[w] \in Handling <=> pc[w] \in Handling
        /\ pc'[w] = "lockWorking" <=> pc[w] = "lockWorking"
        /\ pc[w] \in Busy => node'[w] = node[w]

CalmLists == UNCHANGED <<received, Waiting, Working, Done, Shelved>>

PlacesOK == PlacesApart /\ HandledIsWorking

LEMMA CalmPlaces ==
    ASSUME PlacesOK, CalmPool, CalmLists
    PROVE  PlacesOK'
<1>1. Transit' = Transit
  BY DEF Transit, CalmPool, Busy
<1>2. PlacesApart'
  BY <1>1 DEF PlacesOK, PlacesApart, CalmLists
<1>3. \A w \in Workers : pc'[w] \in Busy <=> pc[w] \in Busy
  BY DEF CalmPool, Busy
<1>4. HandledIsWorking'
  BY <1>3 DEF PlacesOK, HandledIsWorking, CalmPool, CalmLists, Busy
<1> QED  BY <1>2, <1>4 DEF PlacesOK

(* A signal moves nobody. *)
LEMMA SignalsAreCalm ==
    ASSUME pc \in [Workers -> WorkerSteps]
    PROVE  /\ \A e : pc' = SignalNode(e) /\ node' = node => CalmPool
           /\ SignalNotEmpty /\ node' = node => CalmPool
<1>1. ASSUME NEW e, pc' = SignalNode(e), node' = node PROVE CalmPool
  BY <1>1 DEF SignalNode, WokenFrom, CalmPool, Handling, Busy, WorkerSteps
<1>2. ASSUME SignalNotEmpty, node' = node PROVE CalmPool
  BY <1>2 DEF SignalNotEmpty, Asleep, CalmPool, Handling, Busy, WorkerSteps
<1> QED  BY <1>1, <1>2

(* The steps of a worker between two lists *)
CalmStep(w) ==
    \/ CheckStop(w) \/ WaitForWork(w) \/ BeginSearch(w) \/ SearchStep(w)
    \/ BeginProcessing(w) \/ GiveUpArrival(w) \/ EndProcessing(w) \/ WaitAgain(w)
    \/ PauseLockWaiting(w) \/ SpuriousWakeup(w)

LEMMA WorkersAreCalm ==
    ASSUME pc \in [Workers -> WorkerSteps], NEW w \in Workers, CalmStep(w)
    PROVE  CalmPool /\ UNCHANGED <<received, listVars>>
<1> USE DEF CalmPool, Handling, Busy, WorkerSteps, OnlyWorkers, mainVars
<1>1. CASE CheckStop(w) \/ WaitForWork(w) \/ BeginSearch(w)
  BY <1>1 DEF CheckStop, WaitForWork, BeginSearch
<1>2. CASE SearchRescuers(w) \/ (\E e \in Emergencies : ProbeNode(w, e))
           \/ SearchFails(w) \/ RetrySearch(w)
  BY <1>2 DEF SearchRescuers, ProbeNode, SearchFails, RetrySearch
<1>3. CASE SendFree(w) \/ DecideToSteal(w) \/ SearchEnds(w)
  BY <1>3 DEF SendFree, DecideToSteal, Sending, SearchEnds
<1>4. CASE PauseAndSend(w)
  <2> DEFINE victim == twin[NextToSend(w)].node
             before == IF emergency[victim].status = "PAUSED" THEN pc
                                                              ELSE SignalNode(victim)
  <2>1. /\ pc[w] = "steal" /\ pc' = [before EXCEPT ![w] = "search"]
        /\ UNCHANGED <<node, received, listVars>>
    BY <1>4 DEF PauseAndSend
  <2>2. /\ before \in [Workers -> WorkerSteps]
        /\ \A u \in Workers :
              /\ before[u] \in Handling <=> pc[u] \in Handling
              /\ before[u] = "lockWorking" <=> pc[u] = "lockWorking"
    BY DEF SignalNode, WokenFrom
  <2> HIDE DEF before
  <2> QED  BY <2>1, <2>2
<1>5. CASE BeginProcessing(w) \/ WaitAgain(w) \/ PauseLockWaiting(w)
  BY <1>5 DEF BeginProcessing, WaitAgain, PauseLockWaiting
<1>6. CASE GiveUpArrival(w) \/ EndProcessing(w)
  <2>1. PICK next : /\ next \in {"pause", "cancel", "complete"}
                    /\ pc[w] \in {"arriveWoken", "finishWoken"}
                    /\ ResumeWith(w, next)
    BY <1>6 DEF GiveUpArrival, EndProcessing, AfterWait
  <2> QED  BY <2>1 DEF ResumeWith
<1>7. CASE SpuriousWakeup(w)
  BY <1>7 DEF SpuriousWakeup, WokenFrom
<1> QED  BY <1>1, <1>2, <1>3, <1>4, <1>5, <1>6, <1>7 DEF CalmStep, SearchStep

(* What an operation does to a whole queue *)
LEMMA QueueNodes ==
    ASSUME NEW q, QueueOK(q), NEW e \in Emergencies, NEW p \in Priorities
    PROVE  /\ Nodes(RemoveNode(q, e)) = Nodes(q) \ {e} /\ QueueOK(RemoveNode(q, e))
           /\ Nodes(ChangePriority(q, e, p)) = Nodes(q) \cup {e}
           /\ QueueOK(ChangePriority(q, e, p))
           /\ e \notin Nodes(q) => Nodes(Enqueue(q, e, p)) = Nodes(q) \cup {e}
                                   /\ QueueOK(Enqueue(q, e, p))
<1>1. Nodes(RemoveNode(q, e)) = Nodes(q) \ {e} /\ QueueOK(RemoveNode(q, e))
  BY RemoveNodeLevels, NodesAreLevels
<1>2. Nodes(ChangePriority(q, e, p)) = Nodes(q) \cup {e} /\ QueueOK(ChangePriority(q, e, p))
  <2>1. /\ QueueOK(ChangePriority(q, e, p))
        /\ Level(ChangePriority(q, e, p), p) = Level(q, p) \cup {e}
        /\ \A o \in Priorities : o # p =>
              Level(ChangePriority(q, e, p), o) = Level(q, o) \ {e}
    BY ChangePriorityLevels
  <2> QED  BY <2>1, NodesAreLevels
<1>3. ASSUME e \notin Nodes(q)
      PROVE  Nodes(Enqueue(q, e, p)) = Nodes(q) \cup {e} /\ QueueOK(Enqueue(q, e, p))
  <2>1. e \notin Level(q, p)
    BY <1>3, NodesAreLevels
  <2>2. /\ QueueOK(Enqueue(q, e, p))
        /\ Level(Enqueue(q, e, p), p) = Level(q, p) \cup {e}
        /\ \A o \in Priorities : o # p => Level(Enqueue(q, e, p), o) = Level(q, o)
    BY <2>1, EnqueueLevels
  <2> QED  BY <2>2, NodesAreLevels
<1> QED  BY <1>1, <1>2, <1>3

(* Every level of a queue is of emergencies. *)
LEMMA LevelsAreEmergencies ==
    ASSUME NEW q, QueueOK(q)
    PROVE  /\ \A p \in Priorities : Level(q, p) \subseteq Emergencies
           /\ Nodes(q) \subseteq Emergencies
<1>1. ASSUME NEW s \in NodeLists PROVE ToSet(s) \subseteq Emergencies
  BY DEF NodeLists, ToSet
<1>2. \A p \in Priorities : q.lists[p] \in NodeLists
  BY DEF QueueOK
<1>3. \A p \in Priorities : Level(q, p) \subseteq Emergencies
  BY <1>1, <1>2 DEF Level
<1> QED  BY <1>3, NodesAreLevels

(* No node is at two levels of a queue. *)
LevelsApart(q) ==
    \A o, p \in Priorities : o # p => Level(q, o) \cap Level(q, p) = {}

LEMMA MatchingLevelsApart ==
    ASSUME ListsMatchPriorities
    PROVE  LevelsApart(waiting_queue) /\ LevelsApart(working_queue)
BY DEF ListsMatchPriorities, LevelsApart, Level

LEMMA DequeueNodes ==
    ASSUME NEW q, QueueOK(q), LevelsApart(q)
    PROVE  /\ QueueOK(Dequeue(q))
           /\ HasNode(q) => /\ First(q) \in Nodes(q)
                            /\ Nodes(Dequeue(q)) = Nodes(q) \ {First(q)}
           /\ ~HasNode(q) => Nodes(Dequeue(q)) = Nodes(q)
<1>1. /\ QueueOK(Dequeue(q))
      /\ HasNode(q) =>
            /\ Hottest(q) \in Priorities
            /\ First(q) \in Level(q, Hottest(q))
            /\ Level(Dequeue(q), Hottest(q)) = Level(q, Hottest(q)) \ {First(q)}
            /\ \A o \in Priorities :
                  o # Hottest(q) => Level(Dequeue(q), o) = Level(q, o)
      /\ ~HasNode(q) => \A o \in Priorities : Level(Dequeue(q), o) = Level(q, o)
  BY DequeueLevels
<1>2. CASE HasNode(q)
  <2>1. \A o \in Priorities : o # Hottest(q) => First(q) \notin Level(q, o)
    BY <1>1, <1>2 DEF LevelsApart
  <2>2. First(q) \in Nodes(q)
    BY <1>1, <1>2, NodesAreLevels
  <2>3. \A e : e \in Nodes(Dequeue(q)) <=> e \in Nodes(q) /\ e # First(q)
    BY <1>1, <1>2, <2>1, NodesAreLevels
  <2> QED  BY <1>1, <1>2, <2>2, <2>3
<1>3. CASE ~HasNode(q)
  <2>1. \A e : e \in Nodes(Dequeue(q)) <=> e \in Nodes(q)
    BY <1>1, <1>3, NodesAreLevels
  <2> QED  BY <1>1, <1>3, <2>1
<1> QED  BY <1>2, <1>3

LEMMA ReceivePlaces ==
    ASSUME PlaceInvariant, NEW e \in Emergencies, ReceiveRequest(e)
    PROVE  PlacesOK'
<1>1. /\ e \notin received /\ received' = received \cup {e}
      /\ waiting_queue' = Enqueue(waiting_queue, e, emergency[e].priority)
      /\ UNCHANGED <<node, working_queue, completed_emergencies, canceled_emergencies>>
  BY DEF ReceiveRequest, archives
<1>2. CalmPool
  <2>1. pc \in [Workers -> WorkerSteps]
    BY DEF PlaceInvariant, LockInvariant, ControlTypeOK
  <2>2. SignalNotEmpty \/ pc' = pc
    BY DEF ReceiveRequest
  <2> QED  BY <1>1, <2>1, <2>2, SignalsAreCalm DEF CalmPool
<1>3. Waiting' = Waiting \cup {e}
  <2>1. e \notin Waiting
    BY <1>1 DEF PlaceInvariant, PlacesApart
  <2>2. QueueOK(waiting_queue) /\ emergency[e].priority \in Priorities
    BY DEF PlaceInvariant, DataTypeOK, Known
  <2> QED  BY <1>1, <2>1, <2>2, QueueNodes DEF Waiting
<1>4. Working' = Working /\ Done' = Done /\ Shelved' = Shelved
  BY <1>1 DEF Working, Done, Shelved
<1>5. Transit' = Transit
  BY <1>2 DEF Transit, CalmPool, Busy
<1>6. PlacesApart /\ HandledIsWorking
  BY DEF PlaceInvariant
<1>7. PlacesApart'
  BY <1>1, <1>3, <1>4, <1>5, <1>6 DEF PlacesApart
<1>8. \A w \in Workers : pc'[w] \in Busy <=> pc[w] \in Busy
  BY <1>2 DEF CalmPool, Busy
<1>9. HandledIsWorking'
  BY <1>2, <1>4, <1>6, <1>8 DEF HandledIsWorking, CalmPool, Busy
<1> QED  BY <1>7, <1>9 DEF PlacesOK

LEMMA TakePlaces ==
    ASSUME PlaceInvariant, NEW w \in Workers, TakeNode(w)
    PROVE  PlacesOK'
<1> DEFINE e == IF HasNode(waiting_queue) THEN First(waiting_queue) ELSE None
<1>1. /\ pc[w] = "lockWaiting" /\ pc' = [pc EXCEPT ![w] = "lockWorking"]
      /\ node' = [node EXCEPT ![w] = e]
      /\ waiting_queue' = Dequeue(waiting_queue)
      /\ UNCHANGED <<received, working_queue, completed_emergencies, canceled_emergencies>>
  BY DEF TakeNode, OnlyWorkers, mainVars, archives
<1>2. /\ pc \in [Workers -> WorkerSteps] /\ node \in [Workers -> Emergencies \cup {None}]
      /\ QueueOK(waiting_queue) /\ LevelsApart(waiting_queue)
      /\ PlacesApart /\ HandledIsWorking /\ None \notin Emergencies
  BY MatchingLevelsApart, ThreadsAssumption
     DEF PlaceInvariant, LockInvariant, ControlTypeOK, DataTypeOK
<1>3. /\ Waiting' = Waiting \ {e} /\ (e = None \/ e \in Waiting)
      /\ Waiting \subseteq Emergencies
  BY <1>1, <1>2, DequeueNodes, LevelsAreEmergencies DEF Waiting
<1> HIDE DEF e
<1>4. Working' = Working /\ Done' = Done /\ Shelved' = Shelved
  BY <1>1 DEF Working, Done, Shelved
<1>5. Transit' = Transit \cup ({e} \ {None})
  <2>1. pc'[w] = "lockWorking" /\ node'[w] = e
    BY <1>1, <1>2
  <2>2. \A u \in Workers : u # w => pc'[u] = pc[u] /\ node'[u] = node[u]
    BY <1>1, <1>2
  <2> QED  BY <1>1, <1>2, <1>3, <2>1, <2>2 DEF Transit
<1>6. PlacesApart'
  BY <1>1, <1>2, <1>3, <1>4, <1>5 DEF PlacesApart
<1>7. e # None => \A u \in Workers : pc[u] \in Busy => node[u] # e
  <2> SUFFICES ASSUME e # None, NEW u \in Workers, pc[u] \in Busy, node[u] = e
               PROVE  FALSE
    OBVIOUS
  <2>1. e \in Waiting /\ e \in Emergencies
    BY <1>3
  <2>2. e \in Working \/ e \in Transit
    BY <1>2, <2>1 DEF Busy, HandledIsWorking, Transit
  <2> QED  BY <1>2, <2>1, <2>2 DEF PlacesApart
<1>8. HandledIsWorking'
  <2>1. \A u \in Workers : u # w => pc'[u] = pc[u] /\ node'[u] = node[u]
    BY <1>1, <1>2
  <2>2. pc'[w] = "lockWorking" /\ node'[w] = e /\ pc'[w] \notin Handling
        /\ pc[w] \notin Handling
    BY <1>1, <1>2 DEF Handling
  <2>3. \A u \in Workers : pc'[u] \in Handling => node'[u] \in Working'
    BY <1>2, <1>4, <2>1, <2>2 DEF HandledIsWorking
  <2>4. \A x \in Working' : \E u \in Workers : pc'[u] \in Handling /\ node'[u] = x
    BY <1>2, <1>4, <2>1, <2>2 DEF HandledIsWorking
  <2>5. \A u, v \in Workers :
           u # v /\ pc'[u] \in Busy /\ pc'[v] \in Busy /\ node'[u] = node'[v]
              => node'[v] = None
    BY <1>2, <1>7, <2>1, <2>2 DEF HandledIsWorking
  <2> QED  BY <2>3, <2>4, <2>5 DEF HandledIsWorking
<1> QED  BY <1>6, <1>8 DEF PlacesOK

LEMMA EnqueuePlaces ==
    ASSUME PlaceInvariant, NEW w \in Workers, EnqueueWorking(w)
    PROVE  PlacesOK'
<1>1. /\ pc[w] = "lockWorking"
      /\ UNCHANGED <<node, received, waiting_queue, completed_emergencies,
                     canceled_emergencies>>
  BY DEF EnqueueWorking, mainVars, archives
<1>2. /\ pc \in [Workers -> WorkerSteps] /\ node \in [Workers -> Emergencies \cup {None}]
      /\ PlacesApart /\ HandledIsWorking /\ None \notin Emergencies
  BY ThreadsAssumption DEF PlaceInvariant, LockInvariant, ControlTypeOK, DataTypeOK
<1>3. CASE node[w] = None
  <2>1. pc' = pc /\ working_queue' = working_queue
    BY <1>3 DEF EnqueueWorking
  <2> QED  BY <1>1, <1>2, <2>1, CalmPlaces
           DEF PlacesOK, CalmPool, CalmLists, Waiting, Working, Done, Shelved
<1>4. CASE node[w] # None
  <2> DEFINE e == node[w]
  <2>1. /\ e \in Emergencies /\ pc' = [pc EXCEPT ![w] = "lockNode"]
        /\ working_queue' = Enqueue(working_queue, e, emergency[e].priority)
    BY <1>2, <1>4 DEF EnqueueWorking
  <2>2. e \in Transit /\ e \notin Working
    BY <1>1, <1>2, <2>1 DEF Transit, PlacesApart
  <2>3. Working' = Working \cup {e}
    <3>1. QueueOK(working_queue) /\ emergency[e].priority \in Priorities
      BY <2>1 DEF PlaceInvariant, DataTypeOK, Known
    <3> QED  BY <2>1, <2>2, <3>1, QueueNodes DEF Working
  <2>4. Waiting' = Waiting /\ Done' = Done /\ Shelved' = Shelved
    BY <1>1 DEF Waiting, Done, Shelved
  <2>5. /\ \A u \in Workers : node'[u] = node[u] /\ (u # w => pc'[u] = pc[u])
        /\ pc'[w] = "lockNode" /\ pc'[w] \in Handling /\ pc'[w] \in Busy
        /\ pc[w] \in Busy
    BY <1>1, <1>2, <2>1 DEF Handling, Busy
  <2>6. \A u \in Workers : u # w /\ pc[u] \in Busy => node[u] # e
    BY <1>2, <1>4, <2>5 DEF HandledIsWorking
  <2>7. Transit' = Transit \ {e}
    BY <2>1, <2>5, <2>6 DEF Transit, Busy
  <2>8. PlacesApart'
    BY <1>1, <1>2, <2>2, <2>3, <2>4, <2>7 DEF PlacesApart
  <2>9. HandledIsWorking'
    <3>1. \A u \in Workers : pc'[u] \in Handling => node'[u] \in Working'
      BY <1>2, <2>3, <2>5 DEF HandledIsWorking
    <3>2. \A x \in Working' : \E u \in Workers : pc'[u] \in Handling /\ node'[u] = x
      <4> SUFFICES ASSUME NEW x \in Working'
                   PROVE  \E u \in Workers : pc'[u] \in Handling /\ node'[u] = x
        OBVIOUS
      <4>1. CASE x = e
        BY <2>5, <4>1
      <4>2. CASE x \in Working
        <5>1. PICK u \in Workers : pc[u] \in Handling /\ node[u] = x
          BY <1>2, <4>2 DEF HandledIsWorking
        <5>2. u # w
          BY <1>1, <5>1 DEF Handling
        <5> QED  BY <2>5, <5>1, <5>2
      <4> QED  BY <2>3, <4>1, <4>2
    <3>3. \A u, v \in Workers :
             u # v /\ pc'[u] \in Busy /\ pc'[v] \in Busy /\ node'[u] = node'[v]
                => node'[v] = None
      BY <1>2, <2>5 DEF HandledIsWorking
    <3> QED  BY <3>1, <3>2, <3>3 DEF HandledIsWorking
  <2> QED  BY <2>8, <2>9 DEF PlacesOK
<1> QED  BY <1>3, <1>4

(* The three ways out of the working queue: its node and its worker part. *)
LEMMA LeavingPlaces ==
    ASSUME PlacesOK, None \notin Working, NEW w \in Workers,
           pc \in [Workers -> WorkerSteps], pc[w] \in Handling, pc' \in [Workers -> WorkerSteps], pc'[w] \notin Busy,
           \A u \in Workers : u # w => pc'[u] = pc[u] /\ node'[u] = node[u],
           received' = received, Waiting' = Waiting, Working' = Working \ {node[w]},
           \/ Done' = Done \cup {node[w]} /\ Shelved' = Shelved
           \/ Done' = Done /\ Shelved' = Shelved \cup {node[w]}
    PROVE  PlacesOK'
<1>1. PlacesApart /\ HandledIsWorking /\ node[w] \in Working /\ pc[w] \in Busy
  BY DEF PlacesOK, HandledIsWorking, Busy
<1>2. Transit' = Transit
  BY DEF Transit, Busy, Handling
<1>3. PlacesApart'
  BY <1>1, <1>2 DEF PlacesApart
<1>4. \A u \in Workers : u # w /\ pc[u] \in Busy => node[u] # node[w] \/ node[w] = None
  BY <1>1 DEF HandledIsWorking
<1>5. \A u \in Workers : pc'[u] \in Busy => u # w
  OBVIOUS
<1>6. ASSUME NEW u \in Workers, pc'[u] \in Handling PROVE node'[u] \in Working'
  <2>1. u # w /\ pc[u] \in Busy /\ node[u] \in Working /\ node'[u] = node[u]
    BY <1>1, <1>5, <1>6 DEF HandledIsWorking, Busy
  <2>2. node[u] # node[w]
    BY <1>1, <2>1, <1>4 DEF HandledIsWorking
  <2> QED  BY <2>1, <2>2
<1>7. ASSUME NEW x \in Working' PROVE \E u \in Workers : pc'[u] \in Handling /\ node'[u] = x
  <2>1. PICK u \in Workers : pc[u] \in Handling /\ node[u] = x
    BY <1>1, <1>7 DEF HandledIsWorking
  <2> QED  BY <1>7, <2>1
<1>8. \A u, v \in Workers :
         u # v /\ pc'[u] \in Busy /\ pc'[v] \in Busy /\ node'[u] = node'[v]
            => node'[v] = None
  BY <1>1 DEF HandledIsWorking
<1> QED  BY <1>3, <1>6, <1>7, <1>8 DEF PlacesOK, HandledIsWorking

(* What the three ways out do to the lists *)
LEMMA LeaveLists ==
    ASSUME PlaceInvariant, NEW w \in Workers, Complete(w) \/ Cancel(w) \/ Pause(w)
    PROVE  /\ node[w] \in Emergencies /\ node[w] \in Working
           /\ received' = received /\ waiting_queue' = waiting_queue
           /\ working_queue' = RemoveNode(working_queue, node[w])
           /\ Waiting' = Waiting /\ Working' = Working \ {node[w]}
           /\ completed_emergencies' \in NodeLists /\ canceled_emergencies' \in NodeLists
           /\ Complete(w) => Done' = Done \cup {node[w]} /\ Shelved' = Shelved
           /\ ~Complete(w) => Done' = Done /\ Shelved' = Shelved \cup {node[w]}
<1>1. /\ QueueOK(working_queue) /\ PlacesApart /\ HandledIsWorking
      /\ completed_emergencies \in NodeLists /\ canceled_emergencies \in NodeLists
  BY DEF PlaceInvariant, DataTypeOK
<1>2. /\ pc[w] \in Handling /\ received' = received /\ waiting_queue' = waiting_queue
      /\ working_queue' = RemoveNode(working_queue, node[w])
  BY DEF Complete, Cancel, Pause, ShelvePaused, OnlyWorkers, mainVars, Handling
<1>3. /\ node[w] \in Emergencies /\ node[w] \in Working
      /\ node[w] \notin Done /\ node[w] \notin Shelved
  BY <1>1, <1>2, LevelsAreEmergencies DEF PlacesApart, HandledIsWorking, Working
<1>4. Waiting' = Waiting /\ Working' = Working \ {node[w]}
  <2>1. Nodes(RemoveNode(working_queue, node[w])) = Nodes(working_queue) \ {node[w]}
    BY <1>1, <1>3, QueueNodes DEF Priorities, MIN_PRIORITY, MAX_PRIORITY
  <2> QED  BY <1>2, <2>1 DEF Waiting, Working
<1>5. CASE Complete(w)
  <2>1. /\ completed_emergencies' = Append(completed_emergencies, node[w])
        /\ canceled_emergencies' = canceled_emergencies
    BY <1>5 DEF Complete
  <2> QED  BY <1>1, <1>2, <1>3, <1>4, <1>5, <2>1, AppendToList DEF Done, Shelved
<1>6. CASE Cancel(w) /\ ~Complete(w)
  <2> DEFINE r == RemoveFirst(canceled_emergencies, node[w])
  <2>1. /\ canceled_emergencies' = Append(r, node[w])
        /\ completed_emergencies' = completed_emergencies
    BY <1>6 DEF Cancel
  <2>2. r \in NodeLists /\ ToSet(r) = Shelved \ {node[w]}
    BY <1>1, RemoveFromList DEF Shelved
  <2> HIDE DEF r
  <2>3. Append(r, node[w]) \in NodeLists /\ ToSet(Append(r, node[w])) = ToSet(r) \cup {node[w]}
    BY <1>3, <2>2, AppendToList
  <2> QED  BY <1>1, <1>2, <1>3, <1>4, <1>6, <2>1, <2>2, <2>3 DEF Done, Shelved
<1>7. CASE Pause(w) /\ ~Complete(w)
  <2>1. /\ canceled_emergencies' = <<node[w]>> \o canceled_emergencies
        /\ completed_emergencies' = completed_emergencies
    BY <1>7 DEF Pause, ShelvePaused
  <2> QED  BY <1>1, <1>2, <1>3, <1>4, <1>7, <2>1, PushToList DEF Done, Shelved
<1> QED  BY <1>5, <1>6, <1>7

LEMMA LeavePlaces ==
    ASSUME PlaceInvariant, NEW w \in Workers, Complete(w) \/ Cancel(w) \/ Pause(w)
    PROVE  PlacesOK'
<1>1. /\ pc \in [Workers -> WorkerSteps] /\ node \in [Workers -> Emergencies \cup {None}]
      /\ QueueOK(working_queue) /\ PlacesOK
  BY DEF PlaceInvariant, LockInvariant, ControlTypeOK, DataTypeOK, PlacesOK
<1>2. None \notin Working
  BY <1>1, ThreadsAssumption, LevelsAreEmergencies DEF Working
<1>3. /\ pc[w] \in Handling
      /\ \E next \in {"check", "recheck"} : pc' = [pc EXCEPT ![w] = next]
      /\ node' = node \/ node' = [node EXCEPT ![w] = None]
  BY DEF Complete, Cancel, Pause, Handling
<1>4. /\ pc' \in [Workers -> WorkerSteps] /\ pc'[w] \notin Busy
      /\ \A u \in Workers : u # w => pc'[u] = pc[u] /\ node'[u] = node[u]
  BY <1>1, <1>3 DEF WorkerSteps, Busy, Handling
<1> QED  BY <1>1, <1>2, <1>3, <1>4, LeaveLists, LeavingPlaces

(* Nobody cancels after a pause: the emergency stays paused. *)
LEMMA RecheckIsCalm ==
    ASSUME PlaceInvariant, NEW w \in Workers, RecheckCanceled(w)
    PROVE  /\ CalmPool /\ UNCHANGED <<received, listVars>>
           /\ pc' = [pc EXCEPT ![w] = "check"]
<1>1. emergency[node[w]].status = "PAUSED" /\ pc[w] = "recheck"
  BY DEF RecheckCanceled, PlaceInvariant, PausedStays, PausedSteps
<1>2. /\ pc' = [pc EXCEPT ![w] = "check"] /\ node' = [node EXCEPT ![w] = None]
      /\ UNCHANGED <<received, listVars>>
  BY <1>1 DEF RecheckCanceled, OnlyWorkers, mainVars
<1>3. pc \in [Workers -> WorkerSteps] /\ node \in [Workers -> Emergencies \cup {None}]
  BY DEF PlaceInvariant, LockInvariant, ControlTypeOK, DataTypeOK
<1> QED  BY <1>1, <1>2, <1>3 DEF CalmPool, Busy, Handling

(* The node a scan is at is in the queue scanned. *)
LEMMA HeadIsScanned ==
    ASSUME PlaceInvariant, updater \in Scanning, todo # <<>>
    PROVE  /\ Head(todo) \in Emergencies
           /\ Head(todo) \in Level(ScannedQueue, level) /\ level \in Priorities
           /\ Head(todo) \in Nodes(ScannedQueue) /\ QueueOK(ScannedQueue)
           /\ Known(emergency[Head(todo)])
           /\ emergency[Head(todo)].priority = level
<1>1. /\ level \in Priorities /\ todo \in NodeLists
      /\ ToSet(todo) \subseteq Level(ScannedQueue, level)
  BY DEF PlaceInvariant, ScanIsAPlace, PlaceOK
<1>2. QueueOK(ScannedQueue)
  BY DEF PlaceInvariant, DataTypeOK, ScannedQueue
<1>3. Head(todo) \in Level(ScannedQueue, level)
  BY <1>1, TailOfList
<1>4. Head(todo) \in Emergencies /\ Head(todo) \in Nodes(ScannedQueue)
  BY <1>1, <1>2, <1>3, LevelsAreEmergencies, NodesAreLevels
<1>5. ScannedQueue \in {waiting_queue, working_queue}
  BY DEF ScannedQueue
<1>6. emergency[Head(todo)].priority = level
  BY <1>1, <1>3, <1>5 DEF PlaceInvariant, ListsMatchPriorities, Level
<1>7. Known(emergency[Head(todo)])
  BY <1>4 DEF PlaceInvariant, DataTypeOK
<1> QED  BY <1>1, <1>2, <1>3, <1>4, <1>6, <1>7

(* A promotion moves a node of the queue within the queue. *)
LEMMA PromotedNodes ==
    ASSUME NEW q, QueueOK(q), NEW e \in Emergencies, e \in Nodes(q), NEW r
    PROVE  Nodes(PromotedIn(q, e, r)) = Nodes(q) /\ QueueOK(PromotedIn(q, e, r))
<1>1. MEDIUM_PRIORITY \in Priorities
  BY DEF MEDIUM_PRIORITY, Priorities, MIN_PRIORITY, MAX_PRIORITY
<1>2. /\ Nodes(ChangePriority(q, e, MEDIUM_PRIORITY)) = Nodes(q) \cup {e}
      /\ QueueOK(ChangePriority(q, e, MEDIUM_PRIORITY))
  BY <1>1, QueueNodes
<1> QED  BY <1>2 DEF PromotedIn

(* The updater and the main thread leave every node in its place. *)
OtherStep ==
    \/ UpdaterStep \/ ReceiveStop \/ CloseServer \/ ClockStep

LEMMA OthersAreCalm ==
    ASSUME PlaceInvariant, OtherStep
    PROVE  CalmPool /\ CalmLists
<1>1. pc \in [Workers -> WorkerSteps]
  BY DEF PlaceInvariant, LockInvariant, ControlTypeOK
<1>2. CASE UpdateWorkingNode
  <2> DEFINE e == Head(todo)
             r == UpdatedWorking(e)
  <2>1. /\ updater = "updateWorking" /\ todo # <<>>
        /\ working_queue' = PromotedIn(working_queue, e, r)
        /\ pc' = pc \/ pc' = SignalNode(e)
        /\ UNCHANGED <<node, received, waiting_queue, completed_emergencies,
                       canceled_emergencies>>
    BY <1>2 DEF UpdateWorkingNode, OnlyUpdater, mainVars, archives
  <2>2. /\ updater \in Scanning /\ ScannedQueue = working_queue
    BY <2>1 DEF Scanning, ScannedQueue
  <2>3. Nodes(PromotedIn(working_queue, e, r)) = Nodes(working_queue)
    BY <2>1, <2>2, HeadIsScanned, PromotedNodes
  <2>4. CalmPool
    BY <1>1, <2>1, SignalsAreCalm DEF CalmPool
  <2> HIDE DEF e, r
  <2> QED  BY <2>1, <2>3, <2>4 DEF CalmLists, Waiting, Working, Done, Shelved
<1>3. CASE UpdateWaitingNode
  <2> DEFINE e == Head(todo)
             r == UpdatedWaiting(e)
  <2>1. /\ updater = "updateWaiting" /\ todo # <<>>
        /\ waiting_queue' = PromotedIn(waiting_queue, e, r)
        /\ UNCHANGED <<pc, node, received, working_queue, completed_emergencies,
                       canceled_emergencies>>
    BY <1>3 DEF UpdateWaitingNode, OnlyUpdater, mainVars, archives, poolVars
  <2>2. /\ updater \in Scanning /\ ScannedQueue = waiting_queue
    BY <2>1 DEF Scanning, ScannedQueue
  <2>3. Nodes(PromotedIn(waiting_queue, e, r)) = Nodes(waiting_queue)
    BY <2>1, <2>2, HeadIsScanned, PromotedNodes
  <2> HIDE DEF e, r
  <2> QED  BY <2>1, <2>3 DEF CalmLists, CalmPool, Waiting, Working, Done, Shelved
<1>4. CASE CancelNode
  <2>1. pc' = SignalNode(Head(todo)) /\ UNCHANGED <<node, received, listVars>>
    BY <1>4 DEF CancelNode, OnlyUpdater, mainVars
  <2> QED  BY <1>1, <2>1, SignalsAreCalm
           DEF CalmLists, Waiting, Working, Done, Shelved, listVars, archives
<1>5. ASSUME UNCHANGED <<pc, node, received, listVars>> PROVE CalmPool /\ CalmLists
  BY <1>5 DEF CalmPool, CalmLists, Waiting, Working, Done, Shelved, listVars, archives
<1>6. CASE CheckUpdater \/ TakeTick \/ UpdaterLockRescuers \/ UpdaterLockWaiting
           \/ UpdateRescuers
  BY <1>5, <1>6 DEF CheckUpdater, TakeTick, UpdaterLockRescuers, UpdaterLockWaiting,
                    UpdateRescuers, OnlyUpdater, mainVars, poolVars
<1>7. CASE ScanWaiting \/ EndUpdate \/ BeginCancelAll \/ EndCancelAll
  BY <1>5, <1>7 DEF ScanWaiting, EndUpdate, BeginCancelAll, EndCancelAll,
                    OnlyUpdater, mainVars, poolVars
<1>8. CASE ReceiveStop \/ CloseServer \/ ClockStep
  BY <1>5, <1>8 DEF ReceiveStop, CloseServer, ClockStep, Tick, StopClock, mainVars,
                    poolVars
<1> QED  BY <1>2, <1>3, <1>4, <1>6, <1>7, <1>8 DEF OtherStep, UpdaterStep

(* Every step leaves every node in one place, and handled by one worker at *)
(* most.                                                                   *)
LEMMA NextPlaces == PlaceInvariant /\ [Next]_vars => PlacesOK'
<1> SUFFICES ASSUME PlaceInvariant, [Next]_vars PROVE PlacesOK'
  OBVIOUS
<1>1. PlacesOK /\ pc \in [Workers -> WorkerSteps]
  BY DEF PlaceInvariant, PlacesOK, LockInvariant, ControlTypeOK
<1>2. UNCHANGED <<received, listVars>> => CalmLists
  BY DEF CalmLists, Waiting, Working, Done, Shelved, listVars, archives
<1>3. CASE OtherStep
  BY <1>1, <1>3, OthersAreCalm, CalmPlaces
<1>4. CASE \E e \in Emergencies : ReceiveRequest(e)
  BY <1>4, ReceivePlaces
<1>5. ASSUME NEW w \in Workers, CalmStep(w) PROVE PlacesOK'
  BY <1>1, <1>2, <1>5, WorkersAreCalm, CalmPlaces
<1>6. ASSUME NEW w \in Workers,
             TakeNode(w) \/ EnqueueWorking(w) \/ Complete(w) \/ Cancel(w) \/ Pause(w)
      PROVE  PlacesOK'
  BY <1>6, TakePlaces, EnqueuePlaces, LeavePlaces
<1>7. ASSUME NEW w \in Workers, RecheckCanceled(w) PROVE PlacesOK'
  BY <1>1, <1>2, <1>7, RecheckIsCalm, CalmPlaces
<1>8. CASE UNCHANGED vars
  <2>1. UNCHANGED <<pc, node, received, listVars>>
    BY <1>8 DEF vars, poolVars, mainVars
  <2> QED  BY <1>1, <1>2, <2>1, CalmPlaces DEF CalmPool
<1> QED  BY <1>3, <1>4, <1>5, <1>6, <1>7, <1>8
         DEF Next, OtherStep, WorkerStep, CalmStep

--------------------------------------------------------------------------------
(* Types, and the list a node is in. *)

PrioritiesKept ==
    /\ DOMAIN emergency' = Emergencies
    /\ \A e \in Emergencies : SamePriority(emergency[e], emergency'[e])

LEMMA WorkersKeepPriorities ==
    ASSUME DataTypeOK, NEW w \in Workers, WorkerStep(w) \/ SpuriousWakeup(w)
    PROVE  PrioritiesKept
<1>1. DOMAIN emergency = Emergencies /\ \A e \in Emergencies : Known(emergency[e])
  BY DEF DataTypeOK
<1>2. emergency' = emergency => PrioritiesKept
  BY <1>1 DEF PrioritiesKept, SamePriority
<1>3. CASE BeginSearch(w)
  <2>1. emergency' = [emergency EXCEPT ![node[w]] = Assigned(@)]
    BY <1>3 DEF BeginSearch
  <2> QED  BY <1>1, <2>1, WorkerRecords DEF PrioritiesKept, SamePriority
<1>4. CASE SearchFails(w)
  <2>1. emergency' = [emergency EXCEPT ![node[w]].rescuers_found = FALSE]
    BY <1>4 DEF SearchFails
  <2> QED  BY <1>1, <2>1 DEF PrioritiesKept, SamePriority, Known
<1>5. CASE SendFree(w)
  <2>1. emergency' = [emergency EXCEPT
                        ![node[w]] = WithTwin(@, sent[w] + 1, NextToSend(w))]
    BY <1>5 DEF SendFree
  <2> QED  BY <1>1, <2>1, WorkerRecords DEF PrioritiesKept, SamePriority
<1>6. CASE PauseAndSend(w)
  <2> DEFINE t == NextToSend(w)
             victim == twin[t].node
             before == [emergency EXCEPT ![victim] = Paused(@)]
             after(r) == WithTwin(r, sent[w] + 1, t)
  <2>1. /\ DOMAIN emergency' = DOMAIN emergency
        /\ \A e \in DOMAIN emergency :
              emergency'[e] \in {before[e], after(before[e]), after(emergency[e])}
    <3>1. emergency' = [emergency EXCEPT ![victim] = Paused(@), ![node[w]] = after(@)]
      BY <1>6 DEF PauseAndSend
    <3> HIDE DEF after
    <3> QED  BY <3>1
  <2>2. /\ DOMAIN before = Emergencies
        /\ \A e \in Emergencies : SamePriority(emergency[e], before[e])
    BY <1>1, WorkerRecords DEF SamePriority
  <2>4. \A r : Known(r) => SamePriority(r, after(r))
    BY WorkerRecords
  <2> HIDE DEF before, after
  <2>5. ASSUME NEW e \in Emergencies PROVE SamePriority(emergency[e], emergency'[e])
    <3>1. SamePriority(before[e], after(before[e]))
      BY <2>2, <2>4 DEF SamePriority
    <3>2. SamePriority(emergency[e], after(emergency[e]))
      BY <1>1, <2>4
    <3>3. emergency'[e] \in {before[e], after(before[e]), after(emergency[e])}
      BY <1>1, <2>1
    <3> QED  BY <2>2, <3>1, <3>2, <3>3 DEF SamePriority
  <2> QED  BY <1>1, <2>1, <2>5 DEF PrioritiesKept
<1>7. CASE SearchEnds(w)
  <2> DEFINE a == [emergency EXCEPT ![node[w]].eta = TimeToArrive(node[w], chosen[w])]
             b == [a EXCEPT ![node[w]].rescuers_found = TRUE]
  <2>1. emergency' = [b EXCEPT ![node[w]].status = "WAITING_FOR_RESCUERS"]
    BY <1>7 DEF SearchEnds
  <2>2. /\ DOMAIN a = Emergencies
        /\ \A e \in Emergencies : SamePriority(emergency[e], a[e])
    BY <1>1 DEF SamePriority, Known
  <2> HIDE DEF a
  <2>3. /\ DOMAIN b = Emergencies
        /\ \A e \in Emergencies : SamePriority(emergency[e], b[e])
    BY <2>2 DEF SamePriority, Known
  <2> HIDE DEF b
  <2> QED  BY <2>1, <2>3 DEF PrioritiesKept, SamePriority, Known
<1>8. CASE BeginProcessing(w)
  <2>1. emergency' = [emergency EXCEPT ![node[w]].status = "IN_PROGRESS"]
    BY <1>8 DEF BeginProcessing, WithStatus
  <2> QED  BY <1>1, <2>1, WorkerRecords DEF PrioritiesKept, SamePriority, Known
<1>9. CASE \/ CheckStop(w) \/ WaitForWork(w) \/ TakeNode(w) \/ EnqueueWorking(w)
           \/ SearchRescuers(w) \/ (\E e \in Emergencies : ProbeNode(w, e))
           \/ RetrySearch(w) \/ DecideToSteal(w)
  BY <1>2, <1>9 DEF CheckStop, WaitForWork, TakeNode, EnqueueWorking, SearchRescuers,
                    ProbeNode, RetrySearch, DecideToSteal, dataVars
<1>10. CASE \/ GiveUpArrival(w) \/ EndProcessing(w) \/ WaitAgain(w) \/ Complete(w)
            \/ Cancel(w) \/ PauseLockWaiting(w) \/ Pause(w) \/ RecheckCanceled(w)
            \/ SpuriousWakeup(w)
  BY <1>2, <1>10 DEF GiveUpArrival, EndProcessing, ResumeWith, WaitAgain, Complete,
                     Cancel, PauseLockWaiting, Pause, RecheckCanceled, SpuriousWakeup,
                     dataVars
<1> QED  BY <1>3, <1>4, <1>5, <1>6, <1>7, <1>8, <1>9, <1>10 DEF WorkerStep, SearchStep

LEMMA NodesKeepTypes ==
    ASSUME PlaceInvariant, NEW w \in Workers, WorkerStep(w) \/ SpuriousWakeup(w)
    PROVE  /\ node' \in [Workers -> Emergencies \cup {None}]
           /\ node_mutex' \in [Emergencies -> Owners]
           /\ received' = received
<1>1. /\ node \in [Workers -> Emergencies \cup {None}] /\ QueueOK(waiting_queue)
      /\ node_mutex \in [Emergencies -> Owners] /\ LevelsApart(waiting_queue)
      /\ w \in Owners /\ None \in Owners
  BY MatchingLevelsApart DEF PlaceInvariant, DataTypeOK, Owners
<1>2. CASE TakeNode(w)
  <2>1. HasNode(waiting_queue) => First(waiting_queue) \in Emergencies
    BY <1>1, DequeueNodes, LevelsAreEmergencies
  <2> QED  BY <1>1, <1>2, <2>1 DEF TakeNode, locks, OnlyWorkers, mainVars
<1> USE <1>1 DEF OnlyWorkers, mainVars, locks
<1>3. CASE CheckStop(w) \/ WaitForWork(w) \/ EnqueueWorking(w) \/ BeginSearch(w)
  BY <1>3 DEF CheckStop, WaitForWork, EnqueueWorking, BeginSearch
<1>4. CASE SearchStep(w)
  BY <1>4 DEF SearchStep, SearchRescuers, ProbeNode, SearchFails, RetrySearch,
              SendFree, DecideToSteal, PauseAndSend, SearchEnds
<1>5. CASE BeginProcessing(w) \/ GiveUpArrival(w) \/ EndProcessing(w) \/ WaitAgain(w)
  BY <1>5 DEF BeginProcessing, GiveUpArrival, EndProcessing, ResumeWith, WaitAgain
<1>6. CASE Complete(w) \/ Cancel(w) \/ Pause(w)
  BY <1>6 DEF Complete, Cancel, Pause, Released
<1>7. CASE PauseLockWaiting(w) \/ RecheckCanceled(w) \/ SpuriousWakeup(w)
  BY <1>7 DEF PauseLockWaiting, RecheckCanceled, SpuriousWakeup
<1> QED  BY <1>2, <1>3, <1>4, <1>5, <1>6, <1>7 DEF WorkerStep

(* A step that adds a node to a list of a queue adds it at its priority. *)
MatchedAfter(q) ==
    /\ QueueOK(q)
    /\ \A p \in Priorities : \A e \in Level(q, p) : emergency'[e].priority = p

DataOK == DataTypeOK /\ ListsMatchPriorities

LEMMA OperationsMatch ==
    ASSUME DataOK, PrioritiesKept, NEW q \in {waiting_queue, working_queue}
    PROVE  /\ MatchedAfter(q) /\ MatchedAfter(Dequeue(q))
           /\ \A e \in Emergencies : MatchedAfter(RemoveNode(q, e))
           /\ \A e \in Emergencies :
                 e \notin Nodes(q) => MatchedAfter(Enqueue(q, e, emergency[e].priority))
<1>1. /\ QueueOK(q) /\ \A p \in Priorities : Level(q, p) \subseteq Emergencies
      /\ \A p \in Priorities : \A e \in Level(q, p) : emergency[e].priority = p
  BY LevelsAreEmergencies DEF DataOK, DataTypeOK, ListsMatchPriorities, Level
<1>2. \A e \in Emergencies : emergency'[e].priority = emergency[e].priority
  BY DEF PrioritiesKept, SamePriority
<1>3. MatchedAfter(q)
  BY <1>1, <1>2 DEF MatchedAfter
<1>4. ASSUME NEW r, QueueOK(r), \A p \in Priorities : Level(r, p) \subseteq Level(q, p)
      PROVE  MatchedAfter(r)
  BY <1>3, <1>4 DEF MatchedAfter
<1>5. MatchedAfter(Dequeue(q))
  <2>1. QueueOK(Dequeue(q)) /\ \A p \in Priorities : Level(Dequeue(q), p) \subseteq Level(q, p)
    BY <1>1, DequeueLevels
  <2> QED  BY <1>4, <2>1
<1>6. \A e \in Emergencies : MatchedAfter(RemoveNode(q, e))
  BY <1>1, <1>4, RemoveNodeLevels
<1>7. ASSUME NEW e \in Emergencies, e \notin Nodes(q)
      PROVE  MatchedAfter(Enqueue(q, e, emergency[e].priority))
  <2> DEFINE p == emergency[e].priority
             r == Enqueue(q, e, p)
  <2>1. p \in Priorities
    BY DEF DataOK, DataTypeOK, Known
  <2>2. e \notin Level(q, p)
    BY <1>7, <2>1, NodesAreLevels
  <2>3. /\ QueueOK(r) /\ Level(r, p) = Level(q, p) \cup {e}
        /\ \A o \in Priorities : o # p => Level(r, o) = Level(q, o)
    BY <1>1, <2>1, <2>2, EnqueueLevels
  <2> HIDE DEF r
  <2>4. ASSUME NEW o \in Priorities, NEW x \in Level(r, o) PROVE emergency'[x].priority = o
    BY <1>2, <1>3, <2>3 DEF MatchedAfter
  <2> QED  BY <2>3, <2>4 DEF MatchedAfter, r
<1> QED  BY <1>3, <1>5, <1>6, <1>7

LEMMA DataAfter ==
    ASSUME PrioritiesKept \/ (DOMAIN emergency' = Emergencies
                              /\ \A e \in Emergencies : Known(emergency'[e])),
           MatchedAfter(waiting_queue'), MatchedAfter(working_queue'),
           completed_emergencies' \in NodeLists, canceled_emergencies' \in NodeLists,
           received' \subseteq Emergencies,
           node' \in [Workers -> Emergencies \cup {None}],
           node_mutex' \in [Emergencies -> Owners]
    PROVE  DataOK'
<1>1. DOMAIN emergency' = Emergencies /\ \A e \in Emergencies : Known(emergency'[e])
  BY DEF PrioritiesKept, SamePriority
<1>2. ListsMatchPriorities'
  <2>1. \A q \in {waiting_queue', working_queue'} : MatchedAfter(q)
    OBVIOUS
  <2> QED  BY <2>1 DEF ListsMatchPriorities, MatchedAfter, Level
<1>3. DataTypeOK'
  BY <1>1 DEF DataTypeOK, MatchedAfter
<1> QED  BY <1>2, <1>3 DEF DataOK

LEMMA WorkersKeepData ==
    ASSUME PlaceInvariant, NEW w \in Workers, WorkerStep(w) \/ SpuriousWakeup(w)
    PROVE  DataOK'
<1>1. /\ DataOK /\ PrioritiesKept /\ pc \in [Workers -> WorkerSteps]
      /\ completed_emergencies \in NodeLists /\ canceled_emergencies \in NodeLists
      /\ received \subseteq Emergencies
      /\ node \in [Workers -> Emergencies \cup {None}]
      /\ PlacesApart /\ HandledIsWorking
  BY WorkersKeepPriorities
     DEF PlaceInvariant, LockInvariant, ControlTypeOK, DataOK, DataTypeOK
<1>2. MatchedAfter(waiting_queue) /\ MatchedAfter(working_queue)
  BY <1>1, OperationsMatch
<1>3. /\ received' \subseteq Emergencies
      /\ node' \in [Workers -> Emergencies \cup {None}]
      /\ node_mutex' \in [Emergencies -> Owners]
  BY <1>1, NodesKeepTypes
<1>4. /\ MatchedAfter(waiting_queue') /\ MatchedAfter(working_queue')
      /\ completed_emergencies' \in NodeLists /\ canceled_emergencies' \in NodeLists
  <2>1. CASE UNCHANGED listVars
    BY <1>1, <1>2, <2>1 DEF listVars, archives
  <2>2. CASE TakeNode(w)
    <3>1. /\ waiting_queue' = Dequeue(waiting_queue)
          /\ UNCHANGED <<working_queue, archives>>
      BY <2>2 DEF TakeNode
    <3>2. MatchedAfter(Dequeue(waiting_queue))
      BY <1>1, OperationsMatch
    <3> QED  BY <1>1, <1>2, <3>1, <3>2 DEF archives
  <2>3. CASE EnqueueWorking(w)
    <3>1. UNCHANGED <<waiting_queue, archives>> /\ pc[w] = "lockWorking"
      BY <2>3 DEF EnqueueWorking
    <3>2. CASE node[w] = None
      <4>1. working_queue' = working_queue
        BY <2>3, <3>2 DEF EnqueueWorking
      <4> QED  BY <1>1, <1>2, <3>1, <4>1 DEF archives
    <3>3. CASE node[w] # None
      <4>1. working_queue' = Enqueue(working_queue, node[w], emergency[node[w]].priority)
        BY <2>3, <3>3 DEF EnqueueWorking
      <4>2. node[w] \in Emergencies /\ node[w] \notin Nodes(working_queue)
        BY <1>1, <3>1, <3>3 DEF PlacesApart, Transit, Working
      <4>3. MatchedAfter(Enqueue(working_queue, node[w], emergency[node[w]].priority))
        BY <1>1, <4>2, OperationsMatch
      <4> QED  BY <1>1, <1>2, <3>1, <4>1, <4>3 DEF archives
    <3> QED  BY <3>2, <3>3
  <2>4. CASE Complete(w) \/ Cancel(w) \/ Pause(w)
    <3>1. /\ node[w] \in Emergencies /\ waiting_queue' = waiting_queue
          /\ working_queue' = RemoveNode(working_queue, node[w])
          /\ completed_emergencies' \in NodeLists /\ canceled_emergencies' \in NodeLists
      BY <2>4, LeaveLists
    <3>2. MatchedAfter(RemoveNode(working_queue, node[w]))
      BY <1>1, <3>1, OperationsMatch
    <3> QED  BY <1>2, <3>1, <3>2
  <2>5. CalmStep(w) \/ RecheckCanceled(w) => UNCHANGED listVars
    BY <1>1, WorkersAreCalm, RecheckIsCalm
  <2> QED  BY <2>1, <2>2, <2>3, <2>4, <2>5 DEF WorkerStep, CalmStep
<1> QED  BY <1>1, <1>3, <1>4, DataAfter

LEMMA ReceiveKeepsData ==
    ASSUME PlaceInvariant, NEW e \in Emergencies, ReceiveRequest(e)
    PROVE  DataOK'
<1>1. /\ e \notin received /\ received' = received \cup {e}
      /\ waiting_queue' = Enqueue(waiting_queue, e, emergency[e].priority)
      /\ UNCHANGED <<node, node_mutex, working_queue, completed_emergencies,
                     canceled_emergencies, emergency>>
  BY DEF ReceiveRequest, archives, dataVars, locks
<1>2. DataOK /\ e \notin Nodes(waiting_queue) /\ DataTypeOK
  BY <1>1 DEF PlaceInvariant, DataOK, PlacesApart, Waiting
<1>3. PrioritiesKept
  BY <1>1, <1>2 DEF DataTypeOK, PrioritiesKept, SamePriority
<1>4. /\ MatchedAfter(Enqueue(waiting_queue, e, emergency[e].priority))
      /\ MatchedAfter(working_queue)
  BY <1>2, <1>3, OperationsMatch
<1> QED  BY <1>1, <1>2, <1>3, <1>4, DataAfter DEF DataTypeOK

(* A promotion changes the priority of the node and its list at once. *)
LEMMA PromotionMatches ==
    ASSUME PlaceInvariant, updater \in {"updateWorking", "updateWaiting"}, todo # <<>>,
           NEW r, SamePriority(emergency[Head(todo)], r),
           emergency' = [emergency EXCEPT ![Head(todo)] = WithPromotion(r)]
    PROVE  /\ DOMAIN emergency' = Emergencies
           /\ \A e \in Emergencies : Known(emergency'[e])
           /\ MatchedAfter(PromotedIn(ScannedQueue, Head(todo), r))
           /\ updater = "updateWorking" => MatchedAfter(waiting_queue)
           /\ updater = "updateWaiting" => MatchedAfter(working_queue)
<1> DEFINE x == Head(todo)
<1>1. /\ x \in Emergencies /\ x \in Nodes(ScannedQueue) /\ QueueOK(ScannedQueue)
      /\ x \in Level(ScannedQueue, level) /\ level \in Priorities
      /\ emergency[x].priority = level
  BY HeadIsScanned DEF Scanning
<1>2. /\ ScannedQueue \in {waiting_queue, working_queue}
      /\ updater = "updateWorking" => ScannedQueue = working_queue
      /\ updater = "updateWaiting" => ScannedQueue = waiting_queue
  BY DEF ScannedQueue
<1> HIDE DEF x
<1>3. /\ DOMAIN emergency = Emergencies /\ \A e \in Emergencies : Known(emergency[e])
      /\ QueueOK(waiting_queue) /\ QueueOK(working_queue)
      /\ Nodes(waiting_queue) \cap Nodes(working_queue) = {}
      /\ ListsMatchPriorities
  BY DEF PlaceInvariant, DataTypeOK, PlacesApart, Waiting, Working
<1>4. /\ Known(r) /\ r.priority = level
  BY <1>1 DEF SamePriority, x
<1>5. emergency' = [emergency EXCEPT ![x] = WithPromotion(r)]
  BY DEF x
<1>6. /\ Known(WithPromotion(r))
      /\ WithPromotion(r).priority = IF IsPromoted(r) THEN MEDIUM_PRIORITY ELSE level
  BY <1>4, PromotedRecord
<1>7. /\ DOMAIN emergency' = Emergencies
      /\ \A e \in Emergencies : Known(emergency'[e])
      /\ \A e \in Emergencies : e # x => emergency'[e] = emergency[e]
      /\ emergency'[x].priority = IF IsPromoted(r) THEN MEDIUM_PRIORITY ELSE level
  BY <1>1, <1>3, <1>5, <1>6
<1>8. ASSUME NEW q \in {waiting_queue, working_queue}
      PROVE  /\ QueueOK(q) /\ \A p \in Priorities : Level(q, p) \subseteq Emergencies
             /\ \A p \in Priorities : \A e \in Level(q, p) : emergency[e].priority = p
  BY <1>3, LevelsAreEmergencies DEF ListsMatchPriorities, Level
<1>9. ASSUME NEW q \in {waiting_queue, working_queue}, x \notin Nodes(q)
      PROVE  MatchedAfter(q)
  <2>1. \A p \in Priorities : x \notin Level(q, p)
    BY <1>9, NodesAreLevels
  <2> QED  BY <1>7, <1>8, <2>1 DEF MatchedAfter
<1>10. MatchedAfter(PromotedIn(ScannedQueue, x, r))
  <2>1. CASE IsPromoted(r)
    <3> DEFINE q == ChangePriority(ScannedQueue, x, MEDIUM_PRIORITY)
    <3>1. PromotedIn(ScannedQueue, x, r) = q
      BY <2>1 DEF PromotedIn
    <3>2. MEDIUM_PRIORITY \in Priorities
      BY DEF Priorities, MIN_PRIORITY, MEDIUM_PRIORITY, MAX_PRIORITY
    <3>3. /\ QueueOK(q)
          /\ Level(q, MEDIUM_PRIORITY) = Level(ScannedQueue, MEDIUM_PRIORITY) \cup {x}
          /\ \A o \in Priorities :
                o # MEDIUM_PRIORITY => Level(q, o) = Level(ScannedQueue, o) \ {x}
      BY <1>1, <3>2, ChangePriorityLevels
    <3> HIDE DEF q
    <3>4. ASSUME NEW p \in Priorities, NEW e \in Level(q, p)
          PROVE  emergency'[e].priority = p
      <4>1. CASE e = x
        BY <1>7, <2>1, <3>3, <4>1
      <4>2. CASE e # x
        <5>1. e \in Level(ScannedQueue, p)
          BY <3>3, <4>2
        <5> QED  BY <1>2, <1>7, <1>8, <4>2, <5>1
      <4> QED  BY <4>1, <4>2
    <3> QED  BY <3>1, <3>3, <3>4 DEF MatchedAfter
  <2>2. CASE ~IsPromoted(r)
    <3>1. PromotedIn(ScannedQueue, x, r) = ScannedQueue
      BY <2>2 DEF PromotedIn
    <3>2. \A p \in Priorities : \A e \in Level(ScannedQueue, p) : emergency'[e].priority = p
      BY <1>1, <1>2, <1>7, <1>8, <2>2
    <3> QED  BY <1>1, <3>1, <3>2 DEF MatchedAfter
  <2> QED  BY <2>1, <2>2
<1> QED  BY <1>1, <1>2, <1>3, <1>7, <1>9, <1>10 DEF x

LEMMA OthersKeepData ==
    ASSUME PlaceInvariant, OtherStep
    PROVE  DataOK'
<1>1. /\ DataOK
      /\ DOMAIN emergency = Emergencies /\ \A e \in Emergencies : Known(emergency[e])
      /\ completed_emergencies \in NodeLists /\ canceled_emergencies \in NodeLists
      /\ received \subseteq Emergencies
      /\ node \in [Workers -> Emergencies \cup {None}]
      /\ node_mutex \in [Emergencies -> Owners]
  BY DEF PlaceInvariant, DataOK, DataTypeOK
<1>2. CASE UpdateWorkingNode
  <2> DEFINE r == UpdatedWorking(Head(todo))
  <2>1. /\ updater = "updateWorking" /\ todo # <<>>
        /\ emergency' = [emergency EXCEPT ![Head(todo)] = WithPromotion(r)]
        /\ working_queue' = PromotedIn(working_queue, Head(todo), r)
        /\ UNCHANGED <<node, node_mutex, received, waiting_queue, completed_emergencies,
                       canceled_emergencies>>
    BY <1>2 DEF UpdateWorkingNode, OnlyUpdater, mainVars, archives, locks
  <2>2. SamePriority(emergency[Head(todo)], r)
    BY <2>1, HeadIsScanned, AgeingRecords DEF Scanning
  <2>3. ScannedQueue = working_queue
    BY <2>1 DEF ScannedQueue
  <2> HIDE DEF r
  <2>4. /\ DOMAIN emergency' = Emergencies /\ \A e \in Emergencies : Known(emergency'[e])
        /\ MatchedAfter(working_queue') /\ MatchedAfter(waiting_queue)
    BY <2>1, <2>2, <2>3, PromotionMatches
  <2> QED  BY <1>1, <2>1, <2>4, DataAfter
<1>3. CASE UpdateWaitingNode
  <2> DEFINE r == UpdatedWaiting(Head(todo))
  <2>1. /\ updater = "updateWaiting" /\ todo # <<>>
        /\ emergency' = [emergency EXCEPT ![Head(todo)] = WithPromotion(r)]
        /\ waiting_queue' = PromotedIn(waiting_queue, Head(todo), r)
        /\ UNCHANGED <<node, node_mutex, received, working_queue, completed_emergencies,
                       canceled_emergencies>>
    BY <1>3 DEF UpdateWaitingNode, OnlyUpdater, mainVars, archives, locks, poolVars
  <2>2. SamePriority(emergency[Head(todo)], r)
    BY <2>1, HeadIsScanned, AgeingRecords DEF Scanning
  <2>3. ScannedQueue = waiting_queue
    BY <2>1 DEF ScannedQueue
  <2> HIDE DEF r
  <2>4. /\ DOMAIN emergency' = Emergencies /\ \A e \in Emergencies : Known(emergency'[e])
        /\ MatchedAfter(waiting_queue') /\ MatchedAfter(working_queue)
    BY <2>1, <2>2, <2>3, PromotionMatches
  <2> QED  BY <1>1, <2>1, <2>4, DataAfter
<1>4. ASSUME PrioritiesKept, UNCHANGED <<received, node, node_mutex, listVars>>
      PROVE  DataOK'
  <2>1. MatchedAfter(waiting_queue) /\ MatchedAfter(working_queue)
    BY <1>1, <1>4, OperationsMatch
  <2> QED  BY <1>1, <1>4, <2>1, DataAfter DEF listVars, archives
<1>5. CASE CancelNode
  <2>1. /\ emergency' = [emergency EXCEPT ![Head(todo)].status = "CANCELED"]
        /\ UNCHANGED <<received, node, node_mutex, listVars>>
    BY <1>5 DEF CancelNode, WithStatus, OnlyUpdater, mainVars, locks
  <2>2. PrioritiesKept
    BY <1>1, <2>1 DEF PrioritiesKept, SamePriority, Known
  <2> QED  BY <1>4, <2>1, <2>2
<1>6. ASSUME UNCHANGED <<received, node, node_mutex, listVars, emergency>> PROVE DataOK'
  BY <1>1, <1>4, <1>6 DEF PrioritiesKept, SamePriority
<1>7. CASE CheckUpdater \/ TakeTick \/ UpdaterLockRescuers \/ UpdaterLockWaiting
           \/ UpdateRescuers
  BY <1>6, <1>7 DEF CheckUpdater, TakeTick, UpdaterLockRescuers, UpdaterLockWaiting,
                    UpdateRescuers, OnlyUpdater, mainVars, poolVars, locks, dataVars
<1>8. CASE ScanWaiting \/ EndUpdate \/ BeginCancelAll \/ EndCancelAll
  BY <1>6, <1>8 DEF ScanWaiting, EndUpdate, BeginCancelAll, EndCancelAll,
                    OnlyUpdater, mainVars, poolVars, locks, dataVars
<1>9. CASE ReceiveStop \/ CloseServer \/ ClockStep
  BY <1>6, <1>9 DEF ReceiveStop, CloseServer, ClockStep, Tick, StopClock, mainVars,
                    poolVars, locks, dataVars
<1> QED  BY <1>2, <1>3, <1>5, <1>7, <1>8, <1>9 DEF OtherStep, UpdaterStep

LEMMA NextData == PlaceInvariant /\ [Next]_vars => DataOK'
<1> SUFFICES ASSUME PlaceInvariant, [Next]_vars PROVE DataOK'
  OBVIOUS
<1>1. CASE OtherStep
  BY <1>1, OthersKeepData
<1>2. CASE \E e \in Emergencies : ReceiveRequest(e)
  BY <1>2, ReceiveKeepsData
<1>3. ASSUME NEW w \in Workers, WorkerStep(w) \/ SpuriousWakeup(w) PROVE DataOK'
  BY <1>3, WorkersKeepData
<1>4. CASE UNCHANGED vars
  <2>1. /\ UNCHANGED <<received, node, node_mutex, emergency, waiting_queue, working_queue>>
        /\ UNCHANGED <<completed_emergencies, canceled_emergencies>>
    BY <1>4 DEF vars, poolVars, mainVars, locks, dataVars, listVars, archives
  <2> QED  BY <2>1 DEF PlaceInvariant, DataOK, DataTypeOK, ListsMatchPriorities
<1> QED  BY <1>1, <1>2, <1>3, <1>4 DEF Next, OtherStep

--------------------------------------------------------------------------------
(* The mutex of a node. *)

NodeMutexOK ==
    /\ NodeMutexDiscipline /\ node_mutex \in [Emergencies -> Owners]
    /\ pc \in [Workers -> WorkerSteps] /\ node \in [Workers -> Emergencies \cup {None}]

(* A step that takes no mutex of a node and gives none back *)
MutexCalm ==
    /\ node_mutex' = node_mutex
    /\ \A w \in Workers :
          /\ pc'[w] \in HoldsNode <=> pc[w] \in HoldsNode
          /\ pc[w] \in HoldsNode => node'[w] = node[w]

LEMMA CalmMutex == NodeMutexDiscipline /\ MutexCalm => NodeMutexDiscipline'
BY DEF NodeMutexDiscipline, MutexCalm

LEMMA TakeMutex ==
    ASSUME NodeMutexOK, NEW w \in Workers, node[w] \in Emergencies,
           node_mutex[node[w]] = None, pc[w] \notin HoldsNode,
           node_mutex' = [node_mutex EXCEPT ![node[w]] = w], node' = node,
           NEW s \in HoldsNode, pc' = [pc EXCEPT ![w] = s]
    PROVE  NodeMutexDiscipline'
<1>1. w # Updater /\ w # None /\ \A u \in Workers : u # None
  BY ThreadsAssumption
<1>2. /\ \A u \in Workers : u # w => pc'[u] = pc[u]
      /\ pc'[w] \in HoldsNode
      /\ node_mutex'[node[w]] = w
      /\ \A e \in Emergencies : e # node[w] => node_mutex'[e] = node_mutex[e]
  BY DEF NodeMutexOK
<1>3. ASSUME NEW e \in Emergencies, NEW u \in Workers
      PROVE  node_mutex'[e] = u <=> pc'[u] \in HoldsNode /\ node'[u] = e
  BY <1>1, <1>2 DEF NodeMutexOK, NodeMutexDiscipline
<1>4. \A e \in Emergencies : node_mutex'[e] # Updater
  BY <1>1, <1>2 DEF NodeMutexOK, NodeMutexDiscipline
<1> QED  BY <1>3, <1>4 DEF NodeMutexDiscipline

LEMMA ReleaseMutex ==
    ASSUME NodeMutexOK, NEW w \in Workers, node[w] \in Emergencies,
           pc[w] \in HoldsNode, NEW s, s \notin HoldsNode,
           node_mutex' = [node_mutex EXCEPT ![node[w]] = None],
           pc' = [pc EXCEPT ![w] = s],
           \A u \in Workers : u # w => node'[u] = node[u]
    PROVE  NodeMutexDiscipline'
<1>1. None # Updater /\ \A u \in Workers : u # None
  BY ThreadsAssumption
<1>2. /\ \A u \in Workers : u # w => pc'[u] = pc[u] /\ node'[u] = node[u]
      /\ pc'[w] \notin HoldsNode
      /\ node_mutex[node[w]] = w /\ node_mutex'[node[w]] = None
      /\ \A e \in Emergencies : e # node[w] => node_mutex'[e] = node_mutex[e]
  BY DEF NodeMutexOK, NodeMutexDiscipline
<1>3. ASSUME NEW e \in Emergencies, NEW u \in Workers
      PROVE  node_mutex'[e] = u <=> pc'[u] \in HoldsNode /\ node'[u] = e
  BY <1>1, <1>2 DEF NodeMutexOK, NodeMutexDiscipline
<1>4. \A e \in Emergencies : node_mutex'[e] # Updater
  BY <1>1, <1>2 DEF NodeMutexOK, NodeMutexDiscipline
<1> QED  BY <1>3, <1>4 DEF NodeMutexDiscipline

LEMMA WorkersKeepMutex ==
    ASSUME PlaceInvariant, NEW w \in Workers, WorkerStep(w) \/ SpuriousWakeup(w)
    PROVE  NodeMutexDiscipline'
<1>1. NodeMutexOK
  BY DEF PlaceInvariant, LockInvariant, ControlTypeOK, DataTypeOK, NodeMutexOK
<1>2. pc[w] \in Handling => node[w] \in Emergencies
  BY LevelsAreEmergencies
     DEF PlaceInvariant, DataTypeOK, HandledIsWorking, Working
<1>3. CASE BeginSearch(w)
  <2>1. /\ pc[w] = "lockNode" /\ node_mutex[node[w]] = None
        /\ node_mutex' = [node_mutex EXCEPT ![node[w]] = w] /\ node' = node
        /\ pc' = [pc EXCEPT ![w] = "lockRescuers"]
    BY <1>3 DEF BeginSearch
  <2> QED  BY <1>1, <1>2, <2>1, TakeMutex DEF HoldsNode, Handling
<1>4. CASE RetrySearch(w)
  <2>1. /\ pc[w] = "retryWait" /\ node_mutex[node[w]] = None
        /\ node_mutex' = [node_mutex EXCEPT ![node[w]] = w] /\ node' = node
        /\ \E s \in {"cancel", "lockRescuers"} : pc' = [pc EXCEPT ![w] = s]
    BY <1>4 DEF RetrySearch
  <2> QED  BY <1>1, <1>2, <2>1, TakeMutex DEF HoldsNode, Handling
<1>5. CASE GiveUpArrival(w) \/ EndProcessing(w)
  <2>1. PICK next \in {"pause", "cancel", "complete"} :
           pc[w] \in {"arriveWoken", "finishWoken"} /\ ResumeWith(w, next)
    BY <1>5 DEF GiveUpArrival, EndProcessing, AfterWait
  <2>2. /\ node_mutex[node[w]] = None /\ node' = node
        /\ node_mutex' = [node_mutex EXCEPT ![node[w]] = w]
        /\ pc' = [pc EXCEPT ![w] = next]
    BY <2>1 DEF ResumeWith
  <2> QED  BY <1>1, <1>2, <2>1, <2>2, TakeMutex DEF HoldsNode, Handling
<1>6. CASE SearchFails(w) \/ SearchEnds(w)
  <2>1. /\ pc[w] = "search" /\ node' = node
        /\ node_mutex' = [node_mutex EXCEPT ![node[w]] = None]
        /\ \E s \in {"retryWait", "arriveWait"} : pc' = [pc EXCEPT ![w] = s]
    BY <1>6 DEF SearchFails, SearchEnds, Sending
  <2> QED  BY <1>1, <1>2, <2>1, ReleaseMutex DEF HoldsNode, Handling
<1>7. CASE Complete(w) \/ Cancel(w) \/ Pause(w)
  <2>1. /\ pc[w] \in {"complete", "cancel", "pauseLocked"}
        /\ node' = node \/ node' = [node EXCEPT ![w] = None]
        /\ node_mutex' = [node_mutex EXCEPT ![node[w]] = None]
        /\ \E s \in {"check", "recheck"} : pc' = [pc EXCEPT ![w] = s]
    BY <1>7 DEF Complete, Cancel, Pause, Released
  <2>2. \A u \in Workers : u # w => node'[u] = node[u]
    BY <1>1, <2>1 DEF NodeMutexOK
  <2> QED  BY <1>1, <1>2, <2>1, <2>2, ReleaseMutex DEF HoldsNode, Handling
<1>8. CASE RecheckCanceled(w)
  <2>1. pc' = [pc EXCEPT ![w] = "check"]
    BY <1>8, RecheckIsCalm
  <2>2. /\ pc[w] = "recheck" /\ node_mutex' = node_mutex
        /\ node' = node \/ node' = [node EXCEPT ![w] = None]
    BY <1>8 DEF RecheckCanceled, locks
  <2> QED  BY <1>1, <2>1, <2>2, CalmMutex DEF MutexCalm, NodeMutexOK, HoldsNode
<1>9. CASE PauseAndSend(w)
  <2> DEFINE victim == twin[NextToSend(w)].node
             before == IF emergency[victim].status = "PAUSED" THEN pc
                                                              ELSE SignalNode(victim)
  <2>1. /\ pc[w] = "steal" /\ pc' = [before EXCEPT ![w] = "search"]
        /\ UNCHANGED <<node, node_mutex>>
    BY <1>9 DEF PauseAndSend, locks
  <2>2. /\ before \in [Workers -> WorkerSteps]
        /\ \A u \in Workers : before[u] \in HoldsNode <=> pc[u] \in HoldsNode
    BY <1>1 DEF SignalNode, WokenFrom, NodeMutexOK, WorkerSteps, HoldsNode
  <2> HIDE DEF before
  <2> QED  BY <1>1, <2>1, <2>2, CalmMutex DEF MutexCalm, NodeMutexOK, HoldsNode
<1>10. CASE \/ CheckStop(w) \/ WaitForWork(w) \/ TakeNode(w) \/ EnqueueWorking(w)
            \/ SearchRescuers(w) \/ (\E e \in Emergencies : ProbeNode(w, e))
            \/ SendFree(w) \/ DecideToSteal(w)
  <2>1. MutexCalm
    BY <1>1, <1>10
       DEF MutexCalm, NodeMutexOK, HoldsNode, CheckStop, WaitForWork, TakeNode,
           EnqueueWorking, SearchRescuers, ProbeNode, SendFree, DecideToSteal,
           Sending, locks
  <2> QED  BY <1>1, <2>1, CalmMutex DEF NodeMutexOK
<1>11. CASE \/ BeginProcessing(w) \/ WaitAgain(w) \/ PauseLockWaiting(w)
            \/ SpuriousWakeup(w)
  <2>1. MutexCalm
    BY <1>1, <1>11
       DEF MutexCalm, NodeMutexOK, HoldsNode, BeginProcessing, WaitAgain,
           PauseLockWaiting, SpuriousWakeup, WokenFrom, locks
  <2> QED  BY <1>1, <2>1, CalmMutex DEF NodeMutexOK
<1> QED  BY <1>3, <1>4, <1>5, <1>6, <1>7, <1>8, <1>9, <1>10, <1>11
         DEF WorkerStep, SearchStep

(* The signals of the receiver and the updater, who lock and unlock a node *)
(* within one step, if at all.                                             *)
LEMMA OthersKeepMutex ==
    ASSUME PlaceInvariant, OtherStep \/ \E e \in Emergencies : ReceiveRequest(e)
    PROVE  NodeMutexDiscipline'
<1>1. NodeMutexOK
  BY DEF PlaceInvariant, LockInvariant, ControlTypeOK, DataTypeOK, NodeMutexOK
<1>2. UNCHANGED <<node, node_mutex>> /\ (pc' = pc \/ SignalNotEmpty \/ \E e : pc' = SignalNode(e))
  <2>1. CASE \E e \in Emergencies : ReceiveRequest(e)
    BY <2>1 DEF ReceiveRequest, locks
  <2>2. CASE UpdateWorkingNode \/ UpdateWaitingNode \/ CancelNode
    BY <2>2 DEF UpdateWorkingNode, UpdateWaitingNode, CancelNode, locks, poolVars
  <2>3. CASE CheckUpdater \/ TakeTick \/ UpdaterLockRescuers \/ UpdaterLockWaiting
             \/ UpdateRescuers
    BY <2>3 DEF CheckUpdater, TakeTick, UpdaterLockRescuers, UpdaterLockWaiting,
                UpdateRescuers, poolVars, locks
  <2>4. CASE ScanWaiting \/ EndUpdate \/ BeginCancelAll \/ EndCancelAll
    BY <2>4 DEF ScanWaiting, EndUpdate, BeginCancelAll, EndCancelAll, poolVars, locks
  <2>5. CASE ReceiveStop \/ CloseServer \/ ClockStep
    BY <2>5 DEF ReceiveStop, CloseServer, ClockStep, Tick, StopClock, poolVars, locks
  <2> QED  BY <2>1, <2>2, <2>3, <2>4, <2>5 DEF OtherStep, UpdaterStep
<1>3. \A w \in Workers : pc'[w] \in HoldsNode <=> pc[w] \in HoldsNode
  <2>1. ASSUME NEW e, pc' = SignalNode(e)
        PROVE  \A w \in Workers : pc'[w] \in HoldsNode <=> pc[w] \in HoldsNode
    BY <1>1, <2>1 DEF NodeMutexOK, SignalNode, WokenFrom, HoldsNode, WorkerSteps
  <2>2. ASSUME SignalNotEmpty
        PROVE  \A w \in Workers : pc'[w] \in HoldsNode <=> pc[w] \in HoldsNode
    BY <1>1, <2>2 DEF NodeMutexOK, SignalNotEmpty, Asleep, HoldsNode, WorkerSteps
  <2> QED  BY <1>2, <2>1, <2>2
<1> QED  BY <1>1, <1>2, <1>3, CalmMutex DEF MutexCalm, NodeMutexOK

LEMMA NextMutex == PlaceInvariant /\ [Next]_vars => NodeMutexDiscipline'
<1> SUFFICES ASSUME PlaceInvariant, [Next]_vars PROVE NodeMutexDiscipline'
  OBVIOUS
<1>1. CASE OtherStep \/ \E e \in Emergencies : ReceiveRequest(e)
  BY <1>1, OthersKeepMutex
<1>2. ASSUME NEW w \in Workers, WorkerStep(w) \/ SpuriousWakeup(w)
      PROVE  NodeMutexDiscipline'
  BY <1>2, WorkersKeepMutex
<1>3. CASE UNCHANGED vars
  <2>1. UNCHANGED <<pc, node, node_mutex>>
    BY <1>3 DEF vars, poolVars, locks
  <2> QED  BY <2>1 DEF PlaceInvariant, NodeMutexDiscipline
<1> QED  BY <1>1, <1>2, <1>3 DEF Next, OtherStep

--------------------------------------------------------------------------------
(* A scan *)

(* Whoever is not the updater changes the queue of a scan only when it     *)
(* holds the mutex of that queue, which the updater holds as long as it    *)
(* scans.                                                                  *)
LEMMA ScanIsLocked ==
    ASSUME PlaceInvariant
    PROVE  /\ updater \in Scanning => working_mutex = Updater /\ working_mutex # None
           /\ updater = "updateWaiting" => waiting_mutex = Updater /\ waiting_mutex # None
BY ThreadsAssumption
   DEF PlaceInvariant, LockInvariant, QueueMutexDiscipline, Scanning,
       UpdaterHoldsWorking, UpdaterHoldsWaiting

LEMMA WorkersSpareTheScan ==
    ASSUME PlaceInvariant,
           \/ \E e \in Emergencies : ReceiveRequest(e)
           \/ \E w \in Workers : WorkerStep(w) \/ SpuriousWakeup(w)
    PROVE  ScanIsAPlace'
<1>1. /\ UNCHANGED <<updater, level, todo>>
      /\ updater = "updateWaiting" => waiting_queue' = waiting_queue
      /\ updater \in Scanning => working_queue' = working_queue
  <2>1. CASE \E e \in Emergencies : ReceiveRequest(e)
    <3>1. UNCHANGED <<updater, level, todo, working_queue>> /\ waiting_mutex = None
      BY <2>1 DEF ReceiveRequest, scanVars
    <3> QED  BY <3>1, ScanIsLocked
  <2>2. ASSUME NEW w \in Workers, CalmStep(w) \/ RecheckCanceled(w)
        PROVE  UNCHANGED <<updater, level, todo, waiting_queue, working_queue>>
    <3>1. UNCHANGED listVars
      <4>1. pc \in [Workers -> WorkerSteps]
        BY DEF PlaceInvariant, LockInvariant, ControlTypeOK
      <4> QED  BY <2>2, <4>1, WorkersAreCalm, RecheckIsCalm
    <3> USE DEF OnlyWorkers, scanVars
    <3>2. CASE \/ CheckStop(w) \/ WaitForWork(w) \/ BeginSearch(w) \/ RecheckCanceled(w)
               \/ PauseLockWaiting(w) \/ SpuriousWakeup(w)
      BY <3>1, <3>2 DEF CheckStop, WaitForWork, BeginSearch, RecheckCanceled,
                        PauseLockWaiting, SpuriousWakeup, listVars
    <3>3. CASE SearchStep(w)
      BY <3>1, <3>3 DEF SearchStep, SearchRescuers, ProbeNode, SearchFails, RetrySearch,
                        SendFree, DecideToSteal, PauseAndSend, SearchEnds, listVars
    <3>4. CASE BeginProcessing(w) \/ GiveUpArrival(w) \/ EndProcessing(w) \/ WaitAgain(w)
      BY <3>1, <3>4 DEF BeginProcessing, GiveUpArrival, EndProcessing, ResumeWith,
                        WaitAgain, listVars
    <3> QED  BY <2>2, <3>2, <3>3, <3>4 DEF CalmStep
  <2>3. ASSUME NEW w \in Workers, TakeNode(w)
        PROVE  UNCHANGED <<updater, level, todo, working_queue>> /\ waiting_mutex = None
    BY <2>3 DEF TakeNode, OnlyWorkers, scanVars
  <2>4. ASSUME NEW w \in Workers,
               EnqueueWorking(w) \/ Complete(w) \/ Cancel(w) \/ Pause(w)
        PROVE  UNCHANGED <<updater, level, todo, waiting_queue>> /\ working_mutex = None
    BY <2>4 DEF EnqueueWorking, Complete, Cancel, Pause, ShelvePaused, OnlyWorkers,
                scanVars
  <2> QED  BY <2>1, <2>2, <2>3, <2>4, ScanIsLocked
           DEF WorkerStep, CalmStep, Scanning
<1>2. updater \in Scanning => ScannedQueue' = ScannedQueue
  BY <1>1 DEF ScannedQueue
<1>3. ScanIsAPlace
  BY DEF PlaceInvariant
<1> QED  BY <1>1, <1>2, <1>3 DEF ScanIsAPlace

(* A list scanned loses no node but the one that was promoted, which the   *)
(* scan has left behind.                                                   *)
LEMMA NextPlaceOK ==
    ASSUME PlaceInvariant, updater \in Scanning, todo # <<>>, NEW q, QueueOK(q),
           Level(ScannedQueue, level) \ {Head(todo)} \subseteq Level(q, level)
    PROVE  PlaceOK(q, NextIn(q))
<1>1. /\ level \in Priorities /\ todo \in NodeLists
      /\ ToSet(todo) \subseteq Level(ScannedQueue, level)
  BY DEF PlaceInvariant, ScanIsAPlace, PlaceOK
<1>2. CASE Tail(todo) # <<>>
  <2>1. NextIn(q) = [level |-> level, todo |-> Tail(todo)]
    BY <1>2 DEF NextIn
  <2>2. Tail(todo) \in NodeLists /\ ToSet(Tail(todo)) = ToSet(todo) \ {Head(todo)}
    BY <1>1, TailOfList
  <2> QED  BY <1>1, <2>1, <2>2 DEF PlaceOK
<1>3. CASE Tail(todo) = <<>>
  <2>1. NextIn(q) = Upwards(q, level + 1)
    BY <1>3 DEF NextIn
  <2>2. level + 1 \in Int
    BY <1>1 DEF Priorities, MIN_PRIORITY, MAX_PRIORITY
  <2> QED  BY <2>1, <2>2, UpwardsIsAPlace
<1> QED  BY <1>2, <1>3

LEMMA PromotionSparesTheScan ==
    ASSUME PlaceInvariant, updater \in Scanning, todo # <<>>, NEW r
    PROVE  LET q == PromotedIn(ScannedQueue, Head(todo), r) IN PlaceOK(q, NextIn(q))
<1> DEFINE q == PromotedIn(ScannedQueue, Head(todo), r)
           c == ChangePriority(ScannedQueue, Head(todo), MEDIUM_PRIORITY)
<1>1. /\ Head(todo) \in Emergencies /\ QueueOK(ScannedQueue) /\ level \in Priorities
      /\ MEDIUM_PRIORITY \in Priorities
  BY HeadIsScanned DEF Priorities, MIN_PRIORITY, MEDIUM_PRIORITY, MAX_PRIORITY
<1>2. /\ QueueOK(c)
      /\ Level(c, MEDIUM_PRIORITY) = Level(ScannedQueue, MEDIUM_PRIORITY) \cup {Head(todo)}
      /\ \A o \in Priorities :
            o # MEDIUM_PRIORITY => Level(c, o) = Level(ScannedQueue, o) \ {Head(todo)}
  BY <1>1, ChangePriorityLevels
<1>3. q = c \/ q = ScannedQueue
  BY DEF PromotedIn
<1> HIDE DEF q, c
<1>4. QueueOK(q) /\ Level(ScannedQueue, level) \ {Head(todo)} \subseteq Level(q, level)
  BY <1>1, <1>2, <1>3
<1>5. PlaceOK(q, NextIn(q))
  BY <1>4, NextPlaceOK
<1> QED  BY <1>5 DEF q

LEMMA OthersSpareTheScan ==
    ASSUME PlaceInvariant, OtherStep
    PROVE  ScanIsAPlace'
<1>1. QueueOK(waiting_queue) /\ QueueOK(working_queue) /\ ScanIsAPlace
  BY DEF PlaceInvariant, DataTypeOK
<1>2. ASSUME NEW q, NEW place, PlaceOK(q, place), MoveTo(place)
      PROVE  PlaceOK(q, [level |-> level', todo |-> todo'])
  BY <1>2 DEF MoveTo, PlaceOK
<1>3. CASE UpdateWorkingNode
  <2> DEFINE r == UpdatedWorking(Head(todo))
             q == PromotedIn(working_queue, Head(todo), r)
  <2>1. /\ updater = "updateWorking" /\ todo # <<>> /\ updater' = updater
        /\ working_queue' = q /\ MoveTo(NextIn(working_queue'))
    BY <1>3 DEF UpdateWorkingNode
  <2>2. updater \in Scanning /\ ScannedQueue = working_queue /\ ScannedQueue' = working_queue'
    BY <2>1 DEF Scanning, ScannedQueue
  <2> HIDE DEF r
  <2>3. PlaceOK(q, NextIn(q))
    BY <2>1, <2>2, PromotionSparesTheScan
  <2> HIDE DEF q
  <2> QED  BY <1>2, <2>1, <2>2, <2>3 DEF ScanIsAPlace
<1>4. CASE UpdateWaitingNode
  <2> DEFINE r == UpdatedWaiting(Head(todo))
             q == PromotedIn(waiting_queue, Head(todo), r)
  <2>1. /\ updater = "updateWaiting" /\ todo # <<>> /\ updater' = updater
        /\ waiting_queue' = q /\ MoveTo(NextIn(waiting_queue'))
    BY <1>4 DEF UpdateWaitingNode
  <2>2. updater \in Scanning /\ ScannedQueue = waiting_queue /\ ScannedQueue' = waiting_queue'
    BY <2>1 DEF Scanning, ScannedQueue
  <2> HIDE DEF r
  <2>3. PlaceOK(q, NextIn(q))
    BY <2>1, <2>2, PromotionSparesTheScan
  <2> HIDE DEF q
  <2> QED  BY <1>2, <2>1, <2>2, <2>3 DEF ScanIsAPlace
<1>5. CASE CancelNode
  <2>1. /\ updater = "cancelling" /\ todo # <<>> /\ updater' = updater
        /\ working_queue' = working_queue /\ MoveTo(NextIn(working_queue))
    BY <1>5 DEF CancelNode, listVars
  <2>2. updater \in Scanning /\ ScannedQueue = working_queue /\ ScannedQueue' = working_queue'
    BY <2>1 DEF Scanning, ScannedQueue
  <2>3. PlaceOK(working_queue, NextIn(working_queue))
    BY <1>1, <2>1, <2>2, NextPlaceOK
  <2> QED  BY <1>2, <2>1, <2>2, <2>3 DEF ScanIsAPlace
<1>6. ASSUME NEW q \in {waiting_queue, working_queue}, MoveTo(StartOf(q))
      PROVE  PlaceOK(q, [level |-> level', todo |-> todo'])
  <2>1. QueueOK(q) /\ MIN_PRIORITY \in Int
    BY <1>1 DEF MIN_PRIORITY
  <2>2. PlaceOK(q, StartOf(q))
    BY <2>1, UpwardsIsAPlace DEF StartOf
  <2> QED  BY <1>2, <1>6, <2>2
<1>7. CASE UpdateRescuers \/ BeginCancelAll
  <2>1. /\ updater' \in {"updateWorking", "cancelling"}
        /\ working_queue' = working_queue /\ MoveTo(StartOf(working_queue))
    BY <1>7 DEF UpdateRescuers, BeginCancelAll, listVars
  <2>2. ScannedQueue' = working_queue
    BY <2>1 DEF ScannedQueue
  <2> QED  BY <1>6, <2>1, <2>2 DEF ScanIsAPlace
<1>8. CASE ScanWaiting
  <2>1. /\ updater' = "updateWaiting"
        /\ waiting_queue' = waiting_queue /\ MoveTo(StartOf(waiting_queue))
    BY <1>8 DEF ScanWaiting, listVars
  <2>2. ScannedQueue' = waiting_queue
    BY <2>1 DEF ScannedQueue
  <2> QED  BY <1>6, <2>1, <2>2 DEF ScanIsAPlace
<1>9. CASE \/ CheckUpdater \/ TakeTick \/ UpdaterLockRescuers \/ UpdaterLockWaiting
           \/ EndUpdate \/ EndCancelAll
  <2>1. updater' \notin Scanning
    BY <1>9 DEF CheckUpdater, TakeTick, UpdaterLockRescuers, UpdaterLockWaiting,
                EndUpdate, EndCancelAll, Scanning
  <2> QED  BY <2>1 DEF ScanIsAPlace
<1>10. CASE ReceiveStop \/ CloseServer \/ ClockStep
  <2>1. UNCHANGED <<updater, level, todo, waiting_queue, working_queue>>
    BY <1>10 DEF ReceiveStop, CloseServer, ClockStep, Tick, StopClock, scanVars, listVars
  <2> QED  BY <1>1, <2>1 DEF ScanIsAPlace, ScannedQueue
<1> QED  BY <1>3, <1>4, <1>5, <1>7, <1>8, <1>9, <1>10 DEF OtherStep, UpdaterStep

LEMMA NextScan == PlaceInvariant /\ [Next]_vars => ScanIsAPlace'
<1> SUFFICES ASSUME PlaceInvariant, [Next]_vars PROVE ScanIsAPlace'
  OBVIOUS
<1>1. CASE OtherStep
  BY <1>1, OthersSpareTheScan
<1>2. CASE \/ \E e \in Emergencies : ReceiveRequest(e)
           \/ \E w \in Workers : WorkerStep(w) \/ SpuriousWakeup(w)
  BY <1>2, WorkersSpareTheScan
<1>3. CASE UNCHANGED vars
  <2>1. UNCHANGED <<updater, level, todo, waiting_queue, working_queue>>
    BY <1>3 DEF vars, scanVars, listVars
  <2> QED  BY <2>1 DEF PlaceInvariant, ScanIsAPlace, ScannedQueue
<1> QED  BY <1>1, <1>2, <1>3 DEF Next, OtherStep

--------------------------------------------------------------------------------
(* A paused node *)

PausedKept ==
    \A w \in Workers : pc[w] \in PausedSteps => emergency'[node[w]].status = "PAUSED"

(* A node in a queue whose mutex is free, or owned by a worker that is not *)
(* about to pause it, is not paused by a worker now.                       *)
LEMMA NotPausedNow ==
    ASSUME PlaceInvariant, NEW e \in Emergencies, e \in Waiting \/ e \in Working,
           NEW o, node_mutex[e] = o, o = None \/ (o \in Workers /\ pc[o] \notin PausedSteps)
    PROVE  \A w \in Workers : pc[w] \in PausedSteps => node[w] # e
<1> SUFFICES ASSUME NEW w \in Workers, pc[w] \in PausedSteps, node[w] = e PROVE FALSE
  OBVIOUS
<1>1. CASE pc[w] = "recheck"
  BY <1>1 DEF PlaceInvariant, PausedStays, PlacesApart
<1>2. CASE pc[w] \in {"pause", "pauseLocked"}
  <2>1. node_mutex[e] = w
    BY <1>2 DEF PlaceInvariant, NodeMutexDiscipline, HoldsNode
  <2> QED  BY <2>1, ThreadsAssumption
<1> QED  BY <1>1, <1>2 DEF PausedSteps

LEMMA WorkersKeepPaused ==
    ASSUME PlaceInvariant, NEW w \in Workers, WorkerStep(w) \/ SpuriousWakeup(w)
    PROVE  PausedKept
<1>1. /\ DOMAIN emergency = Emergencies /\ \A e \in Emergencies : Known(emergency[e])
      /\ \A u \in Workers : pc[u] \in PausedSteps =>
            node[u] \in Emergencies /\ emergency[node[u]].status = "PAUSED"
  BY DEF PlaceInvariant, DataTypeOK, PausedStays
<1>2. pc[w] \in Handling => node[w] \in Emergencies /\ node[w] \in Working
  BY LevelsAreEmergencies DEF PlaceInvariant, DataTypeOK, HandledIsWorking, Working
<1>3. emergency' = emergency => PausedKept
  BY <1>1 DEF PausedKept
<1>4. CASE BeginSearch(w) \/ BeginProcessing(w)
  <2>1. /\ pc[w] \in {"lockNode", "arriveWoken"} /\ node_mutex[node[w]] = None
        /\ \A e \in Emergencies : e # node[w] => emergency'[e] = emergency[e]
    BY <1>1, <1>4 DEF BeginSearch, BeginProcessing, WithStatus
  <2>2. \A u \in Workers : pc[u] \in PausedSteps => node[u] # node[w]
    BY <1>2, <2>1, NotPausedNow DEF Handling
  <2> QED  BY <1>1, <2>1, <2>2 DEF PausedKept
<1>5. CASE SearchEnds(w)
  <2>1. /\ pc[w] = "search"
        /\ \A e \in Emergencies : e # node[w] => emergency'[e] = emergency[e]
    BY <1>1, <1>5 DEF SearchEnds, Sending
  <2>2. node[w] \in Emergencies /\ node[w] \in Working
    BY <1>2, <2>1 DEF Handling
  <2>3. node_mutex[node[w]] = w /\ pc[w] \notin PausedSteps
    BY <2>1, <2>2 DEF PlaceInvariant, NodeMutexDiscipline, HoldsNode, PausedSteps
  <2>4. \A u \in Workers : pc[u] \in PausedSteps => node[u] # node[w]
    BY <2>2, <2>3, NotPausedNow
  <2> QED  BY <1>1, <2>1, <2>4 DEF PausedKept
<1>6. CASE SearchFails(w) \/ SendFree(w)
  <2>1. \A e \in Emergencies : emergency'[e].status = emergency[e].status
    <3>1. CASE SearchFails(w)
      <4>1. emergency' = [emergency EXCEPT ![node[w]].rescuers_found = FALSE]
        BY <3>1 DEF SearchFails
      <4> QED  BY <1>1, <4>1 DEF Known
    <3>2. CASE SendFree(w)
      <4>1. emergency' = [emergency EXCEPT
                            ![node[w]] = WithTwin(@, sent[w] + 1, NextToSend(w))]
        BY <3>2 DEF SendFree
      <4> QED  BY <1>1, <4>1, WorkerRecords
    <3> QED  BY <1>6, <3>1, <3>2
  <2> QED  BY <1>1, <2>1 DEF PausedKept
<1>7. CASE PauseAndSend(w)
  <2> DEFINE t == NextToSend(w)
             victim == twin[t].node
             before == [emergency EXCEPT ![victim] = Paused(@)]
             after(r) == WithTwin(r, sent[w] + 1, t)
  <2>1. \A e \in Emergencies :
           emergency'[e] \in {before[e], after(before[e]), after(emergency[e])}
    <3>1. emergency' = [emergency EXCEPT ![victim] = Paused(@), ![node[w]] = after(@)]
      BY <1>7 DEF PauseAndSend
    <3> HIDE DEF after
    <3> QED  BY <1>1, <3>1
  <2>2. \A e \in Emergencies :
           Known(before[e]) /\ before[e].status \in {emergency[e].status, "PAUSED"}
    BY <1>1, WorkerRecords DEF SamePriority
  <2>3. \A r : Known(r) => after(r).status = r.status
    BY WorkerRecords
  <2> HIDE DEF before, after
  <2>4. ASSUME NEW e \in Emergencies
        PROVE  emergency'[e].status \in {emergency[e].status, "PAUSED"}
    <3>1. /\ after(before[e]).status = before[e].status
          /\ after(emergency[e]).status = emergency[e].status
      BY <1>1, <2>2, <2>3
    <3>2. emergency'[e] \in {before[e], after(before[e]), after(emergency[e])}
      BY <2>1
    <3> QED  BY <2>2, <3>1, <3>2
  <2> QED  BY <1>1, <2>4 DEF PausedKept
<1>8. CASE \/ CheckStop(w) \/ WaitForWork(w) \/ TakeNode(w) \/ EnqueueWorking(w)
           \/ SearchRescuers(w) \/ (\E e \in Emergencies : ProbeNode(w, e))
           \/ RetrySearch(w) \/ DecideToSteal(w)
  BY <1>3, <1>8 DEF CheckStop, WaitForWork, TakeNode, EnqueueWorking, SearchRescuers,
                    ProbeNode, RetrySearch, DecideToSteal, dataVars
<1>9. CASE \/ GiveUpArrival(w) \/ EndProcessing(w) \/ WaitAgain(w) \/ Complete(w)
           \/ Cancel(w) \/ PauseLockWaiting(w) \/ Pause(w) \/ RecheckCanceled(w)
           \/ SpuriousWakeup(w)
  BY <1>3, <1>9 DEF GiveUpArrival, EndProcessing, ResumeWith, WaitAgain, Complete,
                    Cancel, PauseLockWaiting, Pause, RecheckCanceled, SpuriousWakeup,
                    dataVars
<1> QED  BY <1>4, <1>5, <1>6, <1>7, <1>8, <1>9 DEF WorkerStep, SearchStep

LEMMA OthersKeepPaused ==
    ASSUME PlaceInvariant, OtherStep \/ \E e \in Emergencies : ReceiveRequest(e)
    PROVE  PausedKept
<1>1. /\ DOMAIN emergency = Emergencies
      /\ \A u \in Workers : pc[u] \in PausedSteps =>
            node[u] \in Emergencies /\ emergency[node[u]].status = "PAUSED"
  BY DEF PlaceInvariant, DataTypeOK, PausedStays
<1>2. emergency' = emergency => PausedKept
  BY <1>1 DEF PausedKept
<1>3. CASE UpdateWorkingNode \/ UpdateWaitingNode \/ CancelNode
  <2> DEFINE x == Head(todo)
  <2>1. /\ updater \in Scanning /\ todo # <<>> /\ node_mutex[x] = None
        /\ \A e \in Emergencies : e # x => emergency'[e] = emergency[e]
    BY <1>1, <1>3 DEF UpdateWorkingNode, UpdateWaitingNode, CancelNode, WithStatus,
                      Scanning
  <2>2. x \in Emergencies /\ (x \in Waiting \/ x \in Working)
    BY <2>1, HeadIsScanned DEF ScannedQueue, Waiting, Working
  <2>3. \A u \in Workers : pc[u] \in PausedSteps => node[u] # x
    BY <2>1, <2>2, NotPausedNow
  <2> QED  BY <1>1, <2>1, <2>3 DEF PausedKept
<1>4. CASE \E e \in Emergencies : ReceiveRequest(e)
  BY <1>2, <1>4 DEF ReceiveRequest, dataVars
<1>5. CASE CheckUpdater \/ TakeTick \/ UpdaterLockRescuers \/ UpdaterLockWaiting
           \/ UpdateRescuers
  BY <1>2, <1>5 DEF CheckUpdater, TakeTick, UpdaterLockRescuers, UpdaterLockWaiting,
                    UpdateRescuers, dataVars
<1>6. CASE ScanWaiting \/ EndUpdate \/ BeginCancelAll \/ EndCancelAll
  BY <1>2, <1>6 DEF ScanWaiting, EndUpdate, BeginCancelAll, EndCancelAll, dataVars
<1>7. CASE ReceiveStop \/ CloseServer \/ ClockStep
  BY <1>2, <1>7 DEF ReceiveStop, CloseServer, ClockStep, Tick, StopClock, dataVars
<1> QED  BY <1>3, <1>4, <1>5, <1>6, <1>7 DEF OtherStep, UpdaterStep

LEMMA ShelvedGrows ==
    ASSUME PlaceInvariant, NEW w \in Workers, WorkerStep(w) \/ SpuriousWakeup(w)
    PROVE  /\ Shelved \subseteq Shelved'
           /\ Pause(w) => node[w] \in Shelved'
<1>1. pc \in [Workers -> WorkerSteps]
  BY DEF PlaceInvariant, LockInvariant, ControlTypeOK
<1>2. CASE Complete(w) \/ Cancel(w) \/ Pause(w)
  <2>1. Pause(w) => ~Complete(w)
    BY DEF Pause, Complete
  <2> QED  BY <1>2, <2>1, LeaveLists
<1>3. CASE TakeNode(w) \/ EnqueueWorking(w)
  BY <1>3 DEF TakeNode, EnqueueWorking, Pause, archives, Shelved
<1>4. CASE CalmStep(w) \/ RecheckCanceled(w)
  <2>1. UNCHANGED canceled_emergencies
    BY <1>1, <1>4, WorkersAreCalm, RecheckIsCalm DEF listVars, archives
  <2>2. Pause(w) => node[w] \in Shelved'
    BY <1>2
  <2> QED  BY <2>1, <2>2 DEF Shelved
<1> QED  BY <1>2, <1>3, <1>4 DEF WorkerStep, CalmStep

(* Only the steps of w can bring w to a pause. *)
LEMMA StaysExcept ==
    ASSUME PausedStays, PausedKept, Shelved \subseteq Shelved', NEW w,
           \A u \in Workers : u # w /\ pc'[u] \in PausedSteps
                                 => pc'[u] = pc[u] /\ node'[u] = node[u],
           w \in Workers /\ pc'[w] \in PausedSteps =>
               /\ node'[w] \in Emergencies /\ emergency'[node'[w]].status = "PAUSED"
               /\ pc'[w] = "recheck" => node'[w] \in Shelved'
    PROVE  PausedStays'
BY DEF PausedStays, PausedKept

LEMMA WorkersStayPaused ==
    ASSUME PlaceInvariant, NEW w \in Workers, WorkerStep(w) \/ SpuriousWakeup(w)
    PROVE  PausedStays'
<1>1. /\ PausedStays /\ PausedKept /\ Shelved \subseteq Shelved'
      /\ pc \in [Workers -> WorkerSteps] /\ node \in [Workers -> Emergencies \cup {None}]
  BY WorkersKeepPaused, ShelvedGrows
     DEF PlaceInvariant, LockInvariant, ControlTypeOK, DataTypeOK
<1>2. pc[w] \in Handling => node[w] \in Emergencies
  BY LevelsAreEmergencies DEF PlaceInvariant, DataTypeOK, HandledIsWorking, Working
<1>3. CASE GiveUpArrival(w) \/ EndProcessing(w)
  <2> DEFINE next == AfterWait(emergency[node[w]].status)
  <2>1. pc[w] \in Handling /\ ResumeWith(w, next)
    BY <1>3 DEF GiveUpArrival, EndProcessing, Handling
  <2>2. next = "pause" => emergency[node[w]].status = "PAUSED"
    BY DEF AfterWait
  <2>3. next \in {"pause", "complete", "cancel"}
    BY DEF AfterWait
  <2> HIDE DEF next
  <2>4. pc' = [pc EXCEPT ![w] = next] /\ node' = node /\ emergency' = emergency
    BY <2>1 DEF ResumeWith, dataVars
  <2> QED  BY <1>1, <1>2, <2>1, <2>2, <2>3, <2>4, StaysExcept DEF PausedSteps
<1>4. CASE PauseLockWaiting(w)
  <2>1. /\ pc[w] = "pause" /\ pc' = [pc EXCEPT ![w] = "pauseLocked"]
        /\ node' = node /\ emergency' = emergency
    BY <1>4 DEF PauseLockWaiting, dataVars
  <2> QED  BY <1>1, <2>1, StaysExcept DEF PausedSteps, PausedStays
<1>5. CASE Pause(w)
  <2>1. /\ pc[w] = "pauseLocked" /\ pc' = [pc EXCEPT ![w] = "recheck"]
        /\ node' = node /\ emergency' = emergency
    BY <1>5 DEF Pause, dataVars
  <2>2. node[w] \in Shelved'
    BY <1>5, ShelvedGrows
  <2> QED  BY <1>1, <2>1, <2>2, StaysExcept DEF PausedSteps, PausedStays
<1>6. CASE RecheckCanceled(w)
  <2>1. pc' = [pc EXCEPT ![w] = "check"]
    BY <1>6, RecheckIsCalm
  <2>2. node' = node \/ node' = [node EXCEPT ![w] = None]
    BY <1>6 DEF RecheckCanceled
  <2> QED  BY <1>1, <2>1, <2>2, StaysExcept DEF PausedSteps
<1>7. CASE PauseAndSend(w)
  <2> DEFINE victim == twin[NextToSend(w)].node
             before == IF emergency[victim].status = "PAUSED" THEN pc
                                                              ELSE SignalNode(victim)
  <2>1. pc' = [before EXCEPT ![w] = "search"] /\ node' = node
    BY <1>7 DEF PauseAndSend
  <2>2. /\ before \in [Workers -> WorkerSteps]
        /\ \A u \in Workers : before[u] \in PausedSteps => before[u] = pc[u]
    BY <1>1 DEF SignalNode, WokenFrom, WorkerSteps, PausedSteps
  <2> HIDE DEF before
  <2> QED  BY <1>1, <2>1, <2>2, StaysExcept DEF PausedSteps
<1>8. ASSUME \E s : s \notin PausedSteps /\ (pc' = [pc EXCEPT ![w] = s]),
             \A u \in Workers : u # w => node'[u] = node[u]
      PROVE  PausedStays'
  BY <1>1, <1>8, StaysExcept
<1>9. CASE CheckStop(w) \/ WaitForWork(w) \/ TakeNode(w) \/ BeginSearch(w)
  BY <1>1, <1>8, <1>9 DEF CheckStop, WaitForWork, TakeNode, BeginSearch, PausedSteps
<1>10. CASE SearchRescuers(w) \/ SearchFails(w) \/ RetrySearch(w) \/ SearchEnds(w)
            \/ DecideToSteal(w)
  BY <1>1, <1>8, <1>10 DEF SearchRescuers, SearchFails, RetrySearch, SearchEnds,
                           DecideToSteal, PausedSteps
<1>11. CASE BeginProcessing(w) \/ WaitAgain(w)
  BY <1>1, <1>8, <1>11 DEF BeginProcessing, WaitAgain, PausedSteps
<1>12. CASE Complete(w) \/ Cancel(w) \/ SpuriousWakeup(w)
  BY <1>1, <1>8, <1>12 DEF Complete, Cancel, SpuriousWakeup, WokenFrom, PausedSteps
<1>13. CASE (\E e \in Emergencies : ProbeNode(w, e)) \/ SendFree(w)
  <2>1. pc' = pc /\ node' = node /\ pc[w] = "search"
    BY <1>13 DEF ProbeNode, SendFree, Sending
  <2> QED  BY <1>1, <2>1, StaysExcept DEF PausedSteps
<1>14. CASE EnqueueWorking(w)
  <2>1. /\ pc' = pc \/ pc' = [pc EXCEPT ![w] = "lockNode"]
        /\ node' = node /\ pc[w] = "lockWorking"
    BY <1>14 DEF EnqueueWorking
  <2> QED  BY <1>1, <2>1, StaysExcept DEF PausedSteps
<1> QED  BY <1>3, <1>4, <1>5, <1>6, <1>7, <1>9, <1>10, <1>11, <1>12, <1>13, <1>14
         DEF WorkerStep, SearchStep

LEMMA OthersStayPaused ==
    ASSUME PlaceInvariant, OtherStep \/ \E e \in Emergencies : ReceiveRequest(e)
    PROVE  PausedStays'
<1>1. PausedStays /\ PausedKept /\ pc \in [Workers -> WorkerSteps]
  BY OthersKeepPaused DEF PlaceInvariant, LockInvariant, ControlTypeOK
<1>2. /\ UNCHANGED <<node, canceled_emergencies>>
      /\ pc' = pc \/ SignalNotEmpty \/ \E e : pc' = SignalNode(e)
  <2>1. CASE \E e \in Emergencies : ReceiveRequest(e)
    BY <2>1 DEF ReceiveRequest, archives
  <2>2. CASE UpdateWorkingNode \/ UpdateWaitingNode \/ CancelNode
    BY <2>2 DEF UpdateWorkingNode, UpdateWaitingNode, CancelNode, poolVars, archives,
                listVars
  <2>3. CASE CheckUpdater \/ TakeTick \/ UpdaterLockRescuers \/ UpdaterLockWaiting
             \/ UpdateRescuers
    BY <2>3 DEF CheckUpdater, TakeTick, UpdaterLockRescuers, UpdaterLockWaiting,
                UpdateRescuers, poolVars, listVars, archives
  <2>4. CASE ScanWaiting \/ EndUpdate \/ BeginCancelAll \/ EndCancelAll
    BY <2>4 DEF ScanWaiting, EndUpdate, BeginCancelAll, EndCancelAll, poolVars,
                listVars, archives
  <2>5. CASE ReceiveStop \/ CloseServer \/ ClockStep
    BY <2>5 DEF ReceiveStop, CloseServer, ClockStep, Tick, StopClock, poolVars,
                listVars, archives
  <2> QED  BY <2>1, <2>2, <2>3, <2>4, <2>5 DEF OtherStep, UpdaterStep
<1>3. \A u \in Workers : pc'[u] \in PausedSteps => pc'[u] = pc[u]
  <2>1. ASSUME NEW e, pc' = SignalNode(e)
        PROVE  \A u \in Workers : pc'[u] \in PausedSteps => pc'[u] = pc[u]
    BY <2>1 DEF SignalNode, WokenFrom, PausedSteps
  <2>2. ASSUME SignalNotEmpty
        PROVE  \A u \in Workers : pc'[u] \in PausedSteps => pc'[u] = pc[u]
    BY <1>1, <2>2 DEF SignalNotEmpty, Asleep, PausedSteps
  <2> QED  BY <1>2, <2>1, <2>2
<1>4. Shelved' = Shelved
  BY <1>2 DEF Shelved
<1> QED  BY <1>1, <1>2, <1>3, <1>4 DEF PausedStays, PausedKept

--------------------------------------------------------------------------------
(* The invariant holds, and what follows from it. *)

LEMMA NextInvariant == PlaceInvariant /\ [Next]_vars => PlaceInvariant'
<1> SUFFICES ASSUME PlaceInvariant, [Next]_vars PROVE PlaceInvariant'
  OBVIOUS
<1>1. LockInvariant'
  BY NextLocks DEF PlaceInvariant
<1>2. PausedStays'
  <2>1. CASE OtherStep \/ \E e \in Emergencies : ReceiveRequest(e)
    BY <2>1, OthersStayPaused
  <2>2. ASSUME NEW w \in Workers, WorkerStep(w) \/ SpuriousWakeup(w) PROVE PausedStays'
    BY <2>2, WorkersStayPaused
  <2>3. CASE UNCHANGED vars
    <3>1. UNCHANGED <<pc, node, emergency, canceled_emergencies>>
      BY <2>3 DEF vars, poolVars, dataVars, listVars, archives
    <3> QED  BY <3>1 DEF PlaceInvariant, PausedStays, Shelved
  <2> QED  BY <2>1, <2>2, <2>3 DEF Next, OtherStep
<1>3. DataOK' /\ NodeMutexDiscipline' /\ PlacesOK' /\ ScanIsAPlace'
  BY NextData, NextMutex, NextPlaces, NextScan
<1> QED  BY <1>1, <1>2, <1>3 DEF PlaceInvariant, DataOK, PlacesOK

LEMMA InvariantHolds == Spec => []PlaceInvariant
<1>1. Init => PlaceInvariant
  BY InitPlaces
<1>2. PlaceInvariant /\ [Next]_vars => PlaceInvariant'
  BY NextInvariant
<1> QED  BY <1>1, <1>2, PTL DEF Spec

(* The mutex of a node is released by the thread that locked it, and       *)
(* cancel_and_unlock is never reached without it (handler.c 83-86).        *)
THEOREM NodeMutexIsDisciplined == Spec => []NodeMutexDiscipline
<1>1. PlaceInvariant => NodeMutexDiscipline
  BY DEF PlaceInvariant
<1> QED  BY <1>1, InvariantHolds, PTL

(* A node is in the list of its priority, whatever was promoted while it   *)
(* moved from one queue to the other (handler.c 19-28, updater.c 217-224). *)
THEOREM ListsAlwaysMatchPriorities == Spec => []ListsMatchPriorities
<1>1. PlaceInvariant => ListsMatchPriorities
  BY DEF PlaceInvariant
<1> QED  BY <1>1, InvariantHolds, PTL

(* The next pointer a scan saved leads to a node of the list scanned,      *)
(* whatever workers do meanwhile (updater.c 226-262).                      *)
THEOREM ScanIsNeverStale == Spec => []ScanIsNotStale
<1>1. PlaceInvariant => ScanIsNotStale
  BY DEF PlaceInvariant, ScanIsAPlace, ScanIsNotStale, PlaceOK, Level
<1> QED  BY <1>1, InvariantHolds, PTL

(* One worker handles a node of the working queue, and none handles a node *)
(* that is elsewhere (handler.c 19-35, 104-130).                           *)
THEOREM AlwaysOneHandlerEach == Spec => []OneHandlerEach
<1>1. ASSUME PlaceInvariant PROVE OneHandlerEach
  <2> SUFFICES ASSUME NEW e \in Emergencies
               PROVE  Cardinality(Handlers(e)) = IF e \in Working THEN 1 ELSE 0
    BY DEF OneHandlerEach, Working
  <2>1. HandledIsWorking /\ None \notin Emergencies
    BY <1>1, ThreadsAssumption DEF PlaceInvariant
  <2>2. CASE e \in Working
    <3>1. PICK w \in Workers : pc[w] \in Handling /\ node[w] = e
      BY <2>1, <2>2 DEF HandledIsWorking
    <3>2. Handlers(e) = {w}
      BY <2>1, <3>1 DEF Handlers, HandledIsWorking, Busy
    <3> QED  BY <2>2, <3>2, FS_Singleton
  <2>3. CASE e \notin Working
    <3>1. Handlers(e) = {}
      BY <2>1, <2>3 DEF Handlers, HandledIsWorking
    <3> QED  BY <2>3, <3>1, FS_EmptySet
  <2> QED  BY <2>2, <2>3
<1> QED  BY <1>1, InvariantHolds, PTL

(* A node of a list is at one position, any other at none. *)
LEMMA OnePosition ==
    ASSUME NEW s \in NodeLists, NEW e
    PROVE  /\ e \in ToSet(s) => \E i : Positions(s, e) = {i}
           /\ e \notin ToSet(s) => Positions(s, e) = {}
<1>1. CASE e \in ToSet(s)
  <2>1. PICK i \in DOMAIN s : s[i] = e
    BY <1>1 DEF ToSet
  <2>2. Positions(s, e) = {i}
    BY <2>1 DEF Positions, NodeLists, IsInjective
  <2> QED  BY <1>1, <2>2
<1>2. CASE e \notin ToSet(s)
  <2>1. Positions(s, e) = {}
    BY <1>2 DEF Positions, ToSet
  <2> QED  BY <1>2, <2>1
<1> QED  BY <1>1, <1>2

(* The places of e in a queue *)
InQueue(q, e) == UNION {{p} \X Positions(q.lists[p], e) : p \in Priorities}

LEMMA OneQueuePosition ==
    ASSUME NEW q, QueueOK(q), LevelsApart(q), NEW e
    PROVE  /\ e \in Nodes(q) => \E x : InQueue(q, e) = {x}
           /\ e \notin Nodes(q) => InQueue(q, e) = {}
<1>1. \A p \in Priorities : q.lists[p] \in NodeLists
  BY DEF QueueOK
<1>2. \A p \in Priorities : e \notin Level(q, p) => Positions(q.lists[p], e) = {}
  BY <1>1, OnePosition DEF Level
<1>3. CASE e \in Nodes(q)
  <2>1. PICK p \in Priorities : e \in Level(q, p)
    BY <1>3, NodesAreLevels
  <2>2. PICK i : Positions(q.lists[p], e) = {i}
    BY <1>1, <2>1, OnePosition DEF Level
  <2>3. \A o \in Priorities : o # p => Positions(q.lists[o], e) = {}
    BY <1>2, <2>1 DEF LevelsApart
  <2>4. InQueue(q, e) = {<<p, i>>}
    BY <2>2, <2>3 DEF InQueue
  <2> QED  BY <1>3, <2>4
<1>4. CASE e \notin Nodes(q)
  <2>1. \A p \in Priorities : Positions(q.lists[p], e) = {}
    BY <1>2, <1>4, NodesAreLevels
  <2> QED  BY <1>4, <2>1 DEF InQueue
<1> QED  BY <1>3, <1>4

LEMMA Tagged ==
    ASSUME NEW k, NEW S
    PROVE  /\ \A x : S = {x} => {k} \X S = {<<k, x>>}
           /\ S = {} => {k} \X S = {}
OBVIOUS

(* No node is lost or doubled: a received one is at one position of one    *)
(* list, or in the hands of one worker between two queues (handler.c       *)
(* 19-28, 104-130).                                                        *)
THEOREM AlwaysInOnePlace == Spec => []EachNodeInOnePlace
<1>1. ASSUME PlaceInvariant PROVE EachNodeInOnePlace
  <2> SUFFICES ASSUME NEW e \in Emergencies
               PROVE  Cardinality(Places(e)) = IF e \in received THEN 1 ELSE 0
    BY DEF EachNodeInOnePlace
  <2>1. /\ QueueOK(waiting_queue) /\ QueueOK(working_queue)
        /\ LevelsApart(waiting_queue) /\ LevelsApart(working_queue)
        /\ completed_emergencies \in NodeLists /\ canceled_emergencies \in NodeLists
        /\ PlacesApart /\ HandledIsWorking /\ None \notin Emergencies
    BY <1>1, MatchingLevelsApart, ThreadsAssumption DEF PlaceInvariant, DataTypeOK
  <2> DEFINE a == {"waiting"} \X InQueue(waiting_queue, e)
             b == {"working"} \X InQueue(working_queue, e)
             c == {"completed"} \X Positions(completed_emergencies, e)
             d == {"canceled"} \X Positions(canceled_emergencies, e)
             f == {"transit"} \X InTransit(e)
  <2>2. Places(e) = a \cup b \cup c \cup d \cup f
    BY DEF Places, InQueue
  <2>3. (e \in Waiting => \E x : a = {x}) /\ (e \notin Waiting => a = {})
    <3>1. /\ e \in Waiting => \E x : InQueue(waiting_queue, e) = {x}
          /\ e \notin Waiting => InQueue(waiting_queue, e) = {}
      BY <2>1, OneQueuePosition DEF Waiting
    <3> QED  BY <3>1, Tagged
  <2>4. (e \in Working => \E x : b = {x}) /\ (e \notin Working => b = {})
    <3>1. /\ e \in Working => \E x : InQueue(working_queue, e) = {x}
          /\ e \notin Working => InQueue(working_queue, e) = {}
      BY <2>1, OneQueuePosition DEF Working
    <3> QED  BY <3>1, Tagged
  <2>5. (e \in Done => \E x : c = {x}) /\ (e \notin Done => c = {})
    <3>1. /\ e \in Done => \E i : Positions(completed_emergencies, e) = {i}
          /\ e \notin Done => Positions(completed_emergencies, e) = {}
      BY <2>1, OnePosition DEF Done
    <3> QED  BY <3>1, Tagged
  <2>6. (e \in Shelved => \E x : d = {x}) /\ (e \notin Shelved => d = {})
    <3>1. /\ e \in Shelved => \E i : Positions(canceled_emergencies, e) = {i}
          /\ e \notin Shelved => Positions(canceled_emergencies, e) = {}
      BY <2>1, OnePosition DEF Shelved
    <3> QED  BY <3>1, Tagged
  <2>7. (e \in Transit => \E x : f = {x}) /\ (e \notin Transit => f = {})
    <3>1. CASE e \in Transit
      <4>1. PICK w \in Workers : pc[w] = "lockWorking" /\ node[w] = e
        BY <3>1 DEF Transit
      <4>2. InTransit(e) = {w}
        BY <2>1, <4>1 DEF InTransit, HandledIsWorking, Busy
      <4> QED  BY <3>1, <4>2, Tagged
    <3>2. CASE e \notin Transit
      <4>1. InTransit(e) = {}
        BY <3>2 DEF Transit, InTransit
      <4> QED  BY <3>2, <4>1, Tagged
    <3> QED  BY <3>1, <3>2
  <2> HIDE DEF a, b, c, d, f
  <2>8. (e \in received => \E x : Places(e) = {x}) /\ (e \notin received => Places(e) = {})
    BY <2>1, <2>2, <2>3, <2>4, <2>5, <2>6, <2>7 DEF PlacesApart
  <2> QED  BY <2>8, FS_Singleton, FS_EmptySet
<1> QED  BY <1>1, InvariantHolds, PTL

--------------------------------------------------------------------------------
(* The lists of the code: the steps above as calls of the list functions.  *)

QueueList(k, p) == <<k, p>>

WaitingList(p) == QueueList("waiting", p)
WorkingList(p) == QueueList("working", p)
CompletedList  == <<"completed", 0>>
CanceledList   == <<"canceled", 0>>

(* The names of the lists, one each *)
LEMMA NamesOfLists ==
    /\ \A p \in Priorities : WaitingList(p) \in AllLists /\ WorkingList(p) \in AllLists
    /\ CompletedList \in AllLists /\ CanceledList \in AllLists
    /\ \A l \in AllLists :
          \/ \E p \in Priorities : l = WaitingList(p) \/ l = WorkingList(p)
          \/ l \in {CompletedList, CanceledList}
BY DEF AllLists, QueueList, WaitingList, WorkingList, CompletedList, CanceledList

LEMMA NamesDiffer ==
    /\ \A o, p \in Priorities :
          /\ WaitingList(o) # WorkingList(p)
          /\ o # p => WaitingList(o) # WaitingList(p) /\ WorkingList(o) # WorkingList(p)
          /\ {WaitingList(p), WorkingList(p)} \cap {CompletedList, CanceledList} = {}
    /\ CompletedList # CanceledList
<1>1. "waiting" # "working" /\ "waiting" # "completed" /\ "waiting" # "canceled"
      /\ "working" # "completed" /\ "working" # "canceled" /\ "completed" # "canceled"
  OBVIOUS
<1> QED  BY <1>1 DEF QueueList, WaitingList, WorkingList, CompletedList, CanceledList

(* The sequences behind the names, before and after a step *)
Behind ==
    /\ DOMAIN TheLists = AllLists /\ TheLists = [l \in AllLists |-> TheLists[l]]
    /\ \A p \in Priorities : /\ TheLists[WaitingList(p)] = waiting_queue.lists[p]
                             /\ TheLists[WorkingList(p)] = working_queue.lists[p]
    /\ TheLists[CompletedList] = completed_emergencies
    /\ TheLists[CanceledList] = canceled_emergencies

LEMMA ListsBehind == Behind /\ Behind'
<1>1. Behind
  BY NamesOfLists
     DEF Behind, TheLists, ListNamed, QueueList, WaitingList, WorkingList, CompletedList,
         CanceledList
<1>2. Behind'
  BY NamesOfLists
     DEF Behind, TheLists, ListNamed, QueueList, WaitingList, WorkingList, CompletedList,
         CanceledList
<1> QED  BY <1>1, <1>2

(* A step is known by what it does to each list. *)
LEMMA ListsAfter ==
    ASSUME NEW f, f = [l \in AllLists |-> f[l]],
           \A p \in Priorities : /\ f[WaitingList(p)] = waiting_queue'.lists[p]
                                 /\ f[WorkingList(p)] = working_queue'.lists[p],
           f[CompletedList] = completed_emergencies',
           f[CanceledList] = canceled_emergencies'
    PROVE  TheLists' = f
<1>1. ASSUME NEW l \in AllLists PROVE f[l] = TheLists'[l]
  BY NamesOfLists, ListsBehind DEF Behind
<1>2. TheLists' = [l \in AllLists |-> TheLists'[l]]
  BY ListsBehind DEF Behind
<1> QED  BY <1>1, <1>2

(* One list of a queue is another sequence, and all others are the same. *)
WithWaiting(p, s) == [TheLists EXCEPT ![WaitingList(p)] = s]

LEMMA WaitingListAt ==
    ASSUME NEW p \in Priorities, NEW s, NEW f, f = WithWaiting(p, s)
    PROVE  /\ \A o \in Priorities :
                 f[WaitingList(o)] = IF o = p THEN s ELSE waiting_queue.lists[o]
           /\ \A o \in Priorities : f[WorkingList(o)] = working_queue.lists[o]
           /\ f[CompletedList] = completed_emergencies
           /\ f[CanceledList] = canceled_emergencies
           /\ f = [l \in AllLists |-> f[l]]
<1>1. WaitingList(p) \in AllLists /\ DOMAIN TheLists = AllLists
  BY NamesOfLists, ListsBehind DEF Behind
<1>2. f = [l \in AllLists |-> f[l]]
  BY <1>1 DEF WithWaiting
<1>3. \A l \in AllLists : f[l] = IF l = WaitingList(p) THEN s ELSE TheLists[l]
  BY <1>1 DEF WithWaiting
<1>4. ASSUME NEW o \in Priorities
      PROVE  f[WaitingList(o)] = IF o = p THEN s ELSE waiting_queue.lists[o]
  <2>1. WaitingList(o) \in AllLists /\ TheLists[WaitingList(o)] = waiting_queue.lists[o]
    BY NamesOfLists, ListsBehind DEF Behind
  <2>2. o # p => WaitingList(o) # WaitingList(p)
    BY NamesDiffer
  <2> QED  BY <1>3, <2>1, <2>2
<1>5. ASSUME NEW o \in Priorities PROVE f[WorkingList(o)] = working_queue.lists[o]
  <2>1. WorkingList(o) \in AllLists /\ TheLists[WorkingList(o)] = working_queue.lists[o]
    BY NamesOfLists, ListsBehind DEF Behind
  <2>2. WorkingList(o) # WaitingList(p)
    BY NamesDiffer
  <2> QED  BY <1>3, <2>1, <2>2
<1>6. f[CompletedList] = completed_emergencies /\ f[CanceledList] = canceled_emergencies
  <2>1. /\ CompletedList \in AllLists /\ TheLists[CompletedList] = completed_emergencies
        /\ CanceledList \in AllLists /\ TheLists[CanceledList] = canceled_emergencies
    BY NamesOfLists, ListsBehind DEF Behind
  <2>2. WaitingList(p) \notin {CompletedList, CanceledList}
    BY NamesDiffer
  <2> QED  BY <1>3, <2>1, <2>2
<1> QED  BY <1>2, <1>4, <1>5, <1>6

WithWorking(p, s) == [TheLists EXCEPT ![WorkingList(p)] = s]

LEMMA WorkingListAt ==
    ASSUME NEW p \in Priorities, NEW s, NEW f, f = WithWorking(p, s)
    PROVE  /\ \A o \in Priorities :
                 f[WorkingList(o)] = IF o = p THEN s ELSE working_queue.lists[o]
           /\ \A o \in Priorities : f[WaitingList(o)] = waiting_queue.lists[o]
           /\ f[CompletedList] = completed_emergencies
           /\ f[CanceledList] = canceled_emergencies
           /\ f = [l \in AllLists |-> f[l]]
<1>1. WorkingList(p) \in AllLists /\ DOMAIN TheLists = AllLists
  BY NamesOfLists, ListsBehind DEF Behind
<1>2. f = [l \in AllLists |-> f[l]]
  BY <1>1 DEF WithWorking
<1>3. \A l \in AllLists : f[l] = IF l = WorkingList(p) THEN s ELSE TheLists[l]
  BY <1>1 DEF WithWorking
<1>4. ASSUME NEW o \in Priorities
      PROVE  f[WorkingList(o)] = IF o = p THEN s ELSE working_queue.lists[o]
  <2>1. WorkingList(o) \in AllLists /\ TheLists[WorkingList(o)] = working_queue.lists[o]
    BY NamesOfLists, ListsBehind DEF Behind
  <2>2. o # p => WorkingList(o) # WorkingList(p)
    BY NamesDiffer
  <2> QED  BY <1>3, <2>1, <2>2
<1>5. ASSUME NEW o \in Priorities PROVE f[WaitingList(o)] = waiting_queue.lists[o]
  <2>1. WaitingList(o) \in AllLists /\ TheLists[WaitingList(o)] = waiting_queue.lists[o]
    BY NamesOfLists, ListsBehind DEF Behind
  <2>2. WaitingList(o) # WorkingList(p)
    BY NamesDiffer
  <2> QED  BY <1>3, <2>1, <2>2
<1>6. f[CompletedList] = completed_emergencies /\ f[CanceledList] = canceled_emergencies
  <2>1. /\ CompletedList \in AllLists /\ TheLists[CompletedList] = completed_emergencies
        /\ CanceledList \in AllLists /\ TheLists[CanceledList] = canceled_emergencies
    BY NamesOfLists, ListsBehind DEF Behind
  <2>2. WorkingList(p) \notin {CompletedList, CanceledList}
    BY NamesDiffer
  <2> QED  BY <1>3, <2>1, <2>2
<1> QED  BY <1>2, <1>4, <1>5, <1>6

(* A node that is in none of the places is in no list. *)
LEMMA NotLinked ==
    ASSUME NEW e, e \notin Waiting, e \notin Working, e \notin Done, e \notin Shelved
    PROVE  ~Lists!Linked(e)
<1> SUFFICES ASSUME NEW l \in AllLists, e \in ToSet(TheLists[l]) PROVE FALSE
  BY DEF Lists!Linked, Lists!Contains, ToSet

<1> QED  BY NamesOfLists, ListsBehind, NodesAreLevels
         DEF Behind, Waiting, Working, Done, Shelved, Level

(* Taking a node that is not there changes nothing. *)
LEMMA RemoveAbsent ==
    ASSUME NEW s \in NodeLists, NEW e, e \notin ToSet(s)
    PROVE  RemoveFirst(s, e) = s
<1>1. s \in Seq(Emergencies) /\ DOMAIN s = 1 .. Len(s)
  BY DEF NodeLists
<1>2. ~\E i \in 1 .. Len(s) : s[i] = e
  BY <1>1 DEF ToSet
<1> QED  BY <1>2 DEF RemoveFirst

(* What the operations of a queue do to the list at each priority *)
LEMMA RemoveNodeLists ==
    ASSUME NEW q, QueueOK(q), LevelsApart(q), NEW e, NEW p \in Priorities, e \in Level(q, p),
           NEW o \in Priorities
    PROVE  RemoveNode(q, e).lists[o] = IF o = p THEN RemoveFirst(q.lists[p], e)
                                                ELSE q.lists[o]
<1>1. RemoveNode(q, e).lists[o] = RemoveFirst(q.lists[o], e)
  BY DEF RemoveNode, QueueOK
<1>2. o # p => e \notin ToSet(q.lists[o])
  BY DEF LevelsApart, Level
<1>3. q.lists[o] \in NodeLists
  BY DEF QueueOK
<1> QED  BY <1>1, <1>2, <1>3, RemoveAbsent

LEMMA AppendNodeLists ==
    ASSUME NEW q, QueueOK(q), NEW e, NEW p \in Priorities, NEW o \in Priorities
    PROVE  /\ AppendNode(q, e, p).lists[o] = IF o = p THEN Append(q.lists[p], e)
                                                      ELSE q.lists[o]
           /\ Enqueue(q, e, p).lists[o] = IF o = p THEN Append(q.lists[p], e)
                                                   ELSE q.lists[o]
BY DEF AppendNode, Enqueue, QueueOK

LEMMA DequeueLists ==
    ASSUME NEW q, QueueOK(q), NEW o \in Priorities
    PROVE  /\ HasNode(q) => Dequeue(q).lists[o] = IF o = Hottest(q) THEN Tail(q.lists[o])
                                                                    ELSE q.lists[o]
           /\ ~HasNode(q) => Dequeue(q).lists[o] = q.lists[o]
BY DEF Dequeue, QueueOK

(* The abstract lists take a node out as the queues do. *)
LEMMA SameRemoval == \A s, e : Lists!RemoveFirst(s, e) = RemoveFirst(s, e)
BY DEF RemoveFirst, Lists!RemoveFirst, RemoveAt, Lists!RemoveAt, SelectInSeq,
       Lists!SelectInSeq, Min, Lists!Min

(* A call of the list functions, or none *)
ACall == Lists!Next \/ TheLists' = TheLists

LEMMA CallsAreSteps ==
    /\ \A e \in Emergencies : \A l \in AllLists : Lists!Link(e, l) => ACall
    /\ \A l \in AllLists : Lists!Decapitate(l) => ACall
    /\ \A from, to \in AllLists : \A e \in ToSet(TheLists[from]) :
          Lists!MoveToEnd(e, from, to) \/ Lists!MoveToFront(e, from, to) => ACall
BY DEF ACall, Lists!Next, Lists!ToSet, ToSet

LEMMA NoCall == UNCHANGED listVars => ACall
<1> SUFFICES ASSUME UNCHANGED listVars PROVE TheLists' = TheLists
  BY DEF ACall
<1>1. UNCHANGED <<waiting_queue, working_queue, completed_emergencies, canceled_emergencies>>
  BY DEF listVars, archives
<1> QED  BY <1>1, ListsBehind, ListsAfter DEF Behind

(* A received request is linked in the waiting queue. *)
LEMMA ReceiveIsACall ==
    ASSUME PlaceInvariant, NEW e \in Emergencies, ReceiveRequest(e)
    PROVE  ACall
<1> DEFINE p == emergency[e].priority
           f == [TheLists EXCEPT ![WaitingList(p)] = Append(@, e)]
<1>1. /\ e \notin received
      /\ waiting_queue' = Enqueue(waiting_queue, e, p)
      /\ UNCHANGED <<working_queue, completed_emergencies, canceled_emergencies>>
  BY DEF ReceiveRequest, archives
<1>2. QueueOK(waiting_queue) /\ p \in Priorities
  BY DEF PlaceInvariant, DataTypeOK, Known
<1>3. ~Lists!Linked(e)
  BY <1>1, NotLinked DEF PlaceInvariant, PlacesApart
<1> HIDE DEF p
<1>4. TheLists' = f
  <2> DEFINE q == Enqueue(waiting_queue, e, p)
             t == Append(waiting_queue.lists[p], e)
  <2>1. \A o \in Priorities : q.lists[o] = IF o = p THEN t ELSE waiting_queue.lists[o]
    BY <1>2, AppendNodeLists
  <2>2. f = WithWaiting(p, t)
    BY <1>2, ListsBehind DEF Behind, WithWaiting
  <2>3. waiting_queue' = q
    BY <1>1
  <2> HIDE DEF f, q, t
  <2>4. /\ \A o \in Priorities : f[WaitingList(o)] = IF o = p THEN t ELSE waiting_queue.lists[o]
        /\ \A o \in Priorities : f[WorkingList(o)] = working_queue.lists[o]
        /\ f[CompletedList] = completed_emergencies
        /\ f[CanceledList] = canceled_emergencies
        /\ f = [l \in AllLists |-> f[l]]
    BY <1>2, <2>2, WaitingListAt
  <2>5. \A o \in Priorities : f[WaitingList(o)] = waiting_queue'.lists[o]
    BY <2>1, <2>3, <2>4
  <2> QED  BY <1>1, <2>4, <2>5, ListsAfter
<1>5. Lists!Link(e, WaitingList(p))
  BY <1>3, <1>4 DEF Lists!Link
<1> QED  BY <1>2, <1>5, CallsAreSteps, NamesOfLists

(* The head of the highest list that has one is taken. *)
LEMMA TakeIsACall ==
    ASSUME PlaceInvariant, NEW w \in Workers, TakeNode(w)
    PROVE  ACall
<1>1. /\ waiting_queue' = Dequeue(waiting_queue)
      /\ UNCHANGED <<working_queue, completed_emergencies, canceled_emergencies>>
  BY DEF TakeNode, archives
<1>2. QueueOK(waiting_queue)
  BY DEF PlaceInvariant, DataTypeOK
<1>3. CASE ~HasNode(waiting_queue)
  <2>1. \A o \in Priorities : waiting_queue'.lists[o] = waiting_queue.lists[o]
    BY <1>1, <1>2, <1>3, DequeueLists
  <2> QED  BY <1>1, <2>1, ListsBehind, ListsAfter DEF Behind, ACall
<1>4. CASE HasNode(waiting_queue)
  <2> DEFINE p == Hottest(waiting_queue)
             f == [TheLists EXCEPT ![WaitingList(p)] = Tail(@)]
  <2>1. p \in Priorities /\ waiting_queue.lists[p] # <<>>
    BY <1>4, HottestIsThere
  <2>2. \A o \in Priorities : waiting_queue'.lists[o] =
           IF o = p THEN Tail(waiting_queue.lists[o]) ELSE waiting_queue.lists[o]
    BY <1>1, <1>2, <1>4, DequeueLists
  <2> HIDE DEF p
  <2>3. TheLists' = f
    <3> DEFINE t == Tail(waiting_queue.lists[p])
    <3>1. f = WithWaiting(p, t)
      BY <2>1, ListsBehind DEF Behind, WithWaiting
    <3> HIDE DEF f
    <3>2. \A o \in Priorities : waiting_queue'.lists[o] =
             IF o = p THEN t ELSE waiting_queue.lists[o]
      BY <2>2
    <3> HIDE DEF t
    <3>3. /\ \A o \in Priorities :
                f[WaitingList(o)] = IF o = p THEN t ELSE waiting_queue.lists[o]
          /\ \A o \in Priorities : f[WorkingList(o)] = working_queue.lists[o]
          /\ f[CompletedList] = completed_emergencies
          /\ f[CanceledList] = canceled_emergencies
          /\ f = [l \in AllLists |-> f[l]]
      BY <2>1, <3>1, WaitingListAt
    <3>4. \A o \in Priorities : f[WaitingList(o)] = waiting_queue'.lists[o]
      BY <3>2, <3>3
    <3> QED  BY <1>1, <3>3, <3>4, ListsAfter
  <2>4. Lists!Decapitate(WaitingList(p))
    BY <2>1, <2>3, ListsBehind DEF Lists!Decapitate, Behind
  <2> QED  BY <2>1, <2>4, CallsAreSteps, NamesOfLists
<1> QED  BY <1>3, <1>4

(* It is linked in the working queue. *)
LEMMA EnqueueIsACall ==
    ASSUME PlaceInvariant, NEW w \in Workers, EnqueueWorking(w)
    PROVE  ACall
<1> DEFINE e == node[w]
           p == emergency[e].priority
           f == [TheLists EXCEPT ![WorkingList(p)] = Append(@, e)]
<1>1. /\ pc[w] = "lockWorking"
      /\ UNCHANGED <<waiting_queue, completed_emergencies, canceled_emergencies>>
      /\ e # None => working_queue' = Enqueue(working_queue, e, p)
      /\ e = None => UNCHANGED working_queue
  BY DEF EnqueueWorking, archives
<1>2. CASE e = None
  BY <1>1, <1>2, NoCall DEF listVars, archives
<1>3. CASE e # None
  <2>1. e \in Emergencies
    BY <1>3 DEF PlaceInvariant, DataTypeOK
  <2>2. QueueOK(working_queue) /\ p \in Priorities
    BY <2>1 DEF PlaceInvariant, DataTypeOK, Known
  <2>3. ~Lists!Linked(e)
    <3>1. e \in Transit
      BY <1>1, <2>1 DEF Transit
    <3> QED  BY <3>1, NotLinked DEF PlaceInvariant, PlacesApart
  <2>4. working_queue' = Enqueue(working_queue, e, p)
    BY <1>1, <1>3
  <2> HIDE DEF p, e
  <2>5. TheLists' = f
    <3> DEFINE q == Enqueue(working_queue, e, p)
               t == Append(working_queue.lists[p], e)
    <3>1. \A o \in Priorities : q.lists[o] = IF o = p THEN t ELSE working_queue.lists[o]
      BY <2>2, AppendNodeLists
    <3>2. f = WithWorking(p, t)
      BY <2>2, ListsBehind DEF Behind, WithWorking
    <3>3. working_queue' = q
      BY <2>4
    <3> HIDE DEF f, q, t
    <3>4. /\ \A o \in Priorities :
                f[WorkingList(o)] = IF o = p THEN t ELSE working_queue.lists[o]
          /\ \A o \in Priorities : f[WaitingList(o)] = waiting_queue.lists[o]
          /\ f[CompletedList] = completed_emergencies
          /\ f[CanceledList] = canceled_emergencies
          /\ f = [l \in AllLists |-> f[l]]
      BY <2>2, <3>2, WorkingListAt
    <3>5. \A o \in Priorities : f[WorkingList(o)] = working_queue'.lists[o]
      BY <3>1, <3>3, <3>4
    <3> QED  BY <1>1, <3>4, <3>5, ListsAfter
  <2>6. Lists!Link(e, WorkingList(p))
    BY <2>3, <2>5 DEF Lists!Link
  <2> QED  BY <2>1, <2>2, <2>6, CallsAreSteps, NamesOfLists
<1> QED  BY <1>2, <1>3

(* A node is moved out of the working queue. *)
LEMMA LeaveIsACall ==
    ASSUME PlaceInvariant, NEW w \in Workers, Complete(w) \/ Cancel(w) \/ Pause(w)
    PROVE  ACall
<1> DEFINE e == node[w]
<1>1. /\ e \in Emergencies /\ e \in Working
      /\ waiting_queue' = waiting_queue
      /\ working_queue' = RemoveNode(working_queue, e)
  BY LeaveLists
<1>2. QueueOK(working_queue) /\ LevelsApart(working_queue)
  BY MatchingLevelsApart DEF PlaceInvariant, DataTypeOK
<1>3. PICK p \in Priorities : e \in Level(working_queue, p)
  BY <1>1, NodesAreLevels DEF Working
<1>4. e \notin Done /\ e \notin Shelved
  BY <1>1 DEF PlaceInvariant, PlacesApart
<1>5. \/ /\ completed_emergencies' = Append(completed_emergencies, e)
         /\ canceled_emergencies' = canceled_emergencies
      \/ /\ completed_emergencies' = completed_emergencies
         /\ canceled_emergencies' = Append(canceled_emergencies, e)
      \/ /\ completed_emergencies' = completed_emergencies
         /\ canceled_emergencies' = <<e>> \o canceled_emergencies
  <2>1. RemoveFirst(canceled_emergencies, e) = canceled_emergencies
    BY <1>4, RemoveAbsent DEF Shelved, PlaceInvariant, DataTypeOK
  <2> QED  BY <2>1 DEF Complete, Cancel, Pause, ShelvePaused
<1> HIDE DEF e
<1> DEFINE g == Lists!Without(e, WorkingList(p))
<1>6. /\ g = [l \in AllLists |-> g[l]]
      /\ \A o \in Priorities : /\ g[WaitingList(o)] = waiting_queue'.lists[o]
                               /\ g[WorkingList(o)] = working_queue'.lists[o]
      /\ g[CompletedList] = completed_emergencies /\ g[CanceledList] = canceled_emergencies
  <2>1. g = [TheLists EXCEPT ![WorkingList(p)] = RemoveFirst(working_queue.lists[p], e)]
    BY <1>3, ListsBehind, SameRemoval DEF Lists!Without, Behind
  <2>2. \A o \in Priorities : working_queue'.lists[o] =
           IF o = p THEN RemoveFirst(working_queue.lists[p], e) ELSE working_queue.lists[o]
    BY <1>1, <1>2, <1>3, RemoveNodeLists
  <2> HIDE DEF g
  <2>3. \A o \in Priorities : g[WorkingList(o)] = working_queue'.lists[o]
    BY <1>3, <2>1, <2>2, NamesOfLists, NamesDiffer, ListsBehind DEF Behind
  <2>4. \A o \in Priorities : g[WaitingList(o)] = waiting_queue'.lists[o]
    BY <1>1, <1>3, <2>1, NamesOfLists, NamesDiffer, ListsBehind DEF Behind
  <2>5. g[CompletedList] = completed_emergencies /\ g[CanceledList] = canceled_emergencies
    BY <1>3, <2>1, NamesOfLists, NamesDiffer, ListsBehind DEF Behind
  <2>6. g = [l \in AllLists |-> g[l]]
    BY <2>1, ListsBehind DEF Behind
  <2> QED  BY <2>3, <2>4, <2>5, <2>6
<1> HIDE DEF g
<1>7. e \in ToSet(TheLists[WorkingList(p)])
  BY <1>3, ListsBehind DEF Behind, Level
<1>8. CASE /\ completed_emergencies' = Append(completed_emergencies, e)
           /\ canceled_emergencies' = canceled_emergencies
  <2> DEFINE f == [g EXCEPT ![CompletedList] = Append(@, e)]
  <2>1. f = [l \in AllLists |-> f[l]]
    BY <1>6
  <2>2. TheLists' = f
    <3>1. \A o \in Priorities : /\ f[WaitingList(o)] = waiting_queue'.lists[o]
                                /\ f[WorkingList(o)] = working_queue'.lists[o]
      BY <1>6, NamesOfLists, NamesDiffer
    <3>2. f[CompletedList] = completed_emergencies'
      BY <1>6, <1>8, NamesOfLists, NamesDiffer
    <3>3. f[CanceledList] = canceled_emergencies'
      BY <1>6, <1>8, NamesOfLists, NamesDiffer
    <3> HIDE DEF f
    <3> QED  BY <2>1, <3>1, <3>2, <3>3, ListsAfter
  <2>3. Lists!MoveToEnd(e, WorkingList(p), CompletedList)
    BY <2>2 DEF Lists!MoveToEnd, g
  <2> QED  BY <1>7, <2>3, CallsAreSteps, NamesOfLists
<1>9. CASE /\ completed_emergencies' = completed_emergencies
           /\ canceled_emergencies' = Append(canceled_emergencies, e)
  <2> DEFINE f == [g EXCEPT ![CanceledList] = Append(@, e)]
  <2>1. f = [l \in AllLists |-> f[l]]
    BY <1>6
  <2>2. TheLists' = f
    <3>1. \A o \in Priorities : /\ f[WaitingList(o)] = waiting_queue'.lists[o]
                                /\ f[WorkingList(o)] = working_queue'.lists[o]
      BY <1>6, NamesOfLists, NamesDiffer
    <3>2. f[CompletedList] = completed_emergencies'
      BY <1>6, <1>9, NamesOfLists, NamesDiffer
    <3>3. f[CanceledList] = canceled_emergencies'
      BY <1>6, <1>9, NamesOfLists, NamesDiffer
    <3> HIDE DEF f
    <3> QED  BY <2>1, <3>1, <3>2, <3>3, ListsAfter
  <2>3. Lists!MoveToEnd(e, WorkingList(p), CanceledList)
    BY <2>2 DEF Lists!MoveToEnd, g
  <2> QED  BY <1>7, <2>3, CallsAreSteps, NamesOfLists
<1>10. CASE /\ completed_emergencies' = completed_emergencies
            /\ canceled_emergencies' = <<e>> \o canceled_emergencies
  <2> DEFINE f == [g EXCEPT ![CanceledList] = <<e>> \o @]
  <2>1. f = [l \in AllLists |-> f[l]]
    BY <1>6
  <2>2. TheLists' = f
    <3>1. \A o \in Priorities : /\ f[WaitingList(o)] = waiting_queue'.lists[o]
                                /\ f[WorkingList(o)] = working_queue'.lists[o]
      BY <1>6, NamesOfLists, NamesDiffer
    <3>2. f[CompletedList] = completed_emergencies'
      BY <1>6, <1>10, NamesOfLists, NamesDiffer
    <3>3. f[CanceledList] = canceled_emergencies'
      BY <1>6, <1>10, NamesOfLists, NamesDiffer
    <3> HIDE DEF f
    <3> QED  BY <2>1, <3>1, <3>2, <3>3, ListsAfter
  <2>3. Lists!MoveToFront(e, WorkingList(p), CanceledList)
    BY <2>2 DEF Lists!MoveToFront, g
  <2> QED  BY <1>7, <2>3, CallsAreSteps, NamesOfLists
<1> QED  BY <1>5, <1>8, <1>9, <1>10

(* A promotion moves a node from one list of a queue to the end of another. *)
AfterPromotion(k, e, p) ==
    [Lists!Without(e, QueueList(k, p)) EXCEPT
        ![QueueList(k, MEDIUM_PRIORITY)] = Append(@, e)]

IsBehind(q, k) == \A o \in Priorities : TheLists[QueueList(k, o)] = q.lists[o]

LEMMA PromotionLists ==
    ASSUME NEW k \in {"waiting", "working"}, NEW q, QueueOK(q), LevelsApart(q),
           IsBehind(q, k), NEW e, NEW p \in Priorities, e \in Level(q, p),
           NEW f, f = AfterPromotion(k, e, p)
    PROVE  /\ f = [l \in AllLists |-> f[l]]
           /\ \A o \in Priorities :
                 f[QueueList(k, o)] = ChangePriority(q, e, MEDIUM_PRIORITY).lists[o]
           /\ \A l \in AllLists :
                 (\A o \in Priorities : l # QueueList(k, o)) => f[l] = TheLists[l]
<1> DEFINE m == MEDIUM_PRIORITY
           r == RemoveNode(q, e)
           g == Lists!Without(e, QueueList(k, p))
<1>1. m \in Priorities
  BY DEF MEDIUM_PRIORITY, Priorities, MIN_PRIORITY, MAX_PRIORITY
<1>2. /\ \A o \in Priorities : QueueList(k, o) \in AllLists
      /\ \A o, j \in Priorities : o # j => QueueList(k, o) # QueueList(k, j)
  BY DEF AllLists, QueueList
<1>3. g = [TheLists EXCEPT ![QueueList(k, p)] = RemoveFirst(q.lists[p], e)]
  BY ListsBehind, SameRemoval DEF Lists!Without, Behind, IsBehind
<1>4. \A o \in Priorities : r.lists[o] = IF o = p THEN RemoveFirst(q.lists[p], e)
                                                 ELSE q.lists[o]
  BY RemoveNodeLists
<1>5. QueueOK(r)
  BY RemoveNodeLevels
<1>6. \A o \in Priorities :
         AppendNode(r, e, m).lists[o] = IF o = m THEN Append(r.lists[m], e) ELSE r.lists[o]
  BY <1>1, <1>5, AppendNodeLists
<1>7. ChangePriority(q, e, m) = AppendNode(r, e, m)
  BY DEF ChangePriority
<1>8. f = [g EXCEPT ![QueueList(k, m)] = Append(@, e)]
  BY DEF AfterPromotion
<1> HIDE DEF m, r, g
<1>9. /\ \A o \in Priorities : g[QueueList(k, o)] = r.lists[o]
      /\ g = [l \in AllLists |-> g[l]]
      /\ \A l \in AllLists : (\A o \in Priorities : l # QueueList(k, o)) => g[l] = TheLists[l]
  BY <1>2, <1>3, <1>4, ListsBehind DEF Behind, IsBehind
<1>10. /\ f = [l \in AllLists |-> f[l]]
       /\ \A o \in Priorities : f[QueueList(k, o)] = IF o = m THEN Append(r.lists[m], e)
                                                       ELSE r.lists[o]
       /\ \A l \in AllLists : (\A o \in Priorities : l # QueueList(k, o)) => f[l] = TheLists[l]
  BY <1>1, <1>2, <1>8, <1>9
<1> QED  BY <1>6, <1>7, <1>10 DEF m

(* A step of a scan moves the node at hand, or none. *)
LEMMA UpdateIsACall ==
    ASSUME PlaceInvariant, UpdateWorkingNode \/ UpdateWaitingNode
    PROVE  ACall
<1> DEFINE e == Head(todo)
           m == MEDIUM_PRIORITY
<1>1. MEDIUM_PRIORITY \in Priorities
  BY DEF MEDIUM_PRIORITY, Priorities, MIN_PRIORITY, MAX_PRIORITY
<1>2. /\ updater \in Scanning /\ todo # <<>>
      /\ updater \in {"updateWorking", "updateWaiting"}
  BY DEF UpdateWorkingNode, UpdateWaitingNode, Scanning
<1>3. /\ level \in Priorities /\ e \in Level(ScannedQueue, level)
      /\ QueueOK(ScannedQueue) /\ LevelsApart(ScannedQueue)
  BY <1>2, HeadIsScanned, MatchingLevelsApart DEF ScannedQueue, PlaceInvariant
<1> HIDE DEF e
<1>4. CASE UpdateWorkingNode
  <2>1. /\ ScannedQueue = working_queue
        /\ UNCHANGED <<waiting_queue, completed_emergencies, canceled_emergencies>>
        /\ \/ working_queue' = working_queue
           \/ working_queue' = ChangePriority(working_queue, e, m)
    BY <1>4 DEF UpdateWorkingNode, ScannedQueue, PromotedIn, archives, e
  <2>2. CASE working_queue' = working_queue
    BY <2>1, <2>2, NoCall DEF listVars, archives
  <2>3. CASE working_queue' = ChangePriority(working_queue, e, m)
    <3>1. PICK f : f = AfterPromotion("working", e, level)
      OBVIOUS
    <3>2. IsBehind(working_queue, "working")
      BY ListsBehind DEF Behind, IsBehind, WorkingList
    <3>7. /\ "working" \in {"waiting", "working"} /\ e \in Level(working_queue, level)
          /\ QueueOK(working_queue) /\ LevelsApart(working_queue) /\ level \in Priorities
      BY <1>3, <2>1
    <3>8. /\ f = [l \in AllLists |-> f[l]]
          /\ \A o \in Priorities :
                f[QueueList("working", o)]
                   = ChangePriority(working_queue, e, MEDIUM_PRIORITY).lists[o]
          /\ \A l \in AllLists :
                (\A o \in Priorities : l # QueueList("working", o)) => f[l] = TheLists[l]
      BY <3>1, <3>2, <3>7, PromotionLists
    <3>3. /\ f = [l \in AllLists |-> f[l]]
          /\ \A o \in Priorities : f[QueueList("working", o)] = working_queue'.lists[o]
          /\ \A l \in AllLists :
                (\A o \in Priorities : l # QueueList("working", o)) => f[l] = TheLists[l]
      BY <2>3, <3>8
    <3>4. TheLists' = f
      <4>1. /\ \A o \in Priorities : f[WaitingList(o)] = waiting_queue'.lists[o]
            /\ f[CompletedList] = completed_emergencies'
            /\ f[CanceledList] = canceled_emergencies'
        BY <2>1, <3>3, NamesOfLists, NamesDiffer, ListsBehind DEF WorkingList, Behind
      <4> QED  BY <3>3, <4>1, ListsAfter DEF WorkingList
    <3>5. Lists!MoveToEnd(e, WorkingList(level), WorkingList(m))
      BY <3>1, <3>4 DEF Lists!MoveToEnd, AfterPromotion, WorkingList
    <3>6. e \in ToSet(TheLists[WorkingList(level)])
      BY <1>3, <2>1, ListsBehind DEF Behind, Level, WorkingList
    <3> QED  BY <1>1, <1>3, <3>5, <3>6, CallsAreSteps, NamesOfLists
  <2> QED  BY <2>1, <2>2, <2>3
<1>5. CASE UpdateWaitingNode
  <2>1. /\ ScannedQueue = waiting_queue
        /\ UNCHANGED <<working_queue, completed_emergencies, canceled_emergencies>>
        /\ \/ waiting_queue' = waiting_queue
           \/ waiting_queue' = ChangePriority(waiting_queue, e, m)
    BY <1>5 DEF UpdateWaitingNode, ScannedQueue, PromotedIn, archives, e
  <2>2. CASE waiting_queue' = waiting_queue
    BY <2>1, <2>2, NoCall DEF listVars, archives
  <2>3. CASE waiting_queue' = ChangePriority(waiting_queue, e, m)
    <3>1. PICK f : f = AfterPromotion("waiting", e, level)
      OBVIOUS
    <3>2. IsBehind(waiting_queue, "waiting")
      BY ListsBehind DEF Behind, IsBehind, WaitingList
    <3>7. /\ "waiting" \in {"waiting", "working"} /\ e \in Level(waiting_queue, level)
          /\ QueueOK(waiting_queue) /\ LevelsApart(waiting_queue) /\ level \in Priorities
      BY <1>3, <2>1
    <3>8. /\ f = [l \in AllLists |-> f[l]]
          /\ \A o \in Priorities :
                f[QueueList("waiting", o)]
                   = ChangePriority(waiting_queue, e, MEDIUM_PRIORITY).lists[o]
          /\ \A l \in AllLists :
                (\A o \in Priorities : l # QueueList("waiting", o)) => f[l] = TheLists[l]
      BY <3>1, <3>2, <3>7, PromotionLists
    <3>3. /\ f = [l \in AllLists |-> f[l]]
          /\ \A o \in Priorities : f[QueueList("waiting", o)] = waiting_queue'.lists[o]
          /\ \A l \in AllLists :
                (\A o \in Priorities : l # QueueList("waiting", o)) => f[l] = TheLists[l]
      BY <2>3, <3>8
    <3>4. TheLists' = f
      <4>1. /\ \A o \in Priorities : f[WorkingList(o)] = working_queue'.lists[o]
            /\ f[CompletedList] = completed_emergencies'
            /\ f[CanceledList] = canceled_emergencies'
        BY <2>1, <3>3, NamesOfLists, NamesDiffer, ListsBehind DEF WaitingList, Behind
      <4> QED  BY <3>3, <4>1, ListsAfter DEF WaitingList
    <3>5. Lists!MoveToEnd(e, WaitingList(level), WaitingList(m))
      BY <3>1, <3>4 DEF Lists!MoveToEnd, AfterPromotion, WaitingList
    <3>6. e \in ToSet(TheLists[WaitingList(level)])
      BY <1>3, <2>1, ListsBehind DEF Behind, Level, WaitingList
    <3> QED  BY <1>1, <1>3, <3>5, <3>6, CallsAreSteps, NamesOfLists
  <2> QED  BY <2>1, <2>2, <2>3
<1> QED  BY <1>4, <1>5

(* The other steps leave the lists alone. *)
LEMMA EveryStepIsACall == PlaceInvariant /\ [Next]_vars => ACall
<1> SUFFICES ASSUME PlaceInvariant, [Next]_vars PROVE ACall
  OBVIOUS
<1>1. pc \in [Workers -> WorkerSteps]
  BY DEF PlaceInvariant, LockInvariant, ControlTypeOK
<1>2. CASE \E e \in Emergencies : ReceiveRequest(e)
  BY <1>2, ReceiveIsACall
<1>3. CASE ReceiveStop \/ CloseServer \/ ClockStep
  BY <1>3, NoCall DEF ReceiveStop, CloseServer, ClockStep, Tick, StopClock
<1>4. CASE UpdaterStep
  <2>1. CASE UpdateWorkingNode \/ UpdateWaitingNode
    BY <2>1, UpdateIsACall
  <2>2. CASE CheckUpdater \/ TakeTick \/ UpdaterLockRescuers \/ UpdaterLockWaiting
             \/ UpdateRescuers
    BY <2>2, NoCall DEF CheckUpdater, TakeTick, UpdaterLockRescuers, UpdaterLockWaiting,
                        UpdateRescuers
  <2>3. CASE ScanWaiting \/ EndUpdate \/ BeginCancelAll \/ CancelNode \/ EndCancelAll
    BY <2>3, NoCall DEF ScanWaiting, EndUpdate, BeginCancelAll, CancelNode, EndCancelAll
  <2> QED  BY <1>4, <2>1, <2>2, <2>3 DEF UpdaterStep
<1>5. ASSUME NEW w \in Workers, CalmStep(w) PROVE ACall
  BY <1>1, <1>5, WorkersAreCalm, NoCall
<1>6. ASSUME NEW w \in Workers, TakeNode(w) \/ EnqueueWorking(w) \/ RecheckCanceled(w)
      PROVE  ACall
  BY <1>6, TakeIsACall, EnqueueIsACall, RecheckIsCalm, NoCall
<1>7. ASSUME NEW w \in Workers, Complete(w) \/ Cancel(w) \/ Pause(w) PROVE ACall
  BY <1>7, LeaveIsACall
<1>8. CASE UNCHANGED vars
  BY <1>8, NoCall DEF vars
<1> QED  BY <1>2, <1>3, <1>4, <1>5, <1>6, <1>7, <1>8 DEF Next, WorkerStep, CalmStep

(* Whatever the load, every step of a thread is one call of the list        *)
(* functions that has what they expect, or none: no node is put in a list   *)
(* while it is in another, none is removed from a list it is not in        *)
(* (priority_queue.c:106-180, called from handler.c, updater.c, reciever.c). *)
THEOREM ServerImplementsLists == Spec => ImplementsLists
<1>1. Init => Lists!Init
  <2> SUFFICES ASSUME Init PROVE TheLists = [l \in AllLists |-> <<>>]
    BY DEF Lists!Init
  <2>1. \A p \in Priorities : waiting_queue.lists[p] = <<>> /\ working_queue.lists[p] = <<>>
    BY DEF Init, EmptyQueue
  <2>2. completed_emergencies = <<>> /\ canceled_emergencies = <<>>
    BY DEF Init
  <2>3. \A l \in AllLists : TheLists[l] = <<>>
    BY <2>1, <2>2, NamesOfLists, ListsBehind DEF Behind
  <2> QED  BY <2>3, ListsBehind DEF Behind
<1>2. PlaceInvariant /\ [Next]_vars => [Lists!Next]_TheLists
  BY EveryStepIsACall DEF ACall
<1> QED  BY <1>1, <1>2, InvariantHolds, PTL DEF Spec, ImplementsLists, Lists!Spec

=============================================================================
