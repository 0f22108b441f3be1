------------------------------ MODULE SearchProofs ------------------------------
(***************************************************************************)
(* The search for rescuers, for every pool, every set of emergencies and   *)
(* rescuers and every limit: what it chooses is good until it is sent, it  *)
(* never waits for its own node nor in a circle of workers, and it robs    *)
(* only whom the rules let it rob.  So what is archived stays as it is, and *)
(* every variable keeps its type.                                          *)
(*                                                                         *)
(* Then the teams, and how the server comes to rest: a team that was found *)
(* is the one asked for, whoever serves is in the team it serves, a        *)
(* cancellation stands, and a server that closes leaves nothing behind.    *)
(***************************************************************************)
EXTENDS LifecycleProofs, BresenhamProofs

TwinsTyped == twin \in [Twins -> TwinRecord]

LEMMA TwinTypes ==
    \A t \in Twins : /\ TypeOfTwin(t) \in RescuerTypes
                     /\ Base[TypeOfTwin(t)] \in Point /\ Speed[TypeOfTwin(t)] \in Nat \ {0}
<1> TAKE t \in Twins
<1>1. \E r \in RescuerTypes : t \in ToSet(TwinsOf[r])
  BY DEF Twins
<1>2. TypeOfTwin(t) \in RescuerTypes
  BY <1>1 DEF TypeOfTwin
<1> QED  BY <1>2, RescuersAssumption

LEMMA InvalidTime == INVALID_TIME \in Int
BY DEF INVALID_TIME

LEMMA HeadForTyped ==
    ASSUME NEW r \in TwinRecord, NEW to \in Point
    PROVE  /\ HeadFor(r, to) \in TwinRecord
           /\ HeadFor(r, to).node = r.node /\ HeadFor(r, to).status = r.status
<1> DEFINE way == NewTrajectory(r.at, to)
           n == [r EXCEPT !.trajectory = way, !.has_arrived = FALSE,
                          !.time_left = INVALID_TIME]
<1>1. way \in Trajectory
  BY DEF NewTrajectory, Trajectory, Magnitude, Point, TwinRecord
<1>2. HeadFor(r, to) \in {r, n}
  BY DEF HeadFor
<1> HIDE DEF way
<1>3. n \in TwinRecord /\ n.node = r.node /\ n.status = r.status
  BY <1>1, InvalidTime DEF TwinRecord
<1> QED  BY <1>2, <1>3

LEMMA SentTyped ==
    ASSUME TwinsTyped, NEW t \in Twins, NEW e \in Emergencies
    PROVE  SentTo(t, e) \in TwinRecord /\ SentTo(t, e).node = e
           /\ SentTo(t, e).status = "EN_ROUTE_TO_SCENE"
<1> DEFINE r == [twin[t] EXCEPT !.node = e, !.status = "EN_ROUTE_TO_SCENE",
                                !.time_to_manage = TimeToManage[e][TypeOfTwin(t)]]
<1>1. TimeToManage[e][TypeOfTwin(t)] \in Int /\ Scene[e] \in Point
  BY TwinTypes, EmergenciesAssumption
<1>2. r \in TwinRecord /\ r.node = e /\ r.status = "EN_ROUTE_TO_SCENE"
  BY <1>1 DEF TwinsTyped, TwinRecord, TwinStatuses
<1>3. SentTo(t, e) = HeadFor(r, Scene[e])
  BY DEF SentTo
<1> HIDE DEF r
<1> QED  BY <1>1, <1>2, <1>3, HeadForTyped

LEMMA WalkedTyped ==
    ASSUME NEW t \in Twins, NEW r \in TwinRecord
    PROVE  Walked(t, r) \in TwinRecord /\ Walked(t, r).node = r.node
<1> DEFINE s == Step(r.at, r.trajectory, Speed[TypeOfTwin(t)])
           m == [r EXCEPT !.at = s.at, !.trajectory.err = s.err]
<1>1. s.at \in Point /\ s.err \in Int /\ s.arrived \in BOOLEAN
  BY StepIsTyped, TwinTypes DEF TwinRecord
<1> HIDE DEF s
<1>2. [r.trajectory EXCEPT !.err = s.err] \in Trajectory
  BY <1>1 DEF Trajectory, TwinRecord
<1>3. m \in TwinRecord /\ m.node = r.node
  BY <1>1, <1>2 DEF TwinRecord
<1> DEFINE a == [m EXCEPT !.has_arrived = TRUE, !.time_left = r.time_to_manage,
                          !.status = "ON_SCENE"]
           b == [m EXCEPT !.has_arrived = TRUE, !.status = "IDLE"]
<1>4. Walked(t, r) \in {m, a, b}
  BY DEF Walked, s
<1> HIDE DEF m
<1>5. a \in TwinRecord /\ a.node = r.node /\ b \in TwinRecord /\ b.node = r.node
  BY <1>3 DEF TwinRecord, TwinStatuses
<1> QED  BY <1>3, <1>4, <1>5

LEMMA UpdatedTwinTyped ==
    ASSUME TwinsTyped, NEW t \in Twins
    PROVE  UpdatedTwin(t) \in TwinRecord /\ UpdatedTwin(t).node = twin[t].node
<1> DEFINE r == twin[t]
           stay == [r EXCEPT !.time_left = @ - 1]
           back == [stay EXCEPT !.status = "RETURNING_TO_BASE",
                                !.time_to_manage = INVALID_TIME]
<1>1. r \in TwinRecord
  BY DEF TwinsTyped
<1>2. stay \in TwinRecord /\ stay.node = r.node
  BY <1>1 DEF TwinRecord
<1>3. UpdatedTwin(t) \in {r, stay, Walked(t, SentBack(t, stay)), Walked(t, r)}
  <2>1. CASE r.status = "IDLE"
    BY <2>1 DEF UpdatedTwin
  <2>2. CASE r.status = "ON_SCENE"
    <3>1. CASE stay.time_left > 0
      BY <2>2, <3>1 DEF UpdatedTwin
    <3>2. CASE stay.time_left <= 0
      BY <1>2, <2>2, <3>2 DEF UpdatedTwin, TwinRecord
    <3> QED  BY <1>2, <3>1, <3>2 DEF TwinRecord
  <2>3. CASE r.status \notin {"IDLE", "ON_SCENE"}
    BY <2>3 DEF UpdatedTwin
  <2> QED  BY <2>1, <2>2, <2>3
<1> HIDE DEF stay
<1>4. back \in TwinRecord /\ back.node = r.node
  BY <1>2, InvalidTime DEF TwinRecord, TwinStatuses
<1>5. SentBack(t, stay) = HeadFor(back, Base[TypeOfTwin(t)])
  BY DEF SentBack
<1> HIDE DEF back
<1>6. SentBack(t, stay) \in TwinRecord /\ SentBack(t, stay).node = r.node
  BY <1>4, <1>5, HeadForTyped, TwinTypes
<1> QED  BY <1>1, <1>2, <1>3, <1>6, WalkedTyped

--------------------------------------------------------------------------------
(* What a search finds *)

LEMMA DistanceTyped ==
    ASSUME TwinsTyped, NEW t \in Twins, NEW e \in Emergencies
    PROVE  Distance(t, e) \in Nat
<1>1. twin[t].at \in Point /\ Scene[e] \in Point
  BY EmergenciesAssumption DEF TwinsTyped, TwinRecord
<1> QED  BY <1>1 DEF Distance, Manhattan, Magnitude, Point

(* Some twin is the first of the nearest ones. *)
LEMMA NearestIsIn ==
    ASSUME TwinsTyped, NEW r \in RescuerTypes, NEW e \in Emergencies, NEW S
    PROVE  Nearest(r, e, S) \in (S \cap Twins \cap ToSet(TwinsOf[r])) \cup {None}
<1> DEFINE ok == {i \in DOMAIN TwinsOf[r] :
                     TwinsOf[r][i] \in S /\ Distance(TwinsOf[r][i], e) < FarAway}
           d(i) == Distance(TwinsOf[r][i], e)
           Best(i) == \A j \in ok : d(i) < d(j) \/ (d(i) = d(j) /\ i <= j)
<1>1. TwinsOf[r] \in Seq(Twins)
  BY RescuersAssumption
<1>2. \A i \in ok : /\ i \in Nat /\ TwinsOf[r][i] \in S \cap Twins \cap ToSet(TwinsOf[r])
                    /\ d(i) \in Nat
  BY <1>1, DistanceTyped DEF ToSet
<1> HIDE DEF d
<1>3. CASE ok # {}
  <2> HIDE DEF ok
  <2>1. PICK m \in {d(i) : i \in ok} : \A n \in {d(i) : i \in ok} : m <= n
    <3>1. {d(i) : i \in ok} \in SUBSET Nat /\ {d(i) : i \in ok} # {}
      BY <1>2, <1>3
    <3> QED  BY <3>1, LeastNumber
  <2>2. PICK i \in {j \in ok : d(j) = m} : \A j \in {j \in ok : d(j) = m} : i <= j
    <3>1. {j \in ok : d(j) = m} \in SUBSET Nat /\ {j \in ok : d(j) = m} # {}
      BY <1>2, <2>1
    <3> QED  BY <3>1, LeastNumber
  <2>3. Best(i)
    BY <1>2, <2>1, <2>2
  <2>4. (CHOOSE j \in ok : Best(j)) \in ok
    BY <2>2, <2>3
  <2>5. Nearest(r, e, S) = TwinsOf[r][CHOOSE j \in ok : Best(j)]
    BY <1>3 DEF Nearest, ok, d
  <2> QED  BY <1>2, <2>4, <2>5
<1>4. CASE ok = {}
  BY <1>4 DEF Nearest
<1> QED  BY <1>3, <1>4

LEMMA FindOneIsNew ==
    ASSUME TwinsTyped, NEW r \in RescuerTypes, NEW e \in Emergencies, NEW already
    PROVE  FindOne(r, e, already) \in
               ((Twins \cap ToSet(TwinsOf[r]) \cap (Available \cup Stealable(e)))
                   \ already) \cup {None}
BY NearestIsIn DEF FindOne

(* Each of the team is of the type asked for in its place. *)
Fits(team, e) ==
    /\ Len(team) <= Len(Needs[e])
    /\ \A i \in DOMAIN team : team[i] \in ToSet(TwinsOf[Needs[e][i]])

(* Different twins, each available or stealable, that fit *)
Choice(s, e) ==
    /\ s \in Seq(Twins) /\ IsInjective(s) /\ Fits(s, e)
    /\ \A i \in DOMAIN s : s[i] \in Available \cup Stealable(e)

LEMMA OneMoreChoice ==
    ASSUME NEW s, NEW e, Choice(s, e), NEW t \in Twins, t \notin ToSet(s),
           t \in Available \cup Stealable(e),
           Len(s) < Len(Needs[e]), t \in ToSet(TwinsOf[Needs[e][Len(s) + 1]]),
           Len(Needs[e]) \in Nat
    PROVE  Choice(Append(s, t), e)
<1> DEFINE a == Append(s, t)
<1>1. /\ s \in Seq(Twins) /\ a \in Seq(Twins) /\ Len(a) = Len(s) + 1
      /\ \A i \in 1 .. Len(s) : a[i] = s[i]
      /\ a[Len(s) + 1] = t
  BY DEF Choice
<1>2. \A i \in 1 .. Len(s) : s[i] # t
  BY DEF ToSet
<1> HIDE DEF a
<1>3. IsInjective(a)
  BY <1>1, <1>2 DEF IsInjective, Choice
<1>4. \A i \in DOMAIN a : a[i] \in Available \cup Stealable(e)
  BY <1>1 DEF Choice
<1>5. Fits(a, e)
  BY <1>1 DEF Choice, Fits
<1> QED  BY <1>1, <1>3, <1>4, <1>5 DEF Choice, a

LEMMA FindAllIsAChoice ==
    ASSUME TwinsTyped, NEW e \in Emergencies
    PROVE  Choice(FindAll(e), e)
<1> DEFINE n == Len(Needs[e])
           Grown(k, before) ==
               LET t == FindOne(Needs[e][k], e, ToSet(before))
               IN  IF Len(before) < k - 1 \/ t = None THEN before ELSE Append(before, t)
           Body(f) == [k \in 0 .. n |-> IF k = 0 THEN <<>> ELSE Grown(k, f[k - 1])]
           G == [p \in (1 .. n) \X Seq(Twins) |-> Grown(p[1], p[2])]
           picked == CHOOSE f : f = Body(f)
<1>1. n \in Nat /\ \A k \in 1 .. n : Needs[e][k] \in RescuerTypes
  BY EmergenciesAssumption
<1>2. ASSUME NEW k \in 1 .. n, NEW s \in Seq(Twins) PROVE Grown(k, s) \in Seq(Twins)
  <2>1. FindOne(Needs[e][k], e, ToSet(s)) \in Twins \cup {None}
    BY <1>1, FindOneIsNew
  <2> QED  BY <2>1
<1>3. G \in [(1 .. n) \X Seq(Twins) -> Seq(Twins)]
  <2> HIDE DEF n, Grown
  <2> QED  BY <1>2
<1>4. PICK g \in [0 .. n -> Seq(Twins)] : Follow(g, <<>>, G, n)
  <2> HIDE DEF G, n
  <2> DEFINE S == Seq(Twins)
  <2>1. <<>> \in S /\ G \in [(1 .. n) \X S -> S]
    BY <1>3
  <2> HIDE DEF S
  <2>2. \E g \in [0 .. n -> S] : Follow(g, <<>>, G, n)
    BY <1>1, <2>1, Recursion
  <2> QED  BY <2>2 DEF S
<1>5. ASSUME NEW k \in 1 .. n PROVE g[k] = Grown(k, g[k - 1])
  <2> HIDE DEF n, Grown
  <2>1. k - 1 \in 0 .. n /\ <<k, g[k - 1]>> \in (1 .. n) \X Seq(Twins)
    BY <1>1, <1>4
  <2> QED  BY <1>4, <2>1 DEF Follow
<1>6. g = Body(g)
  <2> HIDE DEF n, Grown
  <2>1. g[0] = <<>>
    BY <1>4 DEF Follow
  <2> QED  BY <1>1, <1>4, <1>5, <2>1
<1>7. picked = Body(picked)
  <2> HIDE DEF Body
  <2> QED  BY <1>6
<1>8. FindAll(e) = picked[n]
  BY DEF FindAll
<1> HIDE DEF picked, Grown, n
<1> DEFINE T == {k \in 0 .. n : Choice(picked[k], e) /\ Len(picked[k]) <= k}
<1>9. 0 \in T
  <2>1. picked[0] = <<>>
    BY <1>1, <1>7
  <2>2. Choice(<<>>, e)
    BY EmergenciesAssumption DEF Choice, IsInjective, Fits
  <2>3. Choice(picked[0], e) /\ Len(picked[0]) <= 0 /\ 0 \in 0 .. n
    BY <1>1, <2>1, <2>2
  <2> QED  BY <2>3
<1>10. ASSUME NEW k \in 0 .. n, k < n, k \in T PROVE k + 1 \in T
  <2> DEFINE s == picked[k]
             t == FindOne(Needs[e][k + 1], e, ToSet(s))
  <2>1. k + 1 \in 1 .. n /\ k + 1 \in 0 .. n /\ (k + 1) - 1 = k
    BY <1>1, <1>10
  <2>2. picked[k + 1] = Grown(k + 1, s)
    <3>1. picked[k + 1] = Grown(k + 1, picked[(k + 1) - 1])
      BY <1>7, <2>1
    <3> QED  BY <2>1, <3>1
  <2>3. t \in ((Twins \cap ToSet(TwinsOf[Needs[e][k + 1]])
                  \cap (Available \cup Stealable(e))) \ ToSet(s)) \cup {None}
    BY <1>1, <2>1, FindOneIsNew
  <2>4. picked[k + 1] = s \/ (t # None /\ Len(s) >= k /\ picked[k + 1] = Append(s, t))
    <3>1. ~(Len(s) < (k + 1) - 1) => Len(s) >= k
      BY <1>10 DEF Choice
    <3> QED  BY <2>2, <3>1 DEF Grown
  <2>5. Choice(s, e) /\ Len(s) <= k /\ s \in Seq(Twins) /\ k \in Nat
    BY <1>1, <1>10 DEF Choice
  <2> HIDE DEF s, t
  <2>6. CASE picked[k + 1] = s
    BY <2>1, <2>5, <2>6
  <2>7. CASE t # None /\ Len(s) >= k /\ picked[k + 1] = Append(s, t)
    <3>1. Len(s) = k
      BY <2>5, <2>7
    <3>2. Len(Append(s, t)) = k + 1 /\ Len(s) < n
      BY <1>10, <2>5, <3>1
    <3>3. Choice(Append(s, t), e)
      BY <1>1, <2>3, <2>5, <2>7, <3>1, <3>2, OneMoreChoice DEF n
    <3>4. Choice(picked[k + 1], e)
      BY <2>7, <3>3
    <3>5. Len(picked[k + 1]) <= k + 1
      BY <2>5, <2>7, <3>2
    <3> QED  BY <2>1, <3>4, <3>5
  <2> QED  BY <2>4, <2>6, <2>7
<1>11. 0 .. n \subseteq T
  <2> HIDE DEF T
  <2> QED  BY <1>1, <1>9, <1>10, UpTo
<1> QED  BY <1>1, <1>8, <1>11

(* The nodes a search probes are those of twins. *)
LEMMA ProbedAreBound ==
    ASSUME TwinsTyped, NEW e \in Emergencies
    PROVE  /\ NodesProbed(e) \subseteq Emergencies
           /\ \A x \in NodesProbed(e) : \E t \in Twins : twin[t].node = x
<1> DEFINE found == FindAll(e)
           tried == {k \in DOMAIN Needs[e] :
                       /\ k <= Len(found) + 1
                       /\ Nearest(Needs[e][k], e,
                                  Available \ {found[i] : i \in 1 .. k - 1}) = None}
           asked == UNION {ToSet(TwinsOf[Needs[e][k]]) : k \in tried}
<1>1. tried \subseteq DOMAIN Needs[e] /\ NodesProbed(e) = {twin[t].node : t \in asked} \ {None}
  BY DEF NodesProbed
<1> HIDE DEF tried
<1>2. \A k \in tried : Needs[e][k] \in RescuerTypes
  BY <1>1, EmergenciesAssumption
<1>3. asked \subseteq Twins
  BY <1>2 DEF Twins
<1> HIDE DEF asked
<1> QED  BY <1>1, <1>3 DEF TwinsTyped, TwinRecord

--------------------------------------------------------------------------------
(* The invariant *)

SearchTyped ==
    /\ chosen \in [Workers -> Seq(Twins)]
    /\ probes \in [Workers -> SUBSET Emergencies]
    /\ sent \in [Workers -> Nat]

(* What w may send: nobody but the updater can change it, and the updater  *)
(* needs rescuers_mutex for it.                                            *)
Sendable(w) == Available \cup Stealable(node[w])

(* What w's search decided, while w holds rescuers_mutex *)
SearchSound(w) ==
    /\ IsInjective(chosen[w]) /\ sent[w] <= Len(chosen[w])
    /\ \A i \in DOMAIN chosen[w] : i > sent[w] => chosen[w][i] \in Sendable(w)
    /\ sent[w] > 0 \/ pc[w] = "steal" => probes[w] = {} /\ AllFound(w)
    /\ node[w] \notin probes[w]
    /\ \A x \in probes[w] : \E t \in Twins : twin[t].node = x
    /\ pc[w] = "steal" => sent[w] < Len(chosen[w]) /\ NextToSend(w) \in Stealable(node[w])

(* w has sent nobody to its node yet. *)
Unserved(w) == pc[w] \in BeforeSending /\ (pc[w] \in HoldsRescuers => sent[w] = 0)

(* A twin is bound to no emergency that is still unserved. *)
BoundAreServed ==
    \A t \in Twins : twin[t].node # None =>
        /\ twin[t].node \in Started
        /\ \A w \in Workers : Unserved(w) => node[w] # twin[t].node

SearchInvariant ==
    /\ TwinsTyped /\ SearchTyped /\ BoundAreServed
    /\ \A w \in Workers : pc[w] \in HoldsRescuers => SearchSound(w)

--------------------------------------------------------------------------------
(* Who sends rescuers, and who moves them *)

(* w sends the next of those it chose. *)
Sends(w) ==
    /\ pc[w] \in HoldsRescuers /\ pc'[w] = "search"
    /\ node' = node /\ node[w] \in Emergencies /\ node[w] \in Working
    /\ chosen' = chosen /\ probes' = probes /\ sent' = [sent EXCEPT ![w] = @ + 1]
    /\ probes[w] = {} /\ AllFound(w) /\ sent[w] < Len(chosen[w])
    /\ NextToSend(w) \in Twins /\ NextToSend(w) \in Sendable(w)
    /\ twin' = [twin EXCEPT ![NextToSend(w)] = SentTo(NextToSend(w), node[w])]

LEMMA SendersSend ==
    ASSUME PlaceInvariant, SearchInvariant, NEW w \in Workers, SendFree(w) \/ PauseAndSend(w)
    PROVE  Sends(w)
<1>1. pc \in [Workers -> WorkerSteps] /\ pc[w] \in HoldsRescuers
  BY DEF SendFree, PauseAndSend, Sending, HoldsRescuers, PlaceInvariant, LockInvariant,
         ControlTypeOK
<1>2. node[w] \in Emergencies /\ node[w] \in Working
  BY <1>1, LevelsAreEmergencies
  DEF PlaceInvariant, DataTypeOK, HandledIsWorking, Working, Handling, HoldsRescuers
<1>3. SearchSound(w) /\ SearchTyped
  BY <1>1 DEF SearchInvariant
<1>4. /\ pc'[w] = "search" /\ node' = node
      /\ chosen' = chosen /\ probes' = probes /\ sent' = [sent EXCEPT ![w] = @ + 1]
      /\ twin' = [twin EXCEPT ![NextToSend(w)] = SentTo(NextToSend(w), node[w])]
  <2>1. CASE SendFree(w)
    BY <2>1 DEF SendFree, Sending
  <2>2. CASE PauseAndSend(w)
    BY <1>1, <2>2, RobberGoesOn DEF PauseAndSend
  <2> QED  BY <2>1, <2>2
<1>5. probes[w] = {} /\ AllFound(w) /\ sent[w] < Len(chosen[w])
  BY <1>3 DEF SendFree, PauseAndSend, Sending, SearchSound
<1>6. chosen[w] \in Seq(Twins) /\ sent[w] \in Nat
  BY <1>3 DEF SearchTyped
<1>7. sent[w] + 1 \in DOMAIN chosen[w] /\ sent[w] + 1 > sent[w]
  BY <1>5, <1>6
<1>8. NextToSend(w) \in Twins /\ NextToSend(w) \in Sendable(w)
  BY <1>3, <1>6, <1>7 DEF NextToSend, SearchSound
<1> QED  BY <1>1, <1>2, <1>4, <1>5, <1>8 DEF Sends

LEMMA TwinsChange ==
    ASSUME PlaceInvariant, SearchInvariant, [Next]_vars
    PROVE  \/ twin' = twin
           \/ UpdateRescuers
           \/ \E w \in Workers : Sends(w) /\ (SendFree(w) \/ PauseAndSend(w))
<1>1. ASSUME NEW w \in Workers, WorkerStep(w) \/ SpuriousWakeup(w)
      PROVE  twin' = twin \/ (Sends(w) /\ (SendFree(w) \/ PauseAndSend(w)))
  <2>1. CASE SendFree(w) \/ PauseAndSend(w)
    BY <2>1, SendersSend
  <2>2. CASE \/ CheckStop(w) \/ WaitForWork(w) \/ TakeNode(w) \/ EnqueueWorking(w)
             \/ BeginSearch(w) \/ BeginProcessing(w) \/ WaitAgain(w) \/ SpuriousWakeup(w)
    BY <2>2 DEF CheckStop, WaitForWork, TakeNode, EnqueueWorking, BeginSearch,
                BeginProcessing, WaitAgain, SpuriousWakeup, dataVars
  <2>3. CASE \/ SearchRescuers(w) \/ (\E e \in Emergencies : ProbeNode(w, e))
             \/ SearchFails(w) \/ DecideToSteal(w) \/ SearchEnds(w) \/ RetrySearch(w)
    BY <2>3 DEF SearchRescuers, ProbeNode, SearchFails, DecideToSteal, SearchEnds,
                RetrySearch, dataVars
  <2>4. CASE \/ GiveUpArrival(w) \/ EndProcessing(w) \/ Complete(w) \/ Cancel(w)
             \/ PauseLockWaiting(w) \/ Pause(w) \/ RecheckCanceled(w)
    BY <2>4 DEF GiveUpArrival, EndProcessing, ResumeWith, Complete, Cancel,
                PauseLockWaiting, Pause, RecheckCanceled, dataVars
  <2> QED  BY <1>1, <2>1, <2>2, <2>3, <2>4 DEF WorkerStep, SearchStep
<1>2. CASE UpdaterStep
  BY <1>2 DEF UpdaterStep, CheckUpdater, TakeTick, UpdaterLockRescuers, UpdaterLockWaiting,
              UpdateWorkingNode, UpdateWaitingNode, ScanWaiting, EndUpdate, BeginCancelAll,
              CancelNode, EndCancelAll, dataVars
<1>3. CASE \/ ReceiveStop \/ CloseServer \/ ClockStep \/ UNCHANGED vars
           \/ \E e \in Emergencies : ReceiveRequest(e)
  BY <1>3 DEF ReceiveStop, CloseServer, ClockStep, Tick, StopClock, ReceiveRequest, vars,
              dataVars
<1> QED  BY <1>1, <1>2, <1>3 DEF Next

LEMMA NextTwinsTyped == PlaceInvariant /\ SearchInvariant /\ [Next]_vars => TwinsTyped'
<1> SUFFICES ASSUME PlaceInvariant, SearchInvariant, [Next]_vars PROVE TwinsTyped'
  OBVIOUS
<1>1. TwinsTyped
  BY DEF SearchInvariant
<1>2. CASE UpdateRescuers
  <2>1. twin' = [t \in Twins |-> UpdatedTwin(t)]
    BY <1>2 DEF UpdateRescuers
  <2>2. \A t \in Twins : UpdatedTwin(t) \in TwinRecord
    BY <1>1, UpdatedTwinTyped
  <2> QED  BY <2>1, <2>2 DEF TwinsTyped
<1>3. ASSUME NEW w \in Workers, Sends(w) PROVE TwinsTyped'
  <2>1. SentTo(NextToSend(w), node[w]) \in TwinRecord
    BY <1>1, <1>3, SentTyped DEF Sends
  <2> QED  BY <1>1, <1>3, <2>1 DEF Sends, TwinsTyped
<1> QED  BY <1>1, <1>2, <1>3, TwinsChange DEF TwinsTyped

(* A search that has sent someone sends them all. *)
LEMMA ServedStays ==
    ASSUME PlaceInvariant, SearchInvariant, [Next]_vars, NEW w \in Workers,
           pc[w] \in HoldsRescuers, sent[w] > 0
    PROVE  ~Unserved(w)'
<1>1. /\ pc \in [Workers -> WorkerSteps] /\ node \in [Workers -> Emergencies \cup {None}]
      /\ sent \in [Workers -> Nat] /\ AllFound(w) /\ pc[w] \in {"search", "steal"}
  BY DEF PlaceInvariant, LockInvariant, ControlTypeOK, DataTypeOK, SearchInvariant,
         SearchTyped, SearchSound, HoldsRescuers
<1> USE DEF Unserved, HoldsRescuers
<1>2. CASE ~(WorkerStep(w) \/ SpuriousWakeup(w))
  <2>1. sent' = sent
    BY <1>2, SearcherIsAlone DEF searchVars
  <2>2. pc'[w] \in {pc[w]} \cup Woken
    BY <1>1, <1>2, OnlySignalsReach
  <2> QED  BY <1>1, <2>1, <2>2 DEF Woken, BeforeSending
<1>3. CASE SendFree(w) \/ PauseAndSend(w)
  <2>1. pc'[w] = "search" /\ sent'[w] = sent[w] + 1
    BY <1>1, <1>3, SendersSend DEF Sends
  <2> QED  BY <1>1, <2>1
<1>4. CASE (\E e \in Emergencies : ProbeNode(w, e)) \/ DecideToSteal(w)
  BY <1>1, <1>4 DEF ProbeNode, DecideToSteal, searchVars
<1>5. CASE SearchEnds(w)
  BY <1>1, <1>5 DEF SearchEnds, BeforeSending
<1>6. CASE \/ CheckStop(w) \/ WaitForWork(w) \/ TakeNode(w) \/ EnqueueWorking(w)
           \/ BeginSearch(w) \/ BeginProcessing(w) \/ WaitAgain(w) \/ SpuriousWakeup(w)
           \/ SearchRescuers(w) \/ SearchFails(w) \/ RetrySearch(w)
  BY <1>1, <1>6 DEF CheckStop, WaitForWork, TakeNode, EnqueueWorking, BeginSearch,
                    BeginProcessing, WaitAgain, SpuriousWakeup, SearchRescuers, SearchFails,
                    RetrySearch
<1>7. CASE \/ GiveUpArrival(w) \/ EndProcessing(w) \/ Complete(w) \/ Cancel(w)
           \/ PauseLockWaiting(w) \/ Pause(w) \/ RecheckCanceled(w)
  BY <1>1, <1>7 DEF GiveUpArrival, EndProcessing, Complete, Cancel, PauseLockWaiting, Pause,
                    RecheckCanceled
<1> QED  BY <1>2, <1>3, <1>4, <1>5, <1>6, <1>7 DEF WorkerStep, SearchStep

LEMMA NextBound == PlaceInvariant /\ SearchInvariant /\ [Next]_vars => BoundAreServed'
<1> SUFFICES ASSUME PlaceInvariant, SearchInvariant, [Next]_vars,
                    NEW t \in Twins, NEW e, e = twin'[t].node, e # None
             PROVE  /\ e \in Started'
                    /\ \A w \in Workers : Unserved(w)' => node'[w] # e
  BY DEF BoundAreServed
<1>1. Started \subseteq Started'
  BY StartedGrows
<1>2. TwinsTyped /\ BoundAreServed /\ sent \in [Workers -> Nat]
      /\ pc \in [Workers -> WorkerSteps]
  BY DEF SearchInvariant, SearchTyped, PlaceInvariant, LockInvariant, ControlTypeOK
<1>3. CASE twin[t].node = e
  <2>1. e \in Started'
    BY <1>1, <1>2, <1>3 DEF BoundAreServed
  <2>2. ASSUME NEW w \in Workers, Unserved(w)' PROVE node'[w] # e
    <3>1. node'[w] = node[w] /\ pc[w] \in BeforeSending \cup {"lockWorking"}
      BY <2>2, SearchesBegin DEF Unserved
    <3>2. pc[w] = "lockWorking" => node[w] # e
      BY <1>2, <1>3, NotStartedYet DEF BoundAreServed
    <3>3. pc[w] \in BeforeSending => Unserved(w)
      BY <1>2, <2>2, ServedStays DEF Unserved
    <3> QED  BY <1>2, <1>3, <3>1, <3>2, <3>3 DEF BoundAreServed
  <2> QED  BY <2>1, <2>2
<1>4. CASE twin[t].node # e
  <2>1. PICK u \in Workers : Sends(u)
    <3>1. UpdateRescuers => twin'[t].node = twin[t].node
      BY <1>2, UpdatedTwinTyped DEF UpdateRescuers
    <3> QED  BY <1>4, <3>1, TwinsChange
  <2>2. t = NextToSend(u) /\ node[u] = e /\ e \in Emergencies /\ e \in Working
    BY <1>2, <1>4, <2>1, SentTyped DEF Sends, TwinsTyped
  <2>3. ASSUME NEW w \in Workers, Unserved(w)' PROVE node'[w] # e
    <3>1. node'[w] = node[w] /\ pc[w] \in BeforeSending \cup {"lockWorking"}
      BY <2>3, SearchesBegin DEF Unserved
    <3>2. w # u
      <4>1. pc'[u] = "search" /\ sent'[u] = sent[u] + 1 /\ sent[u] \in Nat
        BY <1>2, <2>1 DEF Sends
      <4> QED  BY <2>3, <4>1 DEF Unserved, HoldsRescuers
    <3>3. pc[u] \in Busy /\ pc[w] \in Busy
      BY <2>1, <3>1 DEF Sends, Busy, Handling, BeforeSending, HoldsRescuers
    <3> QED  BY <2>2, <3>1, <3>2, <3>3, ThreadsAssumption DEF PlaceInvariant, HandledIsWorking
  <2> QED  BY <1>1, <2>2, <2>3 DEF Started
<1> QED  BY <1>3, <1>4

(* What a worker does to its search; nobody else touches it. *)
LEMMA SearchChanges ==
    ASSUME PlaceInvariant, SearchInvariant, NEW w \in Workers,
           WorkerStep(w) \/ SpuriousWakeup(w)
    PROVE  \/ UNCHANGED searchVars
           \/ SearchRescuers(w) \/ (\E e \in Emergencies : ProbeNode(w, e))
           \/ SearchFails(w) \/ SearchEnds(w) \/ Sends(w)
<1>1. CASE SendFree(w) \/ PauseAndSend(w)
  BY <1>1, SendersSend
<1>2. CASE \/ CheckStop(w) \/ WaitForWork(w) \/ TakeNode(w) \/ EnqueueWorking(w)
           \/ BeginSearch(w) \/ BeginProcessing(w) \/ WaitAgain(w) \/ SpuriousWakeup(w)
           \/ RetrySearch(w) \/ DecideToSteal(w)
  BY <1>2 DEF CheckStop, WaitForWork, TakeNode, EnqueueWorking, BeginSearch,
              BeginProcessing, WaitAgain, SpuriousWakeup, RetrySearch, DecideToSteal
<1>3. CASE \/ GiveUpArrival(w) \/ EndProcessing(w) \/ Complete(w) \/ Cancel(w)
           \/ PauseLockWaiting(w) \/ Pause(w) \/ RecheckCanceled(w)
  BY <1>3 DEF GiveUpArrival, EndProcessing, ResumeWith, Complete, Cancel,
              PauseLockWaiting, Pause, RecheckCanceled
<1> QED  BY <1>1, <1>2, <1>3 DEF WorkerStep, SearchStep

LEMMA SearcherHasANode ==
    ASSUME PlaceInvariant, NEW w \in Workers, pc[w] \in Handling
    PROVE  node[w] \in Emergencies
BY LevelsAreEmergencies DEF PlaceInvariant, DataTypeOK, HandledIsWorking, Working

LEMMA NextSearchTyped == PlaceInvariant /\ SearchInvariant /\ [Next]_vars => SearchTyped'
<1> SUFFICES ASSUME PlaceInvariant, SearchInvariant, [Next]_vars PROVE SearchTyped'
  OBVIOUS
<1>1. SearchTyped /\ TwinsTyped
  BY DEF SearchInvariant
<1>2. UNCHANGED searchVars => SearchTyped'
  BY <1>1 DEF SearchTyped, searchVars
<1>3. ASSUME NEW w \in Workers, WorkerStep(w) \/ SpuriousWakeup(w) PROVE SearchTyped'
  <2>1. CASE SearchRescuers(w)
    <3>1. node[w] \in Emergencies
      BY <2>1, SearcherHasANode DEF SearchRescuers, Handling
    <3>2. FindAll(node[w]) \in Seq(Twins) /\ NodesProbed(node[w]) \subseteq Emergencies
      BY <1>1, <3>1, FindAllIsAChoice, ProbedAreBound DEF Choice
    <3> QED  BY <1>1, <2>1, <3>2 DEF SearchRescuers, SearchTyped
  <2>2. ASSUME NEW e \in Emergencies, ProbeNode(w, e) PROVE SearchTyped'
    <3>1. chosen' = chosen /\ sent' = sent /\ probes' = [probes EXCEPT ![w] = @ \ {e}]
      BY <2>2 DEF ProbeNode
    <3> QED  BY <1>1, <3>1 DEF SearchTyped
  <2>3. CASE SearchFails(w) \/ SearchEnds(w)
    <3>1. /\ chosen' = [chosen EXCEPT ![w] = <<>>] /\ probes' = probes
          /\ sent' \in {sent, [sent EXCEPT ![w] = 0]}
      BY <2>3 DEF SearchFails, SearchEnds
    <3>2. <<>> \in Seq(Twins)
      OBVIOUS
    <3> QED  BY <1>1, <3>1, <3>2 DEF SearchTyped
  <2>4. CASE Sends(w)
    BY <1>1, <2>4 DEF Sends, SearchTyped
  <2> QED  BY <1>2, <1>3, <2>1, <2>2, <2>3, <2>4, SearchChanges
<1>4. CASE UpdaterStep
  BY <1>2, <1>4 DEF UpdaterStep, CheckUpdater, TakeTick, UpdaterLockRescuers,
                    UpdaterLockWaiting, UpdateRescuers, UpdateWorkingNode, UpdateWaitingNode,
                    ScanWaiting, EndUpdate, BeginCancelAll, CancelNode, EndCancelAll, poolVars
<1>5. CASE \/ ReceiveStop \/ CloseServer \/ ClockStep \/ UNCHANGED vars
           \/ \E e \in Emergencies : ReceiveRequest(e)
  BY <1>2, <1>5 DEF ReceiveStop, CloseServer, ClockStep, Tick, StopClock, ReceiveRequest,
                    vars, poolVars
<1> QED  BY <1>3, <1>4, <1>5 DEF Next

--------------------------------------------------------------------------------
(* What a search decided stays good *)

LEMMA SendableStays ==
    ASSUME DataTypeOK, TwinsTyped, PrioritiesKept, NEW t \in Twins, twin'[t] = twin[t],
           NEW w \in Workers, node[w] \in Emergencies, node'[w] = node[w]
    PROVE  /\ t \in Sendable(w) => t \in Sendable(w)'
           /\ t \in Stealable(node[w]) => t \in Stealable(node[w])'
<1>1. twin[t].node \in Emergencies \cup {None}
  BY DEF TwinsTyped, TwinRecord
<1>2. \A e \in Emergencies : emergency'[e].priority = emergency[e].priority
  BY DEF PrioritiesKept, SamePriority
<1>3. t \in Stealable(node[w]) => t \in Stealable(node[w])'
  BY <1>1, <1>2 DEF Stealable
<1>4. t \in Available => t \in Available'
  BY DEF Available
<1> QED  BY <1>3, <1>4 DEF Sendable

LEMMA PrioritiesStay ==
    ASSUME PlaceInvariant, [Next]_vars, updater \notin UpdaterHoldsRescuers
    PROVE  PrioritiesKept
<1>1. DataTypeOK
  BY DEF PlaceInvariant
<1>2. emergency' = emergency => PrioritiesKept
  BY <1>1 DEF PrioritiesKept, SamePriority, DataTypeOK
<1>3. CASE \E w \in Workers : WorkerStep(w) \/ SpuriousWakeup(w)
  BY <1>1, <1>3, WorkersKeepPriorities
<1>4. CASE CancelNode
  <2>1. emergency' = [emergency EXCEPT ![Head(todo)].status = "CANCELED"]
    BY <1>4 DEF CancelNode, WithStatus
  <2>2. \A e \in Emergencies :
           emergency'[e] \in {emergency[e], [emergency[e] EXCEPT !.status = "CANCELED"]}
    BY <1>1, <2>1 DEF DataTypeOK
  <2>3. \A e \in Emergencies :
           /\ SamePriority(emergency[e], emergency[e])
           /\ SamePriority(emergency[e], [emergency[e] EXCEPT !.status = "CANCELED"])
    <3>1. \A e \in Emergencies : Known(emergency[e])
      BY <1>1 DEF DataTypeOK
    <3> QED  BY <3>1 DEF Known, SamePriority
  <2> QED  BY <1>1, <2>1, <2>2, <2>3 DEF PrioritiesKept, DataTypeOK
<1>5. CASE UpdaterStep /\ ~CancelNode
  BY <1>2, <1>5 DEF UpdaterStep, CheckUpdater, TakeTick, UpdaterLockRescuers,
                    UpdaterLockWaiting, UpdateRescuers, UpdateWorkingNode, UpdateWaitingNode,
                    ScanWaiting, EndUpdate, BeginCancelAll, EndCancelAll, dataVars,
                    UpdaterHoldsRescuers
<1>6. CASE \/ ReceiveStop \/ CloseServer \/ ClockStep \/ UNCHANGED vars
           \/ \E e \in Emergencies : ReceiveRequest(e)
  BY <1>2, <1>6 DEF ReceiveStop, CloseServer, ClockStep, Tick, StopClock, ReceiveRequest,
                    vars, dataVars
<1> QED  BY <1>3, <1>4, <1>5, <1>6 DEF Next

(* Nothing but the probes, and the decision to steal, changes in a search. *)
LEMMA SoundStays ==
    ASSUME PlaceInvariant, SearchInvariant, NEW w \in Workers, SearchSound(w), PrioritiesKept,
           node[w] \in Emergencies, node'[w] = node[w], twin' = twin,
           chosen'[w] = chosen[w], sent'[w] = sent[w], probes'[w] \subseteq probes[w],
           pc'[w] = "steal" =>
               \/ pc[w] = "steal"
               \/ /\ probes[w] = {} /\ AllFound(w) /\ sent[w] < Len(chosen[w])
                  /\ NextToSend(w) \in Stealable(node[w])
    PROVE  SearchSound(w)'
<1>1. chosen[w] \in Seq(Twins) /\ sent[w] \in Nat
  BY DEF SearchInvariant, SearchTyped
<1>2. \A t \in Twins : /\ t \in Sendable(w) => t \in Sendable(w)'
                       /\ t \in Stealable(node[w]) => t \in Stealable(node[w])'
  BY SendableStays DEF SearchInvariant, PlaceInvariant
<1>3. /\ IsInjective(chosen[w]) /\ sent[w] <= Len(chosen[w])
      /\ \A i \in DOMAIN chosen[w] : i > sent[w] => chosen[w][i] \in Sendable(w)
      /\ sent[w] > 0 \/ pc[w] = "steal" => probes[w] = {} /\ AllFound(w)
      /\ node[w] \notin probes[w]
      /\ \A x \in probes[w] : \E t \in Twins : twin[t].node = x
      /\ pc[w] = "steal" => sent[w] < Len(chosen[w]) /\ NextToSend(w) \in Stealable(node[w])
  BY DEF SearchSound
<1>4. \A i \in DOMAIN chosen'[w] : i > sent'[w] => chosen'[w][i] \in Sendable(w)'
  BY <1>1, <1>2, <1>3
<1>5. AllFound(w)' = AllFound(w) /\ NextToSend(w)' = NextToSend(w)
  BY DEF AllFound, NextToSend
<1>6. sent[w] < Len(chosen[w]) => NextToSend(w) \in Twins
  BY <1>1 DEF NextToSend
<1>7. pc'[w] = "steal" => /\ probes[w] = {} /\ AllFound(w) /\ sent[w] < Len(chosen[w])
                          /\ NextToSend(w) \in Stealable(node[w])
  BY <1>3
<1>8. pc'[w] = "steal" => (NextToSend(w) \in Stealable(node[w]))'
  BY <1>2, <1>5, <1>6, <1>7
<1>9. sent'[w] > 0 \/ pc'[w] = "steal" => probes'[w] = {} /\ AllFound(w)'
  BY <1>1, <1>3, <1>5, <1>7
<1>10. \A x \in probes'[w] : \E t \in Twins : twin'[t].node = x
  BY <1>3
<1> QED  BY <1>1, <1>3, <1>4, <1>7, <1>8, <1>9, <1>10 DEF SearchSound

LEMMA SearchBegins ==
    ASSUME PlaceInvariant, SearchInvariant, NEW w \in Workers, SearchRescuers(w)
    PROVE  SearchSound(w)'
<1> DEFINE e == node[w]
<1>1. e \in Emergencies
  BY SearcherHasANode DEF SearchRescuers, Handling
<1>2. TwinsTyped /\ SearchTyped /\ BoundAreServed /\ pc \in [Workers -> WorkerSteps]
  BY DEF SearchInvariant, PlaceInvariant, LockInvariant, ControlTypeOK
<1>3. /\ chosen'[w] = FindAll(e) /\ probes'[w] = NodesProbed(e) /\ sent'[w] = 0
      /\ pc'[w] = "search" /\ node' = node /\ twin' = twin /\ emergency' = emergency
      /\ pc[w] = "lockRescuers"
  BY <1>2 DEF SearchRescuers, SearchTyped, dataVars
<1>4. Choice(FindAll(e), e)
  BY <1>1, <1>2, FindAllIsAChoice
<1>5. Available' = Available /\ Stealable(node[w])' = Stealable(e)
  BY <1>3 DEF Available, Stealable
<1>6. /\ IsInjective(FindAll(e)) /\ FindAll(e) \in Seq(Twins) /\ 0 <= Len(FindAll(e))
      /\ \A i \in DOMAIN FindAll(e) : FindAll(e)[i] \in Sendable(w)'
  BY <1>4, <1>5 DEF Choice, Sendable
<1>7. \A x \in NodesProbed(e) : \E t \in Twins : twin[t].node = x
  BY <1>1, <1>2, ProbedAreBound
<1>8. e \notin NodesProbed(e)
  <2>1. Unserved(w)
    BY <1>3 DEF Unserved, BeforeSending, HoldsRescuers
  <2> QED  BY <1>1, <1>2, <1>7, <2>1, ThreadsAssumption DEF BoundAreServed
<1> QED  BY <1>3, <1>6, <1>7, <1>8 DEF SearchSound

LEMMA SendingGoesOn ==
    ASSUME PlaceInvariant, SearchInvariant, NEW w \in Workers, Sends(w), PrioritiesKept
    PROVE  SearchSound(w)'
<1>1. /\ chosen[w] \in Seq(Twins) /\ sent[w] \in Nat /\ sent'[w] = sent[w] + 1
      /\ SearchSound(w)
  BY DEF SearchInvariant, SearchTyped, Sends
<1>2. /\ pc'[w] = "search" /\ node'[w] = node[w] /\ node[w] \in Emergencies
      /\ chosen' = chosen /\ probes'[w] = {} /\ AllFound(w)' /\ sent[w] < Len(chosen[w])
  BY DEF Sends, AllFound
<1>3. \A i \in DOMAIN chosen[w] : i > sent[w] + 1 => chosen[w][i] # NextToSend(w)
  <2>1. sent[w] + 1 \in DOMAIN chosen[w]
    BY <1>1, <1>2
  <2> QED  BY <1>1, <2>1 DEF SearchSound, IsInjective, NextToSend
<1>4. ASSUME NEW i \in DOMAIN chosen[w], i > sent[w] + 1
      PROVE  chosen[w][i] \in Sendable(w)'
  <2> DEFINE t == chosen[w][i]
  <2>1. t \in Twins /\ t \in Sendable(w)
    BY <1>1, <1>4 DEF SearchSound
  <2>2. twin'[t] = twin[t]
    BY <1>3, <1>4, <2>1 DEF Sends, SearchInvariant, TwinsTyped
  <2> HIDE DEF t
  <2>3. t \in Sendable(w)'
    BY <1>2, <2>1, <2>2, SendableStays DEF SearchInvariant, PlaceInvariant
  <2> QED  BY <2>3 DEF t
<1>5. \A i \in DOMAIN chosen'[w] : i > sent'[w] => chosen'[w][i] \in Sendable(w)'
  BY <1>1, <1>2, <1>4
<1>6. IsInjective(chosen'[w]) /\ sent'[w] <= Len(chosen'[w])
  BY <1>1, <1>2 DEF SearchSound
<1> QED  BY <1>1, <1>2, <1>5, <1>6 DEF SearchSound

LEMMA NextSound ==
    ASSUME PlaceInvariant, SearchInvariant, [Next]_vars, NEW w \in Workers,
           pc'[w] \in HoldsRescuers
    PROVE  SearchSound(w)'
<1>1. /\ pc \in [Workers -> WorkerSteps] /\ node \in [Workers -> Emergencies \cup {None}]
      /\ SearchTyped /\ TwinsTyped
  BY DEF PlaceInvariant, LockInvariant, ControlTypeOK, DataTypeOK, SearchInvariant
<1>2. pc[w] \in HoldsRescuers =>
          /\ SearchSound(w) /\ node[w] \in Emergencies /\ PrioritiesKept
  <2>1. pc[w] \in HoldsRescuers => updater \notin UpdaterHoldsRescuers
    BY ThreadsAssumption DEF PlaceInvariant, LockInvariant, QueueMutexDiscipline
  <2>2. pc[w] \in HoldsRescuers => node[w] \in Emergencies
    BY SearcherHasANode DEF HoldsRescuers, Handling
  <2> QED  BY <2>1, <2>2, PrioritiesStay DEF SearchInvariant
<1>3. CASE ~(WorkerStep(w) \/ SpuriousWakeup(w))
  <2>1. node'[w] = node[w] /\ pc'[w] = pc[w]
    BY <1>1, <1>3, OnlySignalsReach DEF Woken, HoldsRescuers
  <2>2. UNCHANGED <<searchVars, twin>>
    BY <1>3, <2>1, SearcherIsAlone
  <2>3. twin' = twin /\ chosen'[w] = chosen[w] /\ sent'[w] = sent[w] /\ probes'[w] = probes[w]
    BY <2>2 DEF searchVars
  <2> QED  BY <1>2, <2>1, <2>3, SoundStays
<1>4. CASE SearchRescuers(w)
  BY <1>4, SearchBegins
<1>5. CASE SendFree(w) \/ PauseAndSend(w)
  BY <1>2, <1>5, SendersSend, SendingGoesOn DEF Sends
<1>6. ASSUME NEW e \in Emergencies, ProbeNode(w, e) PROVE SearchSound(w)'
  <2>1. /\ pc[w] = "search" /\ pc' = pc /\ node' = node /\ chosen' = chosen /\ sent' = sent
        /\ probes' = [probes EXCEPT ![w] = @ \ {e}] /\ twin' = twin
    BY <1>6 DEF ProbeNode, dataVars
  <2>2. probes'[w] \subseteq probes[w]
    BY <1>1, <2>1 DEF SearchTyped
  <2> QED  BY <1>2, <2>1, <2>2, SoundStays DEF HoldsRescuers
<1>7. CASE DecideToSteal(w)
  <2>1. /\ pc[w] = "search" /\ node' = node /\ chosen' = chosen /\ sent' = sent
        /\ probes' = probes /\ twin' = twin
        /\ probes[w] = {} /\ AllFound(w) /\ sent[w] < Len(chosen[w])
        /\ twin[NextToSend(w)].status \in {"EN_ROUTE_TO_SCENE", "ON_SCENE"}
    BY <1>7 DEF DecideToSteal, Sending, MustBeStolen, searchVars, dataVars
  <2>2. sent[w] + 1 \in DOMAIN chosen[w] /\ sent[w] + 1 > sent[w]
    BY <1>1, <2>1 DEF SearchTyped
  <2>3. NextToSend(w) \in Sendable(w)
    BY <1>2, <2>1, <2>2 DEF SearchSound, NextToSend, HoldsRescuers
  <2>4. NextToSend(w) \in Stealable(node[w])
    BY <2>1, <2>3 DEF Sendable, Available
  <2> QED  BY <1>2, <2>1, <2>4, SoundStays DEF HoldsRescuers
<1> USE DEF HoldsRescuers
<1>8. CASE \/ CheckStop(w) \/ WaitForWork(w) \/ TakeNode(w) \/ EnqueueWorking(w)
           \/ BeginSearch(w) \/ BeginProcessing(w) \/ WaitAgain(w) \/ SpuriousWakeup(w)
           \/ SearchFails(w) \/ SearchEnds(w) \/ RetrySearch(w)
  BY <1>1, <1>8 DEF CheckStop, WaitForWork, TakeNode, EnqueueWorking, BeginSearch,
                    BeginProcessing, WaitAgain, SpuriousWakeup, WokenFrom, SearchFails,
                    SearchEnds, RetrySearch
<1>9. CASE \/ GiveUpArrival(w) \/ EndProcessing(w) \/ Complete(w) \/ Cancel(w)
           \/ PauseLockWaiting(w) \/ Pause(w) \/ RecheckCanceled(w)
  BY <1>1, <1>9 DEF GiveUpArrival, EndProcessing, ResumeWith, AfterWait, Complete, Cancel,
                    PauseLockWaiting, Pause, RecheckCanceled
<1> QED  BY <1>3, <1>4, <1>5, <1>6, <1>7, <1>8, <1>9 DEF WorkerStep, SearchStep

LEMMA InitSearch == Init => SearchInvariant
<1> SUFFICES ASSUME Init PROVE SearchInvariant
  OBVIOUS
<1>1. PICK g \in Garbage : twin = [t \in Twins |-> NewTwin(t, g)]
  BY DEF Init
<1>2. /\ pc = [w \in Workers |-> "check"] /\ chosen = [w \in Workers |-> <<>>]
      /\ probes = [w \in Workers |-> {}] /\ sent = [w \in Workers |-> 0]
  BY DEF Init
<1>3. g \in Trajectory
  BY RescuersAssumption
<1>4. ASSUME NEW t \in Twins PROVE NewTwin(t, g) \in TwinRecord /\ NewTwin(t, g).node = None
  BY <1>3, TwinTypes, InvalidTime DEF NewTwin, TwinRecord, TwinStatuses
<1>5. TwinsTyped
  BY <1>1, <1>4 DEF TwinsTyped
<1>6. SearchTyped
  BY <1>2 DEF SearchTyped
<1>7. BoundAreServed
  BY <1>1, <1>4 DEF BoundAreServed
<1> QED  BY <1>2, <1>5, <1>6, <1>7 DEF SearchInvariant, HoldsRescuers

LEMMA SearchInvariantHolds == Spec => []SearchInvariant
<1>1. PlaceInvariant /\ SearchInvariant /\ [Next]_vars => SearchInvariant'
  BY NextTwinsTyped, NextSearchTyped, NextBound, NextSound DEF SearchInvariant
<1> QED  BY <1>1, InitSearch, InvariantHolds, PTL DEF Spec

--------------------------------------------------------------------------------
(* Circles of waits *)

LEMMA Spares == SearchInvariant => SearchSparesItself
<1> SUFFICES ASSUME SearchInvariant, NEW w \in Workers
             PROVE  /\ pc[w] = "search" => node[w] \notin probes[w]
                    /\ pc[w] = "steal" => Victim(w) # node[w]
  BY DEF SearchSparesItself
<1>1. pc[w] \in HoldsRescuers => SearchSound(w)
  BY DEF SearchInvariant
<1>2. pc[w] = "search" => node[w] \notin probes[w]
  BY <1>1 DEF SearchSound, HoldsRescuers
<1>3. pc[w] = "steal" => NextToSend(w) \in Stealable(node[w])
  BY <1>1 DEF SearchSound, HoldsRescuers
<1> QED  BY <1>2, <1>3 DEF Stealable, Victim

(* A search asks for the nodes of emergencies that have their rescuers:    *)
(* no worker holds one while it asks for rescuers_mutex itself.            *)
LEMMA SearcherWaitsForNoSearcher ==
    ASSUME PlaceInvariant, SearchInvariant, NEW w \in Workers, pc[w] \in HoldsRescuers,
           NEW o \in Workers, o \in WaitsFor(w)
    PROVE  pc[o] \notin HoldsRescuers \cup {"lockRescuers"}
<1>1. SearchSound(w) /\ SearchTyped /\ TwinsTyped /\ BoundAreServed
  BY DEF SearchInvariant
<1>2. PICK e \in Emergencies : /\ node_mutex[e] = o /\ e # node[w]
                               /\ \E t \in Twins : twin[t].node = e
  <2>1. CASE pc[w] = "search"
    <3>1. PICK e \in probes[w] : node_mutex[e] = o
      BY <2>1 DEF WaitsFor
    <3> QED  BY <1>1, <3>1 DEF SearchTyped, SearchSound
  <2>2. CASE pc[w] = "steal"
    <3>1. node_mutex[Victim(w)] = o
      BY <2>2 DEF WaitsFor
    <3>2. NextToSend(w) \in Stealable(node[w])
      BY <1>1, <2>2 DEF SearchSound
    <3>3. Victim(w) \in Emergencies /\ Victim(w) # node[w] /\ NextToSend(w) \in Twins
      BY <1>1, <3>2 DEF Stealable, Victim, TwinsTyped, TwinRecord
    <3> QED  BY <3>1, <3>3 DEF Victim
  <2> QED  BY <2>1, <2>2 DEF HoldsRescuers
<1>3. node[o] = e
  BY <1>2 DEF PlaceInvariant, NodeMutexDiscipline
<1>4. pc[o] # "lockRescuers"
  <2>1. ~Unserved(o)
    BY <1>1, <1>2, <1>3, ThreadsAssumption DEF BoundAreServed
  <2> QED  BY <2>1 DEF Unserved, BeforeSending, HoldsRescuers
<1>5. pc[o] \in HoldsRescuers => o = w
  BY DEF PlaceInvariant, LockInvariant, QueueMutexDiscipline
<1> QED  BY <1>2, <1>3, <1>4, <1>5

(* What the other workers wait for *)
LEMMA OthersWaitFor ==
    ASSUME PlaceInvariant, NEW w \in Workers, NEW o \in Workers, o \in WaitsFor(w),
           pc[w] \notin HoldsRescuers
    PROVE  \/ pc[w] = "lockRescuers" /\ pc[o] \in HoldsRescuers
           \/ pc[w] \in {"lockWaiting", "pause"} /\ pc[o] = "pauseLocked"
<1>1. QueueMutexDiscipline /\ NodeMutexDiscipline /\ pc \in [Workers -> WorkerSteps]
  BY DEF PlaceInvariant, LockInvariant, ControlTypeOK
<1>2. CASE pc[w] \in {"lockWaiting", "pause"}
  BY <1>1, <1>2 DEF WaitsFor, QueueMutexDiscipline
<1>3. CASE pc[w] \in {"lockWorking", "complete", "cancel", "pauseLocked"}
  BY <1>1, <1>3 DEF WaitsFor, QueueMutexDiscipline
<1>4. CASE pc[w] = "lockRescuers"
  BY <1>1, <1>4 DEF WaitsFor, QueueMutexDiscipline
<1>5. CASE pc[w] \in {"lockNode", "retryWait", "arriveWoken", "finishWoken"}
  <2>1. node_mutex[node[w]] = o
    BY <1>5 DEF WaitsFor
  <2>2. pc[w] \in Handling /\ node[w] \in Emergencies
    BY <1>5, SearcherHasANode DEF Handling
  <2>3. pc[o] \in HoldsNode /\ node[o] = node[w]
    BY <1>1, <2>1, <2>2 DEF NodeMutexDiscipline
  <2>4. o # w /\ pc[o] \in Busy /\ pc[w] \in Busy
    BY <1>5, <2>2, <2>3 DEF HoldsNode, Busy, Handling
  <2> QED  BY <2>2, <2>3, <2>4, ThreadsAssumption DEF PlaceInvariant, HandledIsWorking
<1>6. CASE pc[w] \in {"check", "done", "asleep", "arriveWait", "finishWait", "recheck"}
  BY <1>6 DEF WaitsFor
<1> QED  BY <1>1, <1>2, <1>3, <1>4, <1>5, <1>6 DEF WorkerSteps, HoldsRescuers

LEMMA NoCircle == PlaceInvariant /\ SearchInvariant => WorkersDoNotDeadlock
<1> SUFFICES ASSUME PlaceInvariant, SearchInvariant, NEW S \in SUBSET Workers, S # {},
                    \A w \in S : WaitsFor(w) \cap S # {}
             PROVE  FALSE
  BY DEF WorkersDoNotDeadlock
<1>1. ASSUME NEW w \in S PROVE pc[w] # "pauseLocked"
  <2>1. PICK o \in S : o \in WaitsFor(w)
    OBVIOUS
  <2> QED  BY <2>1, OthersWaitFor DEF HoldsRescuers
<1>2. ASSUME NEW w \in S PROVE pc[w] \in HoldsRescuers \cup {"lockRescuers"}
  <2>1. PICK o \in S : o \in WaitsFor(w)
    OBVIOUS
  <2> QED  BY <1>1, <2>1, OthersWaitFor
<1>3. ASSUME NEW w \in S PROVE pc[w] \notin HoldsRescuers
  <2>1. PICK o \in S : o \in WaitsFor(w)
    OBVIOUS
  <2> QED  BY <1>2, <2>1, SearcherWaitsForNoSearcher
<1>4. PICK w \in S : TRUE
  OBVIOUS
<1>5. PICK o \in S : o \in WaitsFor(w)
  OBVIOUS
<1> QED  BY <1>3, <1>5, OthersWaitFor

--------------------------------------------------------------------------------
(* Robberies *)

(* What rules a change of emergency of t *)
Ruled(t) ==
    \/ twin[t].status = "IDLE"
    \/ LET victim == twin[t].node
       IN  /\ twin[t].status \in {"EN_ROUTE_TO_SCENE", "ON_SCENE"}
           /\ emergency[victim].priority < emergency[twin'[t].node].priority
           /\ emergency[victim].status \in {"WAITING_FOR_RESCUERS", "IN_PROGRESS"}
                 => emergency'[victim].status = "PAUSED"

LEMMA SendingIsRuled ==
    ASSUME PlaceInvariant, LifeInvariant, SearchInvariant, NEW w \in Workers,
           SendFree(w) \/ PauseAndSend(w), NEW t \in Twins, twin'[t].node # twin[t].node
    PROVE  Ruled(t)
<1>1. Sends(w) /\ TwinsTyped
  BY SendersSend DEF SearchInvariant
<1>2. t = NextToSend(w) /\ twin'[t].node = node[w] /\ node[w] \in Emergencies
  BY <1>1, SentTyped DEF Sends, TwinsTyped
<1>3. CASE t \in Available
  BY <1>3 DEF Available, Ruled
<1>4. CASE t \in Stealable(node[w])
  <2>1. /\ twin[t].status \in {"EN_ROUTE_TO_SCENE", "ON_SCENE"}
        /\ twin[t].node # node[w] /\ twin[t].node \in Emergencies
        /\ emergency[twin[t].node].priority < emergency[node[w]].priority
    BY <1>1, <1>4 DEF Stealable, TwinsTyped, TwinRecord
  <2>2. CASE SendFree(w)
    BY <1>2, <2>1, <2>2 DEF SendFree, MustBeStolen, Ruled
  <2>3. CASE PauseAndSend(w)
    <3> DEFINE v == twin[t].node
    <3>1. DOMAIN emergency = Emergencies /\ Sound(emergency[v])
      BY <2>1 DEF LifeInvariant, RecordsSound
    <3>2. emergency' = [emergency EXCEPT ![v] = Paused(@),
                                         ![node[w]] = WithTwin(@, sent[w] + 1, t)]
      BY <1>2, <2>3 DEF PauseAndSend
    <3>3. emergency'[v] = Paused(emergency[v])
      BY <2>1, <3>1, <3>2
    <3>4. Paused(emergency[v]).status = "PAUSED"
      BY <3>1 DEF Paused, Sound, Detailed, Known
    <3> QED  BY <1>2, <2>1, <3>3, <3>4 DEF Ruled
  <2> QED  BY <2>2, <2>3
<1> QED  BY <1>1, <1>2, <1>3, <1>4 DEF Sends, Sendable

LEMMA NextRuled ==
    ASSUME PlaceInvariant, LifeInvariant, SearchInvariant, [Next]_vars, NEW t \in Twins
    PROVE  twin'[t].node # twin[t].node => Ruled(t)
<1>1. TwinsTyped
  BY DEF SearchInvariant
<1>2. CASE twin' = twin \/ UpdateRescuers
  BY <1>1, <1>2, UpdatedTwinTyped DEF UpdateRescuers
<1>3. CASE \E w \in Workers : SendFree(w) \/ PauseAndSend(w)
  BY <1>3, SendingIsRuled
<1> QED  BY <1>2, <1>3, TwinsChange

--------------------------------------------------------------------------------
(* Archives *)

WaitedFor == {"WAITING_FOR_RESCUERS", "IN_PROGRESS"}

(* The final cancel-all has not come to x yet. *)
Ahead(x) == todo # <<>> /\ (x \in ToSet(todo)
                            \/ \E p \in Priorities : p > level /\ x \in Level(working_queue, p))

(* Whom w is about to pause has a worker still.  It may be canceled by now, *)
(* but then its worker waits for the working queue, and the updater that   *)
(* owns it has yet to cancel w's own node, which w has locked.             *)
VictimStays(w) ==
    /\ Victim(w) \in Working
    /\ \/ emergency[Victim(w)].status \in WaitedFor
       \/ /\ emergency[Victim(w)].status = "CANCELED"
          /\ updater = "cancelling" /\ Ahead(node[w])

VictimsStay == \A w \in Workers : pc[w] = "steal" => VictimStays(w)

LEMMA RobbersVictim ==
    ASSUME PlaceInvariant, SearchInvariant, NEW w \in Workers, pc[w] = "steal"
    PROVE  /\ node[w] \in Emergencies /\ node[w] \in Working
           /\ Victim(w) \in Emergencies
           /\ emergency[Victim(w)].priority < emergency[node[w]].priority
           /\ NextToSend(w) \in Twins
<1>1. SearchSound(w) /\ SearchTyped /\ TwinsTyped
  BY DEF SearchInvariant, HoldsRescuers
<1>2. NextToSend(w) \in Stealable(node[w])
  BY <1>1 DEF SearchSound
<1>3. Victim(w) \in Emergencies
  BY <1>1, <1>2 DEF Stealable, Victim, TwinsTyped, TwinRecord
<1>4. node[w] \in Emergencies /\ node[w] \in Working
  BY SearcherHasANode DEF Handling, PlaceInvariant, HandledIsWorking
<1> QED  BY <1>2, <1>3, <1>4 DEF Stealable, Victim

(* A scan that goes on leaves out nothing of what is ahead of it. *)
LEMMA UpwardsMissesNothing ==
    ASSUME NEW q, NEW from \in Int, NEW x, NEW p \in Priorities, p >= from,
           q.lists \in [Priorities -> NodeLists], x \in Level(q, p)
    PROVE  LET place == Upwards(q, from)
           IN  /\ place.todo # <<>>
               /\ \/ x \in ToSet(place.todo)
                  \/ place.level < p
<1> DEFINE left == {r \in Priorities : r >= from /\ q.lists[r] # <<>>}
<1>1. p \in left
  <2>1. q.lists[p] # <<>>
    BY EmptyList DEF Level
  <2> QED  BY <2>1
<1>2. PICK m \in left : \A r \in left : m <= r
  <2>1. left \subseteq {0, 1, 2}
    BY DEF Priorities, MIN_PRIORITY, MAX_PRIORITY
  <2> QED  BY <1>1, <2>1
<1> DEFINE least == CHOOSE k \in left : \A r \in left : k <= r
<1>3. least \in left /\ \A r \in left : least <= r
  BY <1>2
<1>4. Upwards(q, from) = [level |-> least, todo |-> q.lists[least]]
  BY <1>1 DEF Upwards
<1>5. least = p \/ least < p
  BY <1>1, <1>3 DEF Priorities, MIN_PRIORITY, MAX_PRIORITY
<1> HIDE DEF least
<1> QED  BY <1>3, <1>4, <1>5 DEF Level

LEMMA AheadStays ==
    ASSUME PlaceInvariant, updater = "cancelling", NEW x, Ahead(x), x # Head(todo),
           MoveTo(NextIn(working_queue)), working_queue' = working_queue
    PROVE  Ahead(x)'
<1>1. /\ todo \in NodeLists /\ todo # <<>> /\ level \in Priorities
      /\ QueueOK(working_queue) /\ working_queue.lists \in [Priorities -> NodeLists]
      /\ ToSet(todo) \subseteq Level(working_queue, level)
  BY DEF PlaceInvariant, ScanIsAPlace, PlaceOK, Scanning, ScannedQueue, DataTypeOK, QueueOK, Ahead
<1>2. ToSet(Tail(todo)) = ToSet(todo) \ {Head(todo)}
  BY <1>1, TailOfList
<1>3. CASE Tail(todo) # <<>>
  <2>1. level' = level /\ todo' = Tail(todo)
    BY <1>3 DEF MoveTo, NextIn
  <2> QED  BY <1>2, <1>3, <2>1 DEF Ahead, Level
<1>4. CASE Tail(todo) = <<>>
  <2>1. x \notin ToSet(todo)
    BY <1>2, <1>4, EmptyList
  <2>2. PICK p \in Priorities : p > level /\ x \in Level(working_queue, p)
    BY <2>1 DEF Ahead
  <2>3. level + 1 \in Int /\ p >= level + 1
    BY <1>1, <2>2 DEF Priorities, MIN_PRIORITY, MAX_PRIORITY
  <2> DEFINE place == Upwards(working_queue, level + 1)
  <2>4. place.todo # <<>> /\ (x \in ToSet(place.todo) \/ place.level < p)
    BY <1>1, <2>2, <2>3, UpwardsMissesNothing
  <2>5. PlaceOK(working_queue, place)
    BY <1>1, <2>3, UpwardsIsAPlace
  <2>6. level' = place.level /\ todo' = place.todo
    BY <1>4 DEF MoveTo, NextIn
  <2>7. p > level' \/ x \in ToSet(todo')
    BY <2>4, <2>5, <2>6 DEF PlaceOK, Priorities, MIN_PRIORITY, MAX_PRIORITY
  <2> QED  BY <2>2, <2>4, <2>6, <2>7 DEF Ahead, Level
<1> QED  BY <1>3, <1>4

(* The cancel-all that reaches the victim has the robber's node ahead. *)
LEMMA RobberIsAhead ==
    ASSUME PlaceInvariant, SearchInvariant, NEW w \in Workers, pc[w] = "steal",
           updater = "cancelling", todo # <<>>, Head(todo) = Victim(w)
    PROVE  Ahead(node[w])
<1>1. /\ node[w] \in Emergencies /\ node[w] \in Working
      /\ emergency[Victim(w)].priority < emergency[node[w]].priority
  BY RobbersVictim
<1>2. emergency[Victim(w)].priority = level
  BY HeadIsScanned DEF Scanning
<1>3. PICK p \in Priorities : node[w] \in Level(working_queue, p)
  BY <1>1, NodesAreLevels DEF Working
<1>4. emergency[node[w]].priority = p
  BY <1>3 DEF PlaceInvariant, ListsMatchPriorities, Level
<1> QED  BY <1>1, <1>2, <1>3, <1>4 DEF Ahead

LEMMA CancelSparesVictims ==
    ASSUME PlaceInvariant, SearchInvariant, NEW w \in Workers, pc[w] = "steal",
           VictimStays(w), CancelNode, Victim(w)' = Victim(w), node' = node
    PROVE  VictimStays(w)'
<1> DEFINE v == Victim(w)
<1>1. /\ node[w] \in Emergencies /\ v \in Emergencies
  BY RobbersVictim
<1>2. /\ updater = "cancelling" /\ todo # <<>> /\ node_mutex[Head(todo)] = None
      /\ updater' = updater /\ working_queue' = working_queue
      /\ MoveTo(NextIn(working_queue)) /\ emergency' = WithStatus(Head(todo), "CANCELED")
  BY DEF CancelNode, listVars
<1>3. node[w] # Head(todo)
  <2>1. node_mutex[node[w]] = w
    BY <1>1 DEF PlaceInvariant, NodeMutexDiscipline, HoldsNode
  <2> QED  BY <1>2, <2>1, ThreadsAssumption
<1>4. Victim(w)' \in Working'
  BY <1>2 DEF VictimStays, Working
<1>5. Ahead(node[w]) => Ahead(node[w])'
  <2> SUFFICES ASSUME Ahead(node[w]) PROVE Ahead(node[w])'
    OBVIOUS
  <2> DEFINE x == node[w]
  <2>1. x = node'[w]
    OBVIOUS
  <2> HIDE DEF x
  <2>2. Ahead(x)'
    BY <1>2, <1>3, AheadStays DEF x
  <2> QED  BY <2>2, <2>1 DEF Ahead, x
<1>6. /\ DOMAIN emergency = Emergencies
      /\ emergency'[v] = IF v = Head(todo) THEN [emergency[v] EXCEPT !.status = "CANCELED"]
                                           ELSE emergency[v]
  BY <1>1, <1>2 DEF WithStatus, PlaceInvariant, DataTypeOK
<1>7. CASE v = Head(todo)
  <2>1. Ahead(node[w])
    BY <1>2, <1>7, RobberIsAhead
  <2>2. emergency'[v].status = "CANCELED"
    BY <1>1, <1>6, <1>7 DEF PlaceInvariant, DataTypeOK, Known
  <2> QED  BY <1>2, <1>4, <1>5, <2>1, <2>2 DEF VictimStays
<1>8. CASE v # Head(todo)
  BY <1>2, <1>4, <1>5, <1>6, <1>8 DEF VictimStays
<1> QED  BY <1>7, <1>8

LEMMA OthersSpareVictims ==
    ASSUME PlaceInvariant, SearchInvariant, NEW w \in Workers, pc[w] = "steal",
           VictimStays(w), Victim(w)' = Victim(w), node'[w] = node[w],
           \/ OtherStep \/ UNCHANGED vars
           \/ \E e \in Emergencies : ReceiveRequest(e)
    PROVE  VictimStays(w)'
<1>1. updater \notin UpdaterHoldsRescuers
  BY ThreadsAssumption DEF PlaceInvariant, LockInvariant, QueueMutexDiscipline, HoldsRescuers
<1>2. CASE CancelNode
  BY <1>2, CancelSparesVictims DEF CancelNode
<1>3. CASE ~CancelNode
  <2>1. emergency' = emergency /\ working_queue' = working_queue
    BY <1>1, <1>3 DEF OtherStep, ReceiveRequest, ReceiveStop, CloseServer, ClockStep, Tick,
       StopClock, vars, UpdaterStep, CheckUpdater, TakeTick, UpdaterLockRescuers,
       UpdaterLockWaiting, UpdateRescuers, UpdateWorkingNode, UpdateWaitingNode, ScanWaiting,
       EndUpdate, BeginCancelAll, EndCancelAll, UpdaterHoldsRescuers, listVars, dataVars
  <2>2. Ahead(node[w]) /\ updater = "cancelling"
           => updater' = updater /\ level' = level /\ todo' = todo
    BY <1>3 DEF OtherStep, ReceiveRequest, ReceiveStop, CloseServer, ClockStep, Tick,
       StopClock, vars, UpdaterStep, CheckUpdater, TakeTick, UpdaterLockRescuers,
       UpdaterLockWaiting, UpdateRescuers, UpdateWorkingNode, UpdateWaitingNode, ScanWaiting,
       EndUpdate, BeginCancelAll, EndCancelAll, scanVars, Ahead
  <2> QED  BY <2>1, <2>2 DEF VictimStays, Ahead, Working
<1> QED  BY <1>2, <1>3

LEMMA WorkersSpareVictims ==
    ASSUME PlaceInvariant, LifeInvariant, SearchInvariant, NEW w \in Workers, pc[w] = "steal",
           VictimStays(w), Victim(w)' = Victim(w), node'[w] = node[w],
           NEW o \in Workers, o # w, WorkerStep(o) \/ SpuriousWakeup(o)
    PROVE  VictimStays(w)'
<1> DEFINE v == Victim(w)
<1>1. /\ pc[o] \notin HoldsRescuers /\ v \in Emergencies
  BY RobbersVictim DEF PlaceInvariant, LockInvariant, QueueMutexDiscipline, HoldsRescuers
<1>2. updater' = updater /\ level' = level /\ todo' = todo
  BY DEF WorkerStep, SearchStep, CheckStop, WaitForWork, TakeNode, EnqueueWorking, BeginSearch,
     BeginProcessing, WaitAgain, SpuriousWakeup, SearchRescuers, ProbeNode, SearchFails,
     SendFree, DecideToSteal, SearchEnds, RetrySearch, PauseAndSend, GiveUpArrival,
     EndProcessing, ResumeWith, Complete, Cancel, PauseLockWaiting, Pause, RecheckCanceled,
     OnlyWorkers, scanVars
<1>3. updater = "cancelling" => working_mutex # None
  BY ThreadsAssumption DEF PlaceInvariant, LockInvariant, QueueMutexDiscipline, UpdaterHoldsWorking
<1>4. CASE Complete(o) \/ Cancel(o) \/ Pause(o)
  <2>1. updater # "cancelling" /\ emergency' = emergency /\ emergency[v].status \in WaitedFor
    BY <1>3, <1>4 DEF Complete, Cancel, Pause, dataVars, VictimStays
  <2>2. node[o] # v
    BY <1>4, <2>1 DEF Complete, Cancel, Pause, LifeInvariant, LeavesAsTold, PlaceInvariant,
                      PausedStays, PausedSteps, WaitedFor
  <2>3. Working' = Working \ {node[o]}
    BY <1>4, LeaveLists
  <2> QED  BY <2>1, <2>2, <2>3 DEF VictimStays
<1>5. CASE EnqueueWorking(o)
  <2>1. updater # "cancelling" /\ emergency' = emergency
    BY <1>3, <1>5 DEF EnqueueWorking, dataVars
  <2>2. Working \subseteq Working'
    <3>1. CASE node[o] = None
      BY <1>5, <3>1 DEF EnqueueWorking, Working
    <3>2. CASE node[o] # None
      <4>1. node[o] \in Emergencies /\ node[o] \in Transit
        BY <1>5, <3>2 DEF EnqueueWorking, PlaceInvariant, DataTypeOK, Transit
      <4>2. node[o] \notin Working
        BY <4>1 DEF PlaceInvariant, PlacesApart
      <4>3. QueueOK(working_queue) /\ emergency[node[o]].priority \in Priorities
        BY <4>1 DEF PlaceInvariant, DataTypeOK, Known
      <4> QED  BY <1>5, <3>2, <4>1, <4>2, <4>3, QueueNodes DEF EnqueueWorking, Working
    <3> QED  BY <3>1, <3>2
  <2> QED  BY <2>1, <2>2 DEF VictimStays
<1>6. CASE ~(Complete(o) \/ Cancel(o) \/ Pause(o) \/ EnqueueWorking(o))
  <2>1. working_queue' = working_queue
    BY <1>6 DEF WorkerStep, SearchStep, CheckStop, WaitForWork, TakeNode, BeginSearch,
       BeginProcessing, WaitAgain, SpuriousWakeup, SearchRescuers, ProbeNode, SearchFails,
       SendFree, DecideToSteal, SearchEnds, RetrySearch, PauseAndSend, GiveUpArrival,
       EndProcessing, ResumeWith, PauseLockWaiting, RecheckCanceled, listVars
  <2>2. \/ emergency'[v] = emergency[v]
        \/ emergency'[v].status = "IN_PROGRESS"
    <3>1. CASE BeginSearch(o)
      <4>1. Unserved(o)
        BY <3>1 DEF BeginSearch, Unserved, BeforeSending, HoldsRescuers
      <4>2. NextToSend(w) \in Twins /\ twin[NextToSend(w)].node = v /\ v # None
        BY <1>1, RobbersVictim, ThreadsAssumption DEF Victim
      <4>3. node[o] # v
        BY <4>1, <4>2 DEF SearchInvariant, BoundAreServed
      <4> QED  BY <1>1, <3>1, <4>3 DEF BeginSearch, PlaceInvariant, DataTypeOK
    <3>2. CASE BeginProcessing(o)
      BY <1>1, <3>2 DEF BeginProcessing, WithStatus, PlaceInvariant, DataTypeOK, Known
    <3>3. CASE ~(BeginSearch(o) \/ BeginProcessing(o))
      <4>1. emergency' = emergency
        BY <1>1, <1>6, <3>3 DEF WorkerStep, SearchStep, CheckStop, WaitForWork, TakeNode,
           WaitAgain, SpuriousWakeup, SearchRescuers, ProbeNode, SearchFails,
           SendFree, DecideToSteal, SearchEnds, RetrySearch, PauseAndSend, GiveUpArrival, Sending,
           EndProcessing, ResumeWith, PauseLockWaiting, RecheckCanceled, dataVars, HoldsRescuers
      <4> QED  BY <4>1
    <3> QED  BY <3>1, <3>2, <3>3
  <2> QED  BY <1>2, <2>1, <2>2 DEF VictimStays, Ahead, Working, WaitedFor
<1> QED  BY <1>4, <1>5, <1>6

LEMMA DecisionIsSound ==
    ASSUME PlaceInvariant, LifeInvariant, WaitInvariant, SearchInvariant, NEW w \in Workers,
           DecideToSteal(w)
    PROVE  VictimStays(w)'
<1> DEFINE t == NextToSend(w)
           v == twin[t].node
<1>1. SearchSound(w) /\ SearchTyped /\ TwinsTyped
  BY DEF SearchInvariant, DecideToSteal, Sending, HoldsRescuers
<1>2. /\ Victim(w)' = v /\ emergency' = emergency /\ working_queue' = working_queue
      /\ sent[w] < Len(chosen[w])
      /\ twin[t].status \in {"EN_ROUTE_TO_SCENE", "ON_SCENE"} /\ emergency[v].status \in WaitedFor
  BY DEF DecideToSteal, Victim, NextToSend, searchVars, dataVars, listVars, MustBeStolen, WaitedFor
<1>3. t \in Stealable(node[w])
  <2>1. sent[w] + 1 \in DOMAIN chosen[w] /\ sent[w] + 1 > sent[w]
    BY <1>1, <1>2 DEF SearchTyped
  <2>2. t \in Available \cup Stealable(node[w])
    BY <1>1, <2>1 DEF SearchSound, Sendable, NextToSend
  <2> QED  BY <1>2, <2>2 DEF Available
<1>4. v \in Emergencies
  BY <1>1, <1>3 DEF Stealable, TwinsTyped, TwinRecord
<1>5. v \in Started
  <2>1. CASE emergency[v].status = "IN_PROGRESS"
    BY <1>4, <2>1 DEF LifeInvariant, AttendedIsWorking, Attended, Started
  <2>2. CASE emergency[v].status = "WAITING_FOR_RESCUERS"
    BY <1>4, <2>2 DEF WaitInvariant, FreshUntilSent, Fresh, Sent
  <2> QED  BY <1>2, <2>1, <2>2 DEF WaitedFor
<1>6. v \notin Done \cup Shelved
  BY <1>2 DEF WaitInvariant, ArchivesTellStatus, Done, Shelved, WaitedFor
<1>7. v \in Working
  BY <1>5, <1>6 DEF Started
<1> QED  BY <1>2, <1>7 DEF VictimStays, Working

LEMMA NextVictims ==
    ASSUME PlaceInvariant, LifeInvariant, WaitInvariant, SearchInvariant, VictimsStay,
           [Next]_vars
    PROVE  VictimsStay'
<1> SUFFICES ASSUME NEW u \in Workers, pc'[u] = "steal" PROVE VictimStays(u)'
  BY DEF VictimsStay
<1>1. /\ pc \in [Workers -> WorkerSteps] /\ node \in [Workers -> Emergencies \cup {None}]
  BY DEF PlaceInvariant, LockInvariant, ControlTypeOK, DataTypeOK
<1>2. CASE ~(WorkerStep(u) \/ SpuriousWakeup(u))
  <2>1. pc[u] = "steal" /\ node'[u] = node[u]
    BY <1>1, <1>2, OnlySignalsReach DEF Woken
  <2>2. UNCHANGED <<searchVars, twin>>
    BY <1>2, <2>1, SearcherIsAlone DEF HoldsRescuers
  <2>3. Victim(u)' = Victim(u) /\ VictimStays(u)
    BY <2>1, <2>2 DEF Victim, NextToSend, searchVars, VictimsStay
  <2>4. ASSUME NEW o \in Workers, WorkerStep(o) \/ SpuriousWakeup(o) PROVE VictimStays(u)'
    BY <1>2, <2>1, <2>3, <2>4, WorkersSpareVictims
  <2>5. CASE \/ OtherStep \/ UNCHANGED vars
             \/ \E e \in Emergencies : ReceiveRequest(e)
    BY <2>1, <2>3, <2>5, OthersSpareVictims
  <2> QED  BY <2>4, <2>5 DEF Next, OtherStep
<1>3. CASE DecideToSteal(u)
  BY <1>3, DecisionIsSound
<1>4. CASE \/ CheckStop(u) \/ WaitForWork(u) \/ TakeNode(u) \/ EnqueueWorking(u)
           \/ BeginSearch(u) \/ BeginProcessing(u) \/ WaitAgain(u) \/ SpuriousWakeup(u)
  BY <1>1, <1>4 DEF CheckStop, WaitForWork, TakeNode, EnqueueWorking, BeginSearch,
                    BeginProcessing, WaitAgain, SpuriousWakeup, WokenFrom
<1>5. CASE \/ SearchRescuers(u) \/ (\E x \in Emergencies : ProbeNode(u, x))
           \/ SearchFails(u) \/ RetrySearch(u) \/ SendFree(u) \/ SearchEnds(u)
  BY <1>1, <1>5 DEF SearchRescuers, ProbeNode, SearchFails, SendFree, SearchEnds,
                    RetrySearch, Sending
<1>6. CASE PauseAndSend(u)
  BY <1>1, <1>6, RobberGoesOn
<1>7. CASE \/ GiveUpArrival(u) \/ EndProcessing(u) \/ Complete(u) \/ Cancel(u)
           \/ PauseLockWaiting(u) \/ Pause(u) \/ RecheckCanceled(u)
  BY <1>1, <1>7 DEF GiveUpArrival, EndProcessing, ResumeWith, AfterWait, Complete, Cancel,
                    PauseLockWaiting, Pause, RecheckCanceled
<1> QED  BY <1>2, <1>3, <1>4, <1>5, <1>6, <1>7 DEF WorkerStep, SearchStep

(* Whatever a step changes is in one of the two queues. *)
LEMMA OnlyHereChanges ==
    ASSUME PlaceInvariant, SearchInvariant, VictimsStay, [Next]_vars,
           NEW e \in Emergencies, ~Here(e)
    PROVE  emergency'[e] = emergency[e]
<1>1. DOMAIN emergency = Emergencies /\ e \notin Waiting /\ e \notin Working
  BY DEF PlaceInvariant, DataTypeOK, Here
<1>2. ASSUME NEW w \in Workers, pc[w] \in Handling PROVE node[w] # e
  BY <1>1, <1>2 DEF PlaceInvariant, HandledIsWorking
<1>3. ASSUME NEW w \in Workers, WorkerStep(w) \/ SpuriousWakeup(w)
      PROVE  emergency'[e] = emergency[e]
  <2>1. CASE BeginSearch(w) \/ BeginProcessing(w)
    BY <1>1, <1>2, <2>1 DEF BeginSearch, BeginProcessing, WithStatus, Handling
  <2>2. CASE SearchFails(w) \/ SendFree(w) \/ SearchEnds(w)
    BY <1>1, <1>2, <2>2 DEF SearchFails, SendFree, SearchEnds, Sending, Handling
  <2>3. CASE PauseAndSend(w)
    <3>1. Victim(w) # e /\ node[w] # e
      BY <1>1, <1>2, <2>3 DEF PauseAndSend, VictimsStay, VictimStays, Handling
    <3> QED  BY <1>1, <2>3, <3>1 DEF PauseAndSend, Victim
  <2>4. CASE ~(\/ BeginSearch(w) \/ BeginProcessing(w) \/ SearchFails(w) \/ SendFree(w)
               \/ SearchEnds(w) \/ PauseAndSend(w))
    <3>1. emergency' = emergency
      BY <1>3, <2>4 DEF WorkerStep, SearchStep, CheckStop, WaitForWork, TakeNode,
         EnqueueWorking, WaitAgain, SpuriousWakeup, SearchRescuers, ProbeNode, DecideToSteal,
         RetrySearch, GiveUpArrival, EndProcessing, ResumeWith, Complete, Cancel,
         PauseLockWaiting, Pause, RecheckCanceled, dataVars
    <3> QED  BY <3>1
  <2> QED  BY <2>1, <2>2, <2>3, <2>4
<1>4. CASE UpdateWorkingNode \/ UpdateWaitingNode \/ CancelNode
  <2>1. updater \in Scanning /\ todo # <<>>
    BY <1>4 DEF UpdateWorkingNode, UpdateWaitingNode, CancelNode, Scanning
  <2>2. Head(todo) \in Nodes(ScannedQueue)
    BY <2>1, HeadIsScanned
  <2>3. Head(todo) # e
    BY <1>1, <2>2 DEF ScannedQueue, Waiting, Working
  <2> QED  BY <1>1, <1>4, <2>3 DEF UpdateWorkingNode, UpdateWaitingNode, CancelNode, WithStatus
<1>5. CASE \/ (OtherStep /\ ~(UpdateWorkingNode \/ UpdateWaitingNode \/ CancelNode))
           \/ (\E x \in Emergencies : ReceiveRequest(x)) \/ UNCHANGED vars
  <2>1. emergency' = emergency
    BY <1>5 DEF OtherStep, ReceiveRequest, ReceiveStop, CloseServer, ClockStep, Tick,
       StopClock, vars, UpdaterStep, CheckUpdater, TakeTick, UpdaterLockRescuers,
       UpdaterLockWaiting, UpdateRescuers, ScanWaiting, EndUpdate, BeginCancelAll,
       EndCancelAll, dataVars
  <2> QED  BY <2>1
<1> QED  BY <1>3, <1>4, <1>5 DEF Next, OtherStep

LEMMA ArchivesOnlyGrow ==
    ASSUME PlaceInvariant, [Next]_vars
    PROVE  Done \subseteq Done' /\ Shelved \subseteq Shelved'
BY ArchivesGrow, LeaveLists

LEMMA NextArchived ==
    ASSUME PlaceInvariant, SearchInvariant, VictimsStay, [Next]_vars,
           NEW e \in Done \cup Shelved
    PROVE  /\ emergency'[e] = emergency[e]
           /\ e \in Done => e \in Done'
           /\ e \in Shelved => e \in Shelved'
<1>1. e \in Emergencies /\ ~Here(e)
  BY DEF PlaceInvariant, PlacesApart, DataTypeOK, Here
<1> QED  BY <1>1, OnlyHereChanges, ArchivesOnlyGrow

LEMMA VictimsAlwaysStay == Spec => []VictimsStay
<1>1. Init => VictimsStay
  BY DEF Init, VictimsStay
<1>2. PlaceInvariant /\ LifeInvariant /\ WaitInvariant /\ SearchInvariant /\ VictimsStay
        /\ [Next]_vars => VictimsStay'
  BY NextVictims
<1> QED  BY <1>1, <1>2, LifeInvariantHolds, WaitInvariantHolds, SearchInvariantHolds, PTL
            DEF Spec

--------------------------------------------------------------------------------
(* Types *)

RecordsTyped == emergency \in [Emergencies -> EmergencyRecord]

(* What no other invariant says of a variable *)
RestTyped ==
    /\ server \in {"up", "crashed", "closed"} /\ main \in {"receiving", "joining"}
    /\ server_must_stop \in BOOLEAN
    /\ clock \in {"running", "done"} /\ tick \in BOOLEAN
    /\ level \in Priorities /\ todo \in Seq(Emergencies)

LEMMA LargestNumber ==
    ASSUME NEW n \in Nat \ {0}, NEW f \in [1 .. n -> Int]
    PROVE  \E i \in 1 .. n : \A j \in 1 .. n : f[j] <= f[i]
<1> DEFINE Largest(k) == \E i \in 1 .. k : \A j \in 1 .. k : f[j] <= f[i]
           T == {k \in 0 .. n : k = 0 \/ Largest(k)}
<1>1. 0 \in T
  OBVIOUS
<1>2. ASSUME NEW k \in 0 .. n, k < n, k \in T PROVE k + 1 \in T
  <2>1. k + 1 \in 1 .. n /\ f[k + 1] \in Int
    BY <1>2
  <2>2. CASE k = 0
    <3>1. 1 .. 1 = {1}
      OBVIOUS
    <3>2. Largest(1)
      BY <2>1, <2>2, <3>1
    <3> QED  BY <2>1, <2>2, <3>2
  <2>3. CASE k # 0
    <3>1. PICK i \in 1 .. k : \A j \in 1 .. k : f[j] <= f[i]
      BY <1>2, <2>3
    <3>2. \A j \in 1 .. k + 1 : j \in 1 .. k \/ j = k + 1
      BY <1>2
    <3>3. i \in 1 .. k + 1 /\ f[i] \in Int /\ \A j \in 1 .. k : f[j] \in Int
      BY <1>2, <2>1, <3>1
    <3>4. CASE f[i] >= f[k + 1]
      <4>1. \A j \in 1 .. k + 1 : f[j] <= f[i]
        BY <3>1, <3>2, <3>4, <2>1, <3>3
      <4> QED  BY <2>1, <3>3, <4>1
    <3>5. CASE f[i] < f[k + 1]
      <4>1. \A j \in 1 .. k + 1 : f[j] <= f[k + 1]
        BY <3>1, <3>2, <3>3, <3>5, <2>1
      <4>2. k + 1 \in 1 .. k + 1
        BY <2>1
      <4> QED  BY <2>1, <4>1, <4>2
    <3> QED  BY <2>1, <3>3, <3>4, <3>5
  <2> QED  BY <2>2, <2>3
<1>3. n \in T
  <2> HIDE DEF T
  <2>1. 0 .. n \subseteq T
    BY <1>1, <1>2, UpTo
  <2> QED  BY <2>1
<1>4. Largest(n)
  BY <1>3
<1> QED  BY <1>4

LEMMA TimeToArriveTyped ==
    ASSUME TwinsTyped, NEW e \in Emergencies, NEW team \in Seq(Twins)
    PROVE  TimeToArrive(e, team) \in Int
<1> DEFINE n == Len(team)
           eta(i) == Distance(team[i], e) \div Speed[TypeOfTwin(team[i])] + 1
           times == {eta(i) : i \in DOMAIN team}
           f == [i \in 1 .. n |-> eta(i)]
<1>1. n \in Nat /\ DOMAIN team = 1 .. n
  OBVIOUS
<1>2. ASSUME NEW i \in 1 .. n PROVE eta(i) \in Int
  <2>1. team[i] \in Twins
    OBVIOUS
  <2>2. Distance(team[i], e) \in Nat /\ Speed[TypeOfTwin(team[i])] \in Nat \ {0}
    BY <2>1, DistanceTyped, TwinTypes
  <2> QED  BY <2>2
<1>3. TimeToArrive(e, team)
        = IF times = {} THEN 0 ELSE CHOOSE m \in times : \A k \in times : k <= m
  BY DEF TimeToArrive
<1> HIDE DEF n, eta
<1>4. times \subseteq Int
  BY <1>1, <1>2
<1>5. CASE times = {}
  BY <1>3, <1>5
<1>6. CASE times # {}
  <2>1. n # 0 /\ f \in [1 .. n -> Int]
    BY <1>1, <1>2, <1>6
  <2>2. PICK i \in 1 .. n : \A j \in 1 .. n : f[j] <= f[i]
    <3> HIDE DEF f
    <3> QED  BY <1>1, <2>1, LargestNumber
  <2>3. eta(i) \in times /\ \A k \in times : k <= eta(i)
    BY <1>1, <2>2
  <2> HIDE DEF times
  <2>4. \E m \in times : \A k \in times : k <= m
    BY <2>3
  <2> QED  BY <1>3, <1>4, <1>6, <2>4
<1> QED  BY <1>5, <1>6

LEMMA WorkerRecordTypes ==
    ASSUME NEW r \in EmergencyRecord
    PROVE  /\ Assigned(r) \in EmergencyRecord /\ Paused(r) \in EmergencyRecord
           /\ \A i \in Nat \ {0}, t \in Twins : WithTwin(r, i, t) \in EmergencyRecord
           /\ [r EXCEPT !.rescuers_found = FALSE] \in EmergencyRecord
           /\ \A s \in EmergencyStatuses : [r EXCEPT !.status = s] \in EmergencyRecord
<1>1. Assigned(r) \in EmergencyRecord
  <2>1. PICK a \in Int : Assigned(r) = [r EXCEPT !.assigned = a, !.status = "ASKING_FOR_RESCUERS"]
    <3>1. r.assigned \in Int /\ 0 \in Int
      BY DEF EmergencyRecord
    <3> QED  BY <3>1 DEF Assigned
  <2>2. [r EXCEPT !.assigned = a, !.status = "ASKING_FOR_RESCUERS"] \in EmergencyRecord
    BY DEF EmergencyRecord, EmergencyStatuses
  <2> QED  BY <2>1, <2>2
<1>2. Paused(r) \in EmergencyRecord
  <2>1. [r EXCEPT !.status = "PAUSED", !.rescuers_have_arrived = FALSE,
                  !.rescuers_found = FALSE, !.eta = INVALID_TIME] \in EmergencyRecord
    BY InvalidTime DEF EmergencyRecord, EmergencyStatuses
  <2> QED  BY <2>1 DEF Paused
<1>3. ASSUME NEW i \in Nat \ {0}, NEW t \in Twins PROVE WithTwin(r, i, t) \in EmergencyRecord
  <2>1. r.rescuer_twins \in Seq(Twins)
    BY DEF EmergencyRecord
  <2> DEFINE before == r.rescuer_twins
  <2>2. Append(before, t) \in Seq(Twins)
    BY <2>1
  <2>3. i <= Len(before) => [before EXCEPT ![i] = t] \in Seq(Twins)
    BY <2>1
  <2>4. PICK team \in Seq(Twins) : WithTwin(r, i, t) = [r EXCEPT !.rescuer_twins = team]
    BY <2>2, <2>3 DEF WithTwin
  <2>5. [r EXCEPT !.rescuer_twins = team] \in EmergencyRecord
    BY DEF EmergencyRecord
  <2> QED  BY <2>4, <2>5
<1> QED  BY <1>1, <1>2, <1>3 DEF EmergencyRecord

LEMMA UpdaterRecordTypes ==
    ASSUME NEW e \in Emergencies, emergency[e] \in EmergencyRecord
    PROVE  /\ WithPromotion(UpdatedWorking(e)) \in EmergencyRecord
           /\ WithPromotion(UpdatedWaiting(e)) \in EmergencyRecord
<1>1. AgeCap \in Nat /\ CancelAge + 1 \in Nat
  BY AgesAreNumbers, LimitsAssumption
<1>2. \A age \in Int, cap \in Nat : Older(age, cap) \in Int /\ (age \in Nat => Older(age, cap) \in Nat)
  BY DEF Older
<1>3. ASSUME NEW r \in EmergencyRecord PROVE AfterTimeout(r) \in EmergencyRecord
  BY DEF AfterTimeout, EmergencyRecord, EmergencyStatuses
<1>4. ASSUME NEW r \in EmergencyRecord PROVE WithPromotion(r) \in EmergencyRecord
  BY DEF WithPromotion, EmergencyRecord, Priorities, MIN_PRIORITY, MEDIUM_PRIORITY, MAX_PRIORITY
<1>5. AgedWorking(emergency[e]) \in EmergencyRecord
  <2> DEFINE r == emergency[e]
             older == [r EXCEPT !.assigned = Older(@, CancelAge + 1), !.spent = Older(@, AgeCap)]
  <2>1. r.assigned \in Int /\ r.spent \in Nat
    BY DEF EmergencyRecord
  <2>2. Older(r.assigned, CancelAge + 1) \in Int /\ Older(r.spent, AgeCap) \in Nat
    BY <1>1, <2>1 DEF Older
  <2>3. older \in EmergencyRecord
    BY <2>2 DEF EmergencyRecord
  <2> QED  BY <1>3, <2>3 DEF AgedWorking
<1>6. UpdatedWorking(e) \in EmergencyRecord
  BY <1>5 DEF UpdatedWorking, EmergencyRecord, EmergencyStatuses
<1>7. UpdatedWaiting(e) \in EmergencyRecord
  <2> DEFINE older == [emergency[e] EXCEPT !.spent = Older(@, AgeCap)]
  <2>1. older \in EmergencyRecord
    BY <1>1, <1>2 DEF EmergencyRecord
  <2> QED  BY <1>3, <2>1 DEF UpdatedWaiting
<1> QED  BY <1>4, <1>6, <1>7

LEMMA NextRecords ==
    ASSUME PlaceInvariant, SearchInvariant, RecordsTyped, [Next]_vars
    PROVE  RecordsTyped'
<1>1. \A e \in Emergencies : emergency[e] \in EmergencyRecord
  BY DEF RecordsTyped
<1>2. ASSUME NEW e \in Emergencies, NEW r \in EmergencyRecord,
             emergency' = [emergency EXCEPT ![e] = r]
      PROVE  RecordsTyped'
  BY <1>2 DEF RecordsTyped
<1>3. ASSUME NEW w \in Workers, WorkerStep(w) \/ SpuriousWakeup(w) PROVE RecordsTyped'
  <2> DEFINE e == node[w]
             r == emergency[e]
  <2>1. CASE BeginSearch(w)
    <3>1. e \in Emergencies
      BY <2>1, SearcherHasANode DEF BeginSearch, Handling
    <3>2. Assigned(r) \in EmergencyRecord /\ emergency' = [emergency EXCEPT ![e] = Assigned(r)]
      BY <1>1, <2>1, <3>1, WorkerRecordTypes DEF BeginSearch
    <3> QED  BY <1>2, <3>1, <3>2
  <2>2. CASE BeginProcessing(w)
    <3>1. e \in Emergencies
      BY <2>2, SearcherHasANode DEF BeginProcessing, Handling
    <3>2. [r EXCEPT !.status = "IN_PROGRESS"] \in EmergencyRecord
      BY <1>1, <3>1, WorkerRecordTypes DEF EmergencyStatuses
    <3>3. emergency' = [emergency EXCEPT ![e] = [r EXCEPT !.status = "IN_PROGRESS"]]
      BY <2>2 DEF BeginProcessing, WithStatus
    <3> QED  BY <1>2, <3>1, <3>2, <3>3
  <2>3. CASE SearchFails(w)
    <3>1. e \in Emergencies
      BY <2>3, SearcherHasANode DEF SearchFails, Handling
    <3>2. [r EXCEPT !.rescuers_found = FALSE] \in EmergencyRecord
      BY <1>1, <3>1, WorkerRecordTypes
    <3>3. emergency' = [emergency EXCEPT ![e] = [r EXCEPT !.rescuers_found = FALSE]]
      BY <2>3 DEF SearchFails
    <3> QED  BY <1>2, <3>1, <3>2, <3>3
  <2>4. CASE SearchEnds(w)
    <3>1. e \in Emergencies /\ chosen[w] \in Seq(Twins) /\ TwinsTyped
      BY <2>4, SearcherHasANode DEF SearchEnds, Sending, Handling, SearchInvariant, SearchTyped
    <3>2. PICK eta \in Int : eta = TimeToArrive(e, chosen[w])
      BY <3>1, TimeToArriveTyped
    <3> DEFINE found == [r EXCEPT !.eta = eta, !.rescuers_found = TRUE,
                                  !.status = "WAITING_FOR_RESCUERS"]
    <3>3. found \in EmergencyRecord
      BY <1>1, <3>1 DEF EmergencyRecord, EmergencyStatuses
    <3>4. emergency' = [emergency EXCEPT ![e].eta = eta, ![e].rescuers_found = TRUE,
                                         ![e].status = "WAITING_FOR_RESCUERS"]
      BY <2>4, <3>2 DEF SearchEnds
    <3>5. DOMAIN emergency = Emergencies /\ emergency = [x \in Emergencies |-> emergency[x]]
      BY DEF RecordsTyped
    <3>6. emergency' = [emergency EXCEPT ![e] = found]
      BY <3>1, <3>4, <3>5
    <3> QED  BY <1>2, <3>1, <3>3, <3>6
  <2>5. CASE SendFree(w) \/ PauseAndSend(w)
    <3> DEFINE t == NextToSend(w)
    <3>1. Sends(w)
      BY <2>5, SendersSend
    <3>2. e \in Emergencies /\ t \in Twins /\ sent[w] + 1 \in Nat \ {0}
      BY <3>1 DEF Sends, SearchInvariant, SearchTyped
    <3>3. ASSUME NEW s \in EmergencyRecord PROVE WithTwin(s, sent[w] + 1, t) \in EmergencyRecord
      BY <3>2, WorkerRecordTypes
    <3>4. CASE SendFree(w)
      <4>1. emergency' = [emergency EXCEPT ![e] = WithTwin(r, sent[w] + 1, t)]
        BY <3>4 DEF SendFree
      <4> QED  BY <1>1, <1>2, <3>2, <3>3, <4>1
    <3>5. CASE PauseAndSend(w)
      <4> DEFINE v == Victim(w)
                 paused == Paused(emergency[v])
                 joined == WithTwin(emergency[e], sent[w] + 1, t)
      <4>1. v \in Emergencies /\ v # e
        BY <3>2, <3>5, RobbersVictim DEF PauseAndSend, PlaceInvariant, DataTypeOK, Known, Priorities
      <4>2. paused \in EmergencyRecord /\ joined \in EmergencyRecord
        BY <1>1, <3>2, <3>3, <4>1, WorkerRecordTypes
      <4>3. emergency' = [emergency EXCEPT ![v] = Paused(@),
                                           ![e] = WithTwin(@, sent[w] + 1, t)]
        BY <3>5 DEF PauseAndSend, Victim
      <4>4. emergency' = [emergency EXCEPT ![v] = paused, ![e] = joined]
        BY <4>1, <4>3
      <4> HIDE DEF paused, joined
      <4> QED  BY <3>2, <4>1, <4>2, <4>4 DEF RecordsTyped
    <3> QED  BY <2>5, <3>4, <3>5
  <2>6. CASE ~(\/ BeginSearch(w) \/ BeginProcessing(w) \/ SearchFails(w) \/ SendFree(w)
               \/ SearchEnds(w) \/ PauseAndSend(w))
    <3>1. emergency' = emergency
      BY <1>3, <2>6 DEF WorkerStep, SearchStep, CheckStop, WaitForWork, TakeNode,
         EnqueueWorking, WaitAgain, SpuriousWakeup, SearchRescuers, ProbeNode, DecideToSteal,
         RetrySearch, GiveUpArrival, EndProcessing, ResumeWith, Complete, Cancel,
         PauseLockWaiting, Pause, RecheckCanceled, dataVars
    <3> QED  BY <3>1 DEF RecordsTyped
  <2> QED  BY <2>1, <2>2, <2>3, <2>4, <2>5, <2>6
<1>4. CASE UpdateWorkingNode \/ UpdateWaitingNode \/ CancelNode
  <2> DEFINE e == Head(todo)
  <2>1. updater \in Scanning /\ todo # <<>>
    BY <1>4 DEF UpdateWorkingNode, UpdateWaitingNode, CancelNode, Scanning
  <2>2. e \in Emergencies
    BY <2>1, HeadIsScanned
  <2>3. /\ WithPromotion(UpdatedWorking(e)) \in EmergencyRecord
        /\ WithPromotion(UpdatedWaiting(e)) \in EmergencyRecord
    BY <1>1, <2>2, UpdaterRecordTypes
  <2>4. [emergency[e] EXCEPT !.status = "CANCELED"] \in EmergencyRecord
    BY <1>1, <2>2, WorkerRecordTypes DEF EmergencyStatuses
  <2>5. CASE UpdateWorkingNode
    BY <1>2, <2>2, <2>3, <2>5 DEF UpdateWorkingNode
  <2>6. CASE UpdateWaitingNode
    BY <1>2, <2>2, <2>3, <2>6 DEF UpdateWaitingNode
  <2>7. CASE CancelNode
    <3>1. emergency' = [emergency EXCEPT ![e] = [emergency[e] EXCEPT !.status = "CANCELED"]]
      BY <2>7 DEF CancelNode, WithStatus
    <3> QED  BY <1>2, <2>2, <2>4, <3>1
  <2> QED  BY <1>4, <2>5, <2>6, <2>7
<1>5. CASE \/ (OtherStep /\ ~(UpdateWorkingNode \/ UpdateWaitingNode \/ CancelNode))
           \/ (\E x \in Emergencies : ReceiveRequest(x)) \/ UNCHANGED vars
  <2>1. emergency' = emergency
    BY <1>5 DEF OtherStep, ReceiveRequest, ReceiveStop, CloseServer, ClockStep, Tick,
       StopClock, vars, UpdaterStep, CheckUpdater, TakeTick, UpdaterLockRescuers,
       UpdaterLockWaiting, UpdateRescuers, ScanWaiting, EndUpdate, BeginCancelAll,
       EndCancelAll, dataVars
  <2> QED  BY <2>1 DEF RecordsTyped
<1> QED  BY <1>3, <1>4, <1>5 DEF Next, OtherStep

LEMMA NextRest ==
    ASSUME PlaceInvariant, PlaceInvariant', RestTyped, [Next]_vars
    PROVE  RestTyped'
<1>1. ASSUME NEW q, QueueOK(q), MoveTo(StartOf(q)) PROVE level' \in Priorities /\ todo' \in Seq(Emergencies)
  <2>1. MIN_PRIORITY \in Int
    BY DEF MIN_PRIORITY
  <2>2. PlaceOK(q, StartOf(q))
    BY <1>1, <2>1, UpwardsIsAPlace DEF StartOf
  <2> QED  BY <1>1, <2>2 DEF MoveTo, PlaceOK, NodeLists
<1>2. QueueOK(working_queue) /\ QueueOK(waiting_queue)
  BY DEF PlaceInvariant, DataTypeOK
<1>3. CASE UpdateRescuers \/ BeginCancelAll \/ ScanWaiting
  BY <1>1, <1>2, <1>3 DEF UpdateRescuers, BeginCancelAll, ScanWaiting, RestTyped, OnlyUpdater,
                          mainVars, clockVars
<1>4. CASE UpdateWorkingNode \/ UpdateWaitingNode \/ CancelNode
  <2>1. updater' \in Scanning
    BY <1>4 DEF UpdateWorkingNode, UpdateWaitingNode, CancelNode, Scanning
  <2>2. level' \in Priorities /\ todo' \in Seq(Emergencies)
    BY <2>1 DEF PlaceInvariant, ScanIsAPlace, PlaceOK, NodeLists
  <2> QED  BY <1>4, <2>2 DEF UpdateWorkingNode, UpdateWaitingNode, CancelNode, RestTyped,
                             OnlyUpdater, mainVars, clockVars
<1>5. CASE \/ CheckUpdater \/ TakeTick \/ UpdaterLockRescuers \/ UpdaterLockWaiting \/ EndUpdate
           \/ EndCancelAll \/ ReceiveStop \/ CloseServer \/ ClockStep \/ UNCHANGED vars
           \/ \E e \in Emergencies : ReceiveRequest(e)
  BY <1>5 DEF CheckUpdater, TakeTick, UpdaterLockRescuers, UpdaterLockWaiting, EndUpdate,
     EndCancelAll, ReceiveStop, CloseServer, ClockStep, Tick, StopClock, ReceiveRequest, vars,
     RestTyped, OnlyUpdater, mainVars, clockVars, scanVars
<1>6. ASSUME NEW w \in Workers, WorkerStep(w) \/ SpuriousWakeup(w) PROVE RestTyped'
  <2>1. /\ UNCHANGED <<mainVars, clockVars, scanVars>> /\ server' \in {server, "crashed"}
    BY <1>6 DEF WorkerStep, SearchStep, CheckStop, WaitForWork, TakeNode, EnqueueWorking, BeginSearch,
       BeginProcessing, WaitAgain, SpuriousWakeup, SearchRescuers, ProbeNode, SearchFails,
       SendFree, DecideToSteal, SearchEnds, RetrySearch, PauseAndSend, GiveUpArrival,
       EndProcessing, ResumeWith, Complete, Cancel, PauseLockWaiting, Pause, RecheckCanceled,
       OnlyWorkers, scanVars
  <2> QED  BY <2>1 DEF RestTyped, mainVars, clockVars, scanVars
<1> QED  BY <1>3, <1>4, <1>5, <1>6 DEF Next, UpdaterStep

LEMMA TypesHold == Spec => [](RecordsTyped /\ RestTyped)
<1>1. Init => RecordsTyped /\ RestTyped
  <2> SUFFICES ASSUME Init PROVE RecordsTyped /\ RestTyped
    OBVIOUS
  <2>1. ASSUME NEW e \in Emergencies PROVE NewEmergency(e) \in EmergencyRecord
    <3>1. TypePriority[e] \in Priorities /\ <<>> \in Seq(Twins)
      BY EmergenciesAssumption
    <3> QED  BY <3>1, InvalidTime DEF NewEmergency, EmergencyRecord, EmergencyStatuses
  <2>2. emergency = [e \in Emergencies |-> NewEmergency(e)]
    BY DEF Init
  <2>3. RestTyped
    <3>1. /\ server = "up" /\ main = "receiving" /\ server_must_stop = FALSE
          /\ clock = "running" /\ tick = FALSE /\ level = MIN_PRIORITY /\ todo = <<>>
      BY DEF Init
    <3>2. MIN_PRIORITY \in Priorities /\ <<>> \in Seq(Emergencies)
      BY DEF Priorities, MIN_PRIORITY, MAX_PRIORITY
    <3> QED  BY <3>1, <3>2 DEF RestTyped
  <2> QED  BY <2>1, <2>2, <2>3 DEF RecordsTyped
<1>2. PlaceInvariant /\ PlaceInvariant' /\ SearchInvariant /\ (RecordsTyped /\ RestTyped)
        /\ [Next]_vars => (RecordsTyped /\ RestTyped)'
  BY NextRecords, NextRest
<1> QED  BY <1>1, <1>2, InvariantHolds, SearchInvariantHolds, PTL DEF Spec

LEMMA TypesTogether ==
    PlaceInvariant /\ SearchInvariant /\ RecordsTyped /\ RestTyped => TypeOK
<1> SUFFICES ASSUME PlaceInvariant, SearchInvariant, RecordsTyped, RestTyped PROVE TypeOK
  OBVIOUS
<1>1. \A q : QueueOK(q) => q \in Queue
  BY DEF QueueOK, NodeLists, Queue
<1>2. \A s \in NodeLists : s \in Seq(Emergencies)
  BY DEF NodeLists
<1> QED  BY <1>1, <1>2 DEF TypeOK, PlaceInvariant, SearchInvariant, RecordsTyped, RestTyped,
            LockInvariant, ControlTypeOK, DataTypeOK, SearchTyped, TwinsTyped

--------------------------------------------------------------------------------
(* The theorems *)

(* What a search chose, nobody takes before it is sent: however long the   *)
(* probes and the pauses of a robbery last, a twin chosen and not sent yet *)
(* is still idle or may still be robbed (handler.c 193-208).               *)
THEOREM ChoiceIsNeverStale == Spec => []ChoiceIsNotStale
<1>1. SearchInvariant => ChoiceIsNotStale
  BY DEF SearchInvariant, SearchSound, Sendable, ChoiceIsNotStale
<1> QED  BY <1>1, SearchInvariantHolds, PTL

(* A search never locks its own node, which it holds already: the twins it *)
(* probes and robs are bound to other emergencies (handler.c 193-208).     *)
THEOREM SearchAlwaysSparesItself == Spec => []SearchSparesItself
BY Spares, SearchInvariantHolds, PTL

(* However many workers, they never wait for one another in a circle: who  *)
(* searches waits for no other worker but one that will not wait in turn,  *)
(* and one that pauses waits for the updater only (handler.c 104-130).     *)
THEOREM WorkersNeverDeadlock == Spec => []WorkersDoNotDeadlock
BY NoCircle, SearchInvariantHolds, InvariantHolds, PTL

(* A rescuer changes emergency only from its base, or from an emergency of *)
(* lower priority it was on the way to or at; one that was waited for or   *)
(* at work is left paused, in the same step (handler.c 193-208).           *)
THEOREM StealingIsAlwaysRuled == Spec => StealingIsRuled
<1>1. PlaceInvariant /\ LifeInvariant /\ SearchInvariant /\ [Next]_vars
        => \A t \in Twins : twin'[t].node # twin[t].node => Ruled(t)
  BY NextRuled
<1>2. PlaceInvariant /\ LifeInvariant /\ SearchInvariant /\ [Next]_vars
        => [\A t \in Twins : twin'[t].node # twin[t].node => Ruled(t)]_vars
  BY <1>1
<1> QED  BY <1>2, LifeInvariantHolds, SearchInvariantHolds, PTL
            DEF Spec, StealingIsRuled, Ruled

(* What is archived stays as it is, and where it is: whom a robber pauses  *)
(* has a worker still, even if the cancel-all of a stop comes between its  *)
(* decision and the pause (handler.c 296-297).                             *)
THEOREM ArchivedStaysForEver == Spec => ArchivedForEver
<1>1. PlaceInvariant /\ SearchInvariant /\ VictimsStay /\ [Next]_vars
        => \A e \in ToSet(completed_emergencies) \cup ToSet(canceled_emergencies) :
              /\ emergency'[e] = emergency[e]
              /\ e \in ToSet(completed_emergencies) =>
                    e \in ToSet(completed_emergencies')
              /\ e \in ToSet(canceled_emergencies) =>
                    e \in ToSet(canceled_emergencies')
  BY NextArchived DEF Done, Shelved
<1> QED  BY <1>1, InvariantHolds, SearchInvariantHolds, VictimsAlwaysStay, PTL
            DEF Spec, ArchivedForEver

(* Every variable keeps its type: whatever a robber writes into another's  *)
(* team, a search that ends with nobody chosen, and ages that stop growing *)
(* at the limits they are compared with (server_updater.c).                *)
THEOREM ServerIsTyped == Spec => []TypeOK
BY TypesTogether, TypesHold, InvariantHolds, SearchInvariantHolds, PTL

--------------------------------------------------------------------------------
(* The invariant of the teams *)

TeamOf(e)   == emergency[e].rescuer_twins
FoundFor(e) == emergency[e].rescuers_found

TeamSound(e) ==
    /\ IsInjective(TeamOf(e)) /\ Fits(TeamOf(e), e)
    /\ FoundFor(e) => Len(TeamOf(e)) = Len(Needs[e])
    /\ e \notin Started => TeamOf(e) = <<>> /\ ~FoundFor(e)

(* s is what c begins with. *)
Begins(s, c, n) == n <= Len(c) /\ Len(s) = n /\ \A i \in 1 .. n : s[i] = c[i]

(* The team of w's node is what w has sent of what it chose. *)
Gathers(w) ==
    /\ ~FoundFor(node[w])
    /\ IF pc[w] \in HoldsRescuers
       THEN Fits(chosen[w], node[w]) /\ Begins(TeamOf(node[w]), chosen[w], sent[w])
       ELSE TeamOf(node[w]) = <<>>

TeamInvariant ==
    /\ \A e \in Emergencies : TeamSound(e)
    /\ \A w \in Workers : pc[w] \in BeforeSending => Gathers(w)
    /\ BusyAreInTheTeam

(* What the proofs about teams rest on *)
Ground == PlaceInvariant /\ SearchInvariant /\ RecordsTyped

LEMMA PartsFit ==
    ASSUME NEW e \in Emergencies, NEW c \in Seq(Twins), NEW s \in Seq(Twins), NEW n \in Nat,
           IsInjective(c), Fits(c, e), Begins(s, c, n)
    PROVE  IsInjective(s) /\ Fits(s, e)
<1>1. Len(Needs[e]) \in Nat /\ Len(c) \in Nat /\ DOMAIN c = 1 .. Len(c) /\ DOMAIN s = 1 .. n
  BY EmergenciesAssumption DEF Begins
<1>2. \A i \in DOMAIN s : i \in DOMAIN c /\ s[i] = c[i]
  BY <1>1 DEF Begins
<1>3. IsInjective(s)
  BY <1>2 DEF IsInjective
<1>4. Fits(s, e)
  BY <1>1, <1>2 DEF Fits, Begins
<1> QED  BY <1>3, <1>4

--------------------------------------------------------------------------------
(* What a step does to a team *)

TeamKept(e) == /\ emergency'[e].rescuer_twins = TeamOf(e)
               /\ emergency'[e].rescuers_found \in {FoundFor(e), FALSE}

Joins(w) ==
    /\ emergency'[node[w]].rescuer_twins = Append(TeamOf(node[w]), NextToSend(w))
    /\ emergency'[node[w]].rescuers_found = FoundFor(node[w])

LEMMA SendersTeam ==
    ASSUME Ground, TeamInvariant, NEW w \in Workers, SendFree(w) \/ PauseAndSend(w)
    PROVE  /\ Sends(w) /\ Joins(w)
           /\ \A e \in Emergencies : e # node[w] => TeamKept(e)
<1> DEFINE x == node[w]
           t == NextToSend(w)
           joined == WithTwin(emergency[x], sent[w] + 1, t)
<1>1. Sends(w)
  BY SendersSend DEF Ground
<1>2. x \in Emergencies /\ sent[w] \in Nat /\ TeamOf(x) \in Seq(Twins) /\ t \in Twins
  BY <1>1 DEF Sends, Ground, SearchInvariant, SearchTyped, RecordsTyped, EmergencyRecord, TeamOf
<1>3. Len(TeamOf(x)) = sent[w]
  BY <1>1 DEF Sends, TeamInvariant, Gathers, Begins, BeforeSending, HoldsRescuers
<1>4. emergency[x] \in EmergencyRecord /\ DOMAIN emergency = Emergencies
  BY <1>2 DEF Ground, RecordsTyped
<1>5. /\ joined.rescuer_twins = Append(TeamOf(x), t)
      /\ joined.rescuers_found = FoundFor(x)
  <2>1. ~(sent[w] + 1 <= Len(TeamOf(x)))
    BY <1>2, <1>3
  <2>2. joined = [emergency[x] EXCEPT !.rescuer_twins = Append(TeamOf(x), t)]
    BY <2>1 DEF WithTwin, TeamOf
  <2> QED  BY <1>4, <2>2 DEF EmergencyRecord, FoundFor
<1>6. CASE SendFree(w)
  <2>1. emergency' = [emergency EXCEPT ![x] = joined]
    BY <1>6 DEF SendFree
  <2> HIDE DEF joined
  <2>2. emergency'[x] = joined /\ \A e \in Emergencies : e # x => emergency'[e] = emergency[e]
    BY <1>2, <1>4, <2>1
  <2> QED  BY <1>1, <1>5, <2>2 DEF Joins, TeamKept, TeamOf, FoundFor
<1>7. CASE PauseAndSend(w)
  <2> DEFINE v == Victim(w)
             paused == Paused(emergency[v])
  <2>1. v \in Emergencies /\ v # x
    BY <1>2, <1>7, RobbersVictim
    DEF PauseAndSend, Ground, PlaceInvariant, DataTypeOK, Known, Priorities
  <2>2. /\ paused.rescuer_twins = TeamOf(v) /\ paused.rescuers_found \in {FoundFor(v), FALSE}
    <3>1. emergency[v] \in EmergencyRecord
      BY <2>1 DEF Ground, RecordsTyped
    <3> QED  BY <3>1 DEF Paused, EmergencyRecord, TeamOf, FoundFor
  <2>3. emergency' = [emergency EXCEPT ![v] = Paused(@),
                                       ![x] = WithTwin(@, sent[w] + 1, t)]
    BY <1>7 DEF PauseAndSend, Victim
  <2>4. emergency' = [emergency EXCEPT ![v] = paused, ![x] = joined]
    BY <2>1, <2>3
  <2> HIDE DEF paused, joined
  <2>5. /\ emergency'[x] = joined /\ emergency'[v] = paused
        /\ \A e \in Emergencies : e # x /\ e # v => emergency'[e] = emergency[e]
    BY <1>2, <1>4, <2>1, <2>4
  <2> QED  BY <1>1, <1>5, <2>2, <2>5 DEF Joins, TeamKept, TeamOf, FoundFor
<1> QED  BY <1>6, <1>7

LEMMA WorkersTeams ==
    ASSUME Ground, TeamInvariant, NEW w \in Workers, WorkerStep(w) \/ SpuriousWakeup(w),
           ~(SendFree(w) \/ PauseAndSend(w)), NEW e \in Emergencies
    PROVE  TeamKept(e) \/ (SearchEnds(w) /\ e = node[w] /\ emergency'[e].rescuer_twins = TeamOf(e))
<1> DEFINE x == node[w]
           r == emergency[x]
<1> USE DEF TeamKept, TeamOf, FoundFor
<1>1. DOMAIN emergency = Emergencies /\ \A y \in Emergencies : emergency[y] \in EmergencyRecord
  BY DEF Ground, RecordsTyped
<1>2. ASSUME NEW s, emergency' = [emergency EXCEPT ![x] = s],
             x \in Emergencies => /\ s.rescuer_twins = r.rescuer_twins
                                  /\ s.rescuers_found \in {r.rescuers_found, FALSE}
      PROVE  TeamKept(e)
  BY <1>1, <1>2
<1>3. CASE BeginSearch(w)
  <2>1. emergency' = [emergency EXCEPT ![x] = Assigned(r)]
    BY <1>3 DEF BeginSearch
  <2>2. x \in Emergencies => /\ Assigned(r).rescuer_twins = r.rescuer_twins
                             /\ Assigned(r).rescuers_found = r.rescuers_found
    BY <1>1 DEF Assigned, EmergencyRecord
  <2> QED  BY <1>2, <2>1, <2>2
<1>4. CASE BeginProcessing(w)
  <2>1. emergency' = [emergency EXCEPT ![x] = [r EXCEPT !.status = "IN_PROGRESS"]]
    BY <1>4 DEF BeginProcessing, WithStatus
  <2> QED  BY <1>1, <1>2, <2>1 DEF EmergencyRecord
<1>5. CASE SearchFails(w)
  <2>1. emergency' = [emergency EXCEPT ![x] = [r EXCEPT !.rescuers_found = FALSE]]
    BY <1>5 DEF SearchFails
  <2> QED  BY <1>1, <1>2, <2>1 DEF EmergencyRecord
<1>6. CASE SearchEnds(w)
  <2>1. PICK eta : emergency' = [emergency EXCEPT ![x].eta = eta, ![x].rescuers_found = TRUE,
                                                  ![x].status = "WAITING_FOR_RESCUERS"]
    BY <1>6 DEF SearchEnds
  <2>2. /\ e # x => emergency'[e] = emergency[e]
        /\ emergency'[e].rescuer_twins = emergency[e].rescuer_twins
    BY <1>1, <2>1 DEF EmergencyRecord
  <2> QED  BY <1>6, <2>2
<1>7. CASE ~(BeginSearch(w) \/ BeginProcessing(w) \/ SearchFails(w) \/ SearchEnds(w))
  <2>1. emergency' = emergency
    BY <1>7 DEF WorkerStep, SearchStep, CheckStop, WaitForWork, TakeNode,
       EnqueueWorking, WaitAgain, SpuriousWakeup, SearchRescuers, ProbeNode, DecideToSteal,
       RetrySearch, GiveUpArrival, EndProcessing, ResumeWith, Complete, Cancel,
       PauseLockWaiting, Pause, RecheckCanceled, dataVars
  <2> QED  BY <2>1
<1> QED  BY <1>3, <1>4, <1>5, <1>6, <1>7

(* An update leaves the team as it is. *)
LEMMA UpdatesKeepTeams ==
    ASSUME NEW e \in Emergencies, emergency[e] \in EmergencyRecord
    PROVE  \A s \in {WithPromotion(UpdatedWorking(e)), WithPromotion(UpdatedWaiting(e)),
                     [emergency[e] EXCEPT !.status = "CANCELED"]} :
               s.rescuer_twins = TeamOf(e) /\ s.rescuers_found = FoundFor(e)
<1> DEFINE r == emergency[e]
           Same(s) == /\ s \in EmergencyRecord
                      /\ s.rescuer_twins = r.rescuer_twins
                      /\ s.rescuers_found = r.rescuers_found
<1>0. r.spent \in Nat /\ r.assigned \in Int
  BY DEF EmergencyRecord
<1>1. AgeCap \in Nat /\ CancelAge + 1 \in Nat
  BY AgesAreNumbers, LimitsAssumption
<1>2. Older(r.assigned, CancelAge + 1) \in Int /\ Older(r.spent, AgeCap) \in Nat
  BY <1>0, <1>1 DEF Older
<1>3. ASSUME NEW s, Same(s) PROVE Same(AfterTimeout(s)) /\ Same(WithPromotion(s))
  <2>1. Same(AfterTimeout(s))
    BY <1>3 DEF AfterTimeout, EmergencyRecord, EmergencyStatuses
  <2>2. Same(WithPromotion(s))
    BY <1>3 DEF WithPromotion, EmergencyRecord, Priorities, MIN_PRIORITY, MEDIUM_PRIORITY,
                MAX_PRIORITY
  <2> QED  BY <2>1, <2>2
<1>4. Same([r EXCEPT !.assigned = Older(@, CancelAge + 1), !.spent = Older(@, AgeCap)])
  BY <1>2 DEF EmergencyRecord
<1>5. Same(AgedWorking(r))
  BY <1>3, <1>4 DEF AgedWorking
<1>6. Same(UpdatedWorking(e))
  BY <1>5 DEF UpdatedWorking, EmergencyRecord, EmergencyStatuses
<1>7. Same([r EXCEPT !.spent = Older(@, AgeCap)])
  BY <1>2 DEF EmergencyRecord
<1>8. Same(UpdatedWaiting(e))
  BY <1>3, <1>7 DEF UpdatedWaiting
<1>9. Same([r EXCEPT !.status = "CANCELED"])
  BY DEF EmergencyRecord, EmergencyStatuses
<1> HIDE DEF Same
<1>10. Same(WithPromotion(UpdatedWorking(e))) /\ Same(WithPromotion(UpdatedWaiting(e)))
  BY <1>3, <1>6, <1>8
<1> QED  BY <1>9, <1>10 DEF Same, TeamOf, FoundFor

LEMMA TeamsChange ==
    ASSUME Ground, TeamInvariant, [Next]_vars, NEW e \in Emergencies
    PROVE  \/ TeamKept(e)
           \/ \E w \in Workers :
                 /\ node[w] = e
                 /\ \/ (SendFree(w) \/ PauseAndSend(w)) /\ Sends(w) /\ Joins(w)
                    \/ SearchEnds(w) /\ emergency'[e].rescuer_twins = TeamOf(e)
<1>1. ASSUME NEW w \in Workers, WorkerStep(w) \/ SpuriousWakeup(w)
      PROVE  \/ TeamKept(e)
             \/ /\ node[w] = e
                /\ \/ (SendFree(w) \/ PauseAndSend(w)) /\ Sends(w) /\ Joins(w)
                   \/ SearchEnds(w) /\ emergency'[e].rescuer_twins = TeamOf(e)
  BY <1>1, SendersTeam, WorkersTeams
<1>2. CASE UpdateWorkingNode \/ UpdateWaitingNode \/ CancelNode
  <2> DEFINE x == Head(todo)
  <2>1. x \in Emergencies
    <3>1. updater \in Scanning /\ todo # <<>>
      BY <1>2 DEF UpdateWorkingNode, UpdateWaitingNode, CancelNode, Scanning
    <3> QED  BY <3>1, HeadIsScanned DEF Ground
  <2>2. DOMAIN emergency = Emergencies /\ emergency[x] \in EmergencyRecord
    BY <2>1 DEF Ground, RecordsTyped
  <2>3. PICK s \in {WithPromotion(UpdatedWorking(x)), WithPromotion(UpdatedWaiting(x)),
                    [emergency[x] EXCEPT !.status = "CANCELED"]} :
            emergency' = [emergency EXCEPT ![x] = s]
    BY <1>2 DEF UpdateWorkingNode, UpdateWaitingNode, CancelNode, WithStatus
  <2>4. s.rescuer_twins = TeamOf(x) /\ s.rescuers_found = FoundFor(x)
    BY <2>1, <2>2, UpdatesKeepTeams
  <2> QED  BY <2>1, <2>2, <2>3, <2>4 DEF TeamKept, TeamOf, FoundFor
<1>3. CASE \/ (OtherStep /\ ~(UpdateWorkingNode \/ UpdateWaitingNode \/ CancelNode))
           \/ (\E x \in Emergencies : ReceiveRequest(x)) \/ UNCHANGED vars
  <2>1. emergency' = emergency
    BY <1>3 DEF OtherStep, ReceiveRequest, ReceiveStop, CloseServer, ClockStep, Tick,
       StopClock, vars, UpdaterStep, CheckUpdater, TakeTick, UpdaterLockRescuers,
       UpdaterLockWaiting, UpdateRescuers, ScanWaiting, EndUpdate, BeginCancelAll,
       EndCancelAll, dataVars
  <2> QED  BY <2>1 DEF TeamKept, TeamOf, FoundFor
<1> QED  BY <1>1, <1>2, <1>3 DEF Next, OtherStep

--------------------------------------------------------------------------------
(* The invariant holds *)

LEMMA NextTeamSound ==
    ASSUME Ground, TeamInvariant, [Next]_vars, NEW e \in Emergencies
    PROVE  TeamSound(e)'
<1> DEFINE team == TeamOf(e)
<1>1. TeamSound(e) /\ team \in Seq(Twins) /\ FoundFor(e) \in BOOLEAN /\ Len(Needs[e]) \in Nat
  BY EmergenciesAssumption
  DEF TeamInvariant, Ground, RecordsTyped, EmergencyRecord, TeamOf, FoundFor
<1>2. Started \subseteq Started'
  BY StartedGrows DEF Ground
<1>3. CASE TeamKept(e)
  <2>1. TeamOf(e)' = team /\ FoundFor(e)' \in {FoundFor(e), FALSE}
    BY <1>3 DEF TeamKept, TeamOf, FoundFor
  <2>2. IsInjective(TeamOf(e)') /\ Fits(TeamOf(e)', e)
    BY <1>1, <2>1 DEF TeamSound
  <2> QED  BY <1>1, <1>2, <2>1, <2>2 DEF TeamSound
<1>4. ASSUME NEW w \in Workers, node[w] = e, Sends(w), Joins(w) PROVE TeamSound(e)'
  <2> DEFINE c == chosen[w]
             k == sent[w]
             grown == Append(team, NextToSend(w))
  <2>1. c \in Seq(Twins) /\ k \in Nat /\ IsInjective(c) /\ k < Len(c) /\ NextToSend(w) \in Twins
    BY <1>4 DEF Ground, SearchInvariant, SearchTyped, SearchSound, Sends
  <2>2. ~FoundFor(e) /\ Fits(c, e) /\ Begins(team, c, k)
    BY <1>4 DEF TeamInvariant, Gathers, Sends, BeforeSending, HoldsRescuers
  <2>3. TeamOf(e)' = grown /\ ~FoundFor(e)' /\ e \in Started'
    BY <1>2, <1>4, <2>2 DEF Joins, Sends, Started, TeamOf, FoundFor
  <2>4. grown \in Seq(Twins) /\ k + 1 \in Nat /\ Begins(grown, c, k + 1)
    BY <1>1, <2>1, <2>2 DEF Begins, NextToSend
  <2> HIDE DEF grown, team, c, k
  <2>5. IsInjective(grown) /\ Fits(grown, e)
    BY <2>1, <2>2, <2>4, PartsFit
  <2>6. IsInjective(TeamOf(e)') /\ Fits(TeamOf(e)', e)
    BY <2>3, <2>5
  <2> QED  BY <2>3, <2>6 DEF TeamSound
<1>5. ASSUME NEW w \in Workers, node[w] = e, SearchEnds(w), emergency'[e].rescuer_twins = team
      PROVE  TeamSound(e)'
  <2>1. /\ pc[w] = "search" /\ AllFound(w) /\ sent[w] = Len(chosen[w])
        /\ chosen[w] \in Seq(Twins)
    BY <1>5 DEF SearchEnds, Sending, Ground, SearchInvariant, SearchTyped
  <2>2. Begins(team, chosen[w], sent[w])
    BY <1>5, <2>1 DEF TeamInvariant, Gathers, BeforeSending, HoldsRescuers
  <2>3. Len(team) = Len(Needs[e])
    BY <1>5, <2>1, <2>2 DEF Begins, AllFound
  <2>4. e \in Started
    BY <2>1, <1>5 DEF Ground, PlaceInvariant, HandledIsWorking, Handling, Started
  <2>5. TeamOf(e)' = team
    BY <1>5 DEF TeamOf
  <2>6. IsInjective(TeamOf(e)') /\ Fits(TeamOf(e)', e) /\ Len(TeamOf(e)') = Len(Needs[e])
    BY <1>1, <2>3, <2>5 DEF TeamSound
  <2> QED  BY <1>2, <2>4, <2>6 DEF TeamSound
<1> QED  BY <1>3, <1>4, <1>5, TeamsChange

(* A search that goes on without sending anyone *)
LEMMA GatheringGoesOn ==
    ASSUME Ground, TeamInvariant, NEW w \in Workers, pc[w] \in HoldsRescuers, Gathers(w),
           pc'[w] \in HoldsRescuers, node'[w] = node[w], node[w] \in Emergencies,
           chosen'[w] = chosen[w], sent'[w] = sent[w], TeamKept(node[w])
    PROVE  Gathers(w)'
<1> DEFINE e == node[w]
<1>1. ~FoundFor(node[w])' /\ TeamOf(node[w])' = TeamOf(e)
  BY DEF TeamKept, TeamOf, FoundFor, Gathers
<1>2. Fits(chosen[w], e) /\ Begins(TeamOf(e), chosen[w], sent[w])
  BY DEF Gathers
<1>3. Fits(chosen[w], node[w])' /\ Begins(TeamOf(node[w]), chosen[w], sent[w])'
  BY <1>1, <1>2 DEF Fits, Begins
<1> QED  BY <1>1, <1>3 DEF Gathers

LEMMA NextGathers ==
    ASSUME Ground, TeamInvariant, [Next]_vars, NEW w \in Workers, pc'[w] \in BeforeSending
    PROVE  Gathers(w)'
<1> DEFINE e == node[w]
<1>1. e \in Emergencies /\ node'[w] = e /\ pc[w] \in BeforeSending \cup {"lockWorking"}
  <2>1. node'[w] = e /\ pc[w] \in BeforeSending \cup {"lockWorking"}
    BY SearchesBegin DEF Ground
  <2>2. pc[w] \in BeforeSending => e \in Emergencies
    BY SearcherHasANode DEF Ground, BeforeSending, Handling
  <2>3. ASSUME pc[w] = "lockWorking" PROVE e \in Emergencies
    <3>1. pc'[w] # pc[w] /\ pc'[w] \notin Woken
      BY <2>3 DEF BeforeSending, Woken
    <3>2. WorkerStep(w) \/ SpuriousWakeup(w)
      BY <3>1, OnlySignalsReach DEF Ground, PlaceInvariant, LockInvariant, ControlTypeOK, DataTypeOK
    <3>3. EnqueueWorking(w)
      BY <2>3, <3>2 DEF WorkerStep, SearchStep, CheckStop, WaitForWork, TakeNode, BeginSearch,
         BeginProcessing, WaitAgain, SpuriousWakeup, SearchRescuers, ProbeNode, SearchFails,
         SendFree, DecideToSteal, SearchEnds, RetrySearch, PauseAndSend, GiveUpArrival,
         EndProcessing, Sending, Complete, Cancel, PauseLockWaiting, Pause, RecheckCanceled
    <3>4. e # None
      BY <2>3, <3>1, <3>3 DEF EnqueueWorking
    <3> QED  BY <3>4 DEF Ground, PlaceInvariant, DataTypeOK
  <2> QED  BY <2>1, <2>2, <2>3
<1>2. /\ pc \in [Workers -> WorkerSteps] /\ node \in [Workers -> Emergencies \cup {None}]
      /\ SearchTyped /\ TeamSound(e)
      /\ pc[w] \in BeforeSending => Gathers(w)
  BY <1>1 DEF Ground, PlaceInvariant, LockInvariant, ControlTypeOK, DataTypeOK, SearchInvariant,
              TeamInvariant
<1>3. pc[w] = "lockWorking" => TeamOf(e) = <<>> /\ ~FoundFor(e)
  BY <1>2, NotStartedYet DEF Ground, TeamSound
(* Nobody has sent anyone to e: what is kept is empty. *)
<1>4. ASSUME pc[w] \notin HoldsRescuers, pc'[w] \notin HoldsRescuers, TeamKept(e)
      PROVE  Gathers(w)'
  <2>1. TeamOf(e) = <<>> /\ ~FoundFor(e)
    BY <1>1, <1>2, <1>3, <1>4 DEF Gathers
  <2> QED  BY <1>1, <1>4, <2>1 DEF Gathers, TeamKept, TeamOf, FoundFor
<1>5. CASE ~(WorkerStep(w) \/ SpuriousWakeup(w))
  <2>1. pc'[w] = pc[w] /\ pc[w] \in BeforeSending
    BY <1>2, <1>5, OnlySignalsReach DEF Woken, BeforeSending
  <2>2. TeamKept(e)
    <3>1. ASSUME NEW u \in Workers, node[u] = e, SendFree(u) \/ PauseAndSend(u) \/ SearchEnds(u)
          PROVE  FALSE
      <4>1. pc[u] \in Busy /\ pc[w] \in Busy
        BY <2>1, <3>1 DEF SendFree, PauseAndSend, SearchEnds, Sending, Busy, Handling, BeforeSending
      <4>2. u = w
        BY <1>1, <3>1, <4>1, ThreadsAssumption DEF Ground, PlaceInvariant, HandledIsWorking
      <4> QED  BY <1>5, <3>1, <4>2 DEF WorkerStep, SearchStep
    <3> QED  BY <1>1, <3>1, TeamsChange
  <2>3. CASE pc[w] \in HoldsRescuers
    <3>1. UNCHANGED <<searchVars, twin>>
      BY <1>5, <2>3, SearcherIsAlone DEF Ground
    <3> QED  BY <1>1, <1>2, <2>1, <2>2, <2>3, <3>1, GatheringGoesOn DEF searchVars
  <2>4. CASE pc[w] \notin HoldsRescuers
    BY <1>4, <2>1, <2>2, <2>4
  <2> QED  BY <2>3, <2>4
<1>6. CASE SendFree(w) \/ PauseAndSend(w)
  <2> DEFINE c == chosen[w]
             k == sent[w]
  <2>1. Sends(w) /\ Joins(w)
    BY <1>6, SendersTeam
  <2>2. ~FoundFor(e) /\ Fits(c, e) /\ Begins(TeamOf(e), c, k)
    BY <1>2, <2>1 DEF Sends, Gathers, BeforeSending, HoldsRescuers
  <2>3. /\ c \in Seq(Twins) /\ k \in Nat /\ k < Len(c) /\ TeamOf(e) \in Seq(Twins)
        /\ NextToSend(w) = c[k + 1] /\ NextToSend(w) \in Twins
    BY <1>1, <1>2, <2>1
    DEF Sends, SearchTyped, NextToSend, Ground, RecordsTyped, EmergencyRecord, TeamOf
  <2>4. Begins(Append(TeamOf(e), NextToSend(w)), c, k + 1)
    BY <2>2, <2>3 DEF Begins
  <2>5. /\ TeamOf(node[w])' = Append(TeamOf(e), NextToSend(w)) /\ ~FoundFor(node[w])'
        /\ chosen'[w] = c /\ sent'[w] = k + 1 /\ pc'[w] \in HoldsRescuers
    BY <1>1, <1>2, <2>1, <2>2, <2>3 DEF Joins, Sends, TeamOf, FoundFor, SearchTyped, HoldsRescuers
  <2>6. Fits(chosen[w], node[w])' /\ Begins(TeamOf(node[w]), chosen[w], sent[w])'
    BY <1>1, <2>2, <2>4, <2>5 DEF Fits, Begins
  <2> QED  BY <2>5, <2>6 DEF Gathers
<1>7. ASSUME WorkerStep(w) \/ SpuriousWakeup(w), ~(SendFree(w) \/ PauseAndSend(w))
      PROVE  TeamKept(e)
  <2>1. ~SearchEnds(w)
    BY <1>2 DEF SearchEnds, BeforeSending
  <2> QED  BY <1>1, <1>7, <2>1, WorkersTeams
<1>8. CASE SearchRescuers(w)
  <2>1. /\ chosen'[w] = FindAll(e) /\ sent'[w] = 0 /\ pc'[w] = "search"
        /\ pc[w] = "lockRescuers" /\ emergency' = emergency
    BY <1>2, <1>8 DEF SearchRescuers, SearchTyped, dataVars
  <2>2. Fits(FindAll(e), e) /\ FindAll(e) \in Seq(Twins)
    BY <1>1, FindAllIsAChoice DEF Ground, SearchInvariant, Choice
  <2>3. TeamOf(e) = <<>> /\ ~FoundFor(e)
    BY <1>2, <2>1 DEF Gathers, BeforeSending, HoldsRescuers
  <2>4. TeamOf(node[w])' = <<>> /\ ~FoundFor(node[w])'
    BY <1>1, <2>1, <2>3 DEF TeamOf, FoundFor
  <2>5. Begins(<<>>, FindAll(e), 0)
    BY <2>2 DEF Begins
  <2>6. Fits(chosen[w], node[w])' /\ Begins(TeamOf(node[w]), chosen[w], sent[w])'
    BY <1>1, <2>1, <2>2, <2>4, <2>5 DEF Fits, Begins
  <2> QED  BY <2>1, <2>4, <2>6 DEF Gathers, HoldsRescuers
<1>9. CASE (\E x \in Emergencies : ProbeNode(w, x)) \/ DecideToSteal(w)
  <2>1. /\ pc[w] \in HoldsRescuers /\ pc'[w] \in HoldsRescuers
        /\ chosen' = chosen /\ sent' = sent
    BY <1>2, <1>9 DEF ProbeNode, DecideToSteal, Sending, HoldsRescuers, searchVars
  <2>2. WorkerStep(w) /\ ~(SendFree(w) \/ PauseAndSend(w))
    BY <1>9 DEF WorkerStep, SearchStep, ProbeNode, DecideToSteal, SendFree, PauseAndSend, Sending
  <2>3. pc[w] \in BeforeSending
    BY <2>1 DEF HoldsRescuers, BeforeSending
  <2> QED  BY <1>1, <1>2, <1>7, <2>1, <2>2, <2>3, GatheringGoesOn
<1>10. CASE SearchFails(w)
  <2>1. pc[w] = "search" /\ pc'[w] = "retryWait" /\ ~AllFound(w)
    BY <1>2, <1>10 DEF SearchFails
  <2>2. sent[w] = 0
    BY <1>2, <2>1 DEF Ground, SearchInvariant, SearchSound, HoldsRescuers, SearchTyped
  <2>3. Len(TeamOf(e)) = 0 /\ ~FoundFor(e)
    BY <1>2, <2>1, <2>2 DEF Gathers, Begins, BeforeSending, HoldsRescuers
  <2>4. TeamOf(e) = <<>>
    <3>1. TeamOf(e) \in Seq(Twins)
      BY <1>1 DEF Ground, RecordsTyped, EmergencyRecord, TeamOf
    <3> QED  BY <2>3, <3>1
  <2>5. TeamKept(e)
    BY <1>7, <1>10, <2>1 DEF WorkerStep, SearchStep, SendFree, PauseAndSend, Sending
  <2> QED  BY <1>1, <2>1, <2>3, <2>4, <2>5 DEF Gathers, HoldsRescuers, TeamKept, TeamOf, FoundFor
<1>11. CASE EnqueueWorking(w) \/ BeginSearch(w) \/ RetrySearch(w)
  <2>1. pc[w] \notin HoldsRescuers /\ pc'[w] \notin HoldsRescuers
    BY <1>2, <1>11 DEF EnqueueWorking, BeginSearch, RetrySearch, HoldsRescuers
  <2>2. ~(SendFree(w) \/ PauseAndSend(w))
    BY <2>1 DEF SendFree, PauseAndSend, Sending, HoldsRescuers
  <2> QED  BY <1>4, <1>7, <1>11, <2>1, <2>2 DEF WorkerStep, SearchStep
<1>12. CASE \/ CheckStop(w) \/ WaitForWork(w) \/ TakeNode(w) \/ SearchEnds(w)
            \/ BeginProcessing(w) \/ WaitAgain(w) \/ SpuriousWakeup(w)
            \/ GiveUpArrival(w) \/ EndProcessing(w) \/ Complete(w) \/ Cancel(w)
            \/ PauseLockWaiting(w) \/ Pause(w) \/ RecheckCanceled(w)
  BY <1>2, <1>12 DEF CheckStop, WaitForWork, TakeNode, SearchEnds, BeginProcessing, WaitAgain,
     SpuriousWakeup, WokenFrom, GiveUpArrival, EndProcessing, ResumeWith, AfterWait, Complete,
     Cancel, PauseLockWaiting, Pause, RecheckCanceled, BeforeSending
<1> QED  BY <1>5, <1>6, <1>8, <1>9, <1>10, <1>11, <1>12 DEF WorkerStep, SearchStep

(* Only a rescuer that is sent begins to serve. *)
LEMMA ServingIsOld ==
    ASSUME TwinsTyped, NEW t \in Twins, UpdatedTwin(t).status \in {"EN_ROUTE_TO_SCENE", "ON_SCENE"}
    PROVE  twin[t].status \in {"EN_ROUTE_TO_SCENE", "ON_SCENE"}
<1> DEFINE r == twin[t]
           stay == [r EXCEPT !.time_left = @ - 1]
<1>1. r \in TwinRecord /\ stay \in TwinRecord /\ stay.status = r.status
  BY DEF TwinsTyped, TwinRecord
<1>2. ASSUME r.status = "RETURNING_TO_BASE" PROVE FALSE
  <2>1. UpdatedTwin(t) = Walked(t, r)
    BY <1>2 DEF UpdatedTwin
  <2>2. Walked(t, r).status \in {"RETURNING_TO_BASE", "IDLE"}
    BY <1>1, <1>2 DEF Walked, TwinRecord
  <2> QED  BY <2>1, <2>2
<1>3. r.status = "IDLE" => UpdatedTwin(t) = r
  BY DEF UpdatedTwin
<1> QED  BY <1>1, <1>2, <1>3 DEF TwinRecord, TwinStatuses

LEMMA NextServing == Ground /\ TeamInvariant /\ [Next]_vars => BusyAreInTheTeam'
<1> SUFFICES ASSUME Ground, TeamInvariant, [Next]_vars,
                    NEW t \in Twins, twin'[t].status \in {"EN_ROUTE_TO_SCENE", "ON_SCENE"}
             PROVE  /\ twin'[t].node \in Emergencies
                    /\ t \in ToSet(emergency'[twin'[t].node].rescuer_twins)
  BY DEF BusyAreInTheTeam
<1> DEFINE e == twin[t].node
<1>1. TwinsTyped /\ BusyAreInTheTeam
  BY DEF Ground, SearchInvariant, TeamInvariant
<1>2. ASSUME twin[t].status \in {"EN_ROUTE_TO_SCENE", "ON_SCENE"}
      PROVE  e \in Emergencies /\ t \in ToSet(emergency'[e].rescuer_twins)
  <2>1. e \in Emergencies /\ t \in ToSet(TeamOf(e))
    BY <1>1, <1>2 DEF BusyAreInTheTeam, TeamOf
  <2>2. TeamOf(e) \in Seq(Twins)
    BY <2>1 DEF Ground, RecordsTyped, EmergencyRecord, TeamOf
  <2>3. \/ emergency'[e].rescuer_twins = TeamOf(e)
        \/ \E u : emergency'[e].rescuer_twins = Append(TeamOf(e), u)
    BY <2>1, TeamsChange DEF TeamKept, Joins
  <2>4. ASSUME NEW u PROVE t \in ToSet(Append(TeamOf(e), u))
    <3>1. PICK i \in DOMAIN TeamOf(e) : TeamOf(e)[i] = t
      BY <2>1 DEF ToSet
    <3>2. i \in DOMAIN Append(TeamOf(e), u) /\ Append(TeamOf(e), u)[i] = t
      BY <2>2, <3>1
    <3> QED  BY <3>2 DEF ToSet
  <2> QED  BY <2>1, <2>3, <2>4
<1>3. CASE twin' = twin
  BY <1>2, <1>3
<1>4. CASE UpdateRescuers
  <2>1. twin'[t] = UpdatedTwin(t)
    BY <1>4 DEF UpdateRescuers
  <2>2. twin'[t].node = e /\ twin[t].status \in {"EN_ROUTE_TO_SCENE", "ON_SCENE"}
    BY <1>1, <2>1, UpdatedTwinTyped, ServingIsOld
  <2> QED  BY <1>2, <2>2
<1>5. ASSUME NEW w \in Workers, SendFree(w) \/ PauseAndSend(w) PROVE
             /\ twin'[t].node \in Emergencies
             /\ t \in ToSet(emergency'[twin'[t].node].rescuer_twins)
  <2>1. Sends(w) /\ Joins(w)
    BY <1>5, SendersTeam
  <2>2. CASE t = NextToSend(w)
    <3>1. twin'[t].node = node[w] /\ node[w] \in Emergencies
      BY <1>1, <2>1, <2>2, SentTyped DEF Sends, TwinsTyped
    <3>2. TeamOf(node[w]) \in Seq(Twins)
      BY <3>1 DEF Ground, RecordsTyped, EmergencyRecord, TeamOf
    <3> DEFINE team == TeamOf(node[w])
    <3>3. Len(team) + 1 \in DOMAIN Append(team, t) /\ Append(team, t)[Len(team) + 1] = t
      BY <3>2
    <3>4. t \in ToSet(Append(team, t))
      BY <3>3 DEF ToSet
    <3> QED  BY <2>1, <2>2, <3>1, <3>4 DEF Joins
  <2>3. CASE t # NextToSend(w)
    <3>1. twin'[t] = twin[t]
      BY <1>1, <2>1, <2>3 DEF Sends, TwinsTyped
    <3> QED  BY <1>2, <3>1
  <2> QED  BY <2>2, <2>3
<1>6. \/ twin' = twin \/ UpdateRescuers
      \/ \E w \in Workers : SendFree(w) \/ PauseAndSend(w)
  BY TwinsChange DEF Ground
<1> QED  BY <1>3, <1>4, <1>5, <1>6

LEMMA NextTeams == Ground /\ TeamInvariant /\ [Next]_vars => TeamInvariant'
<1> SUFFICES ASSUME Ground, TeamInvariant, [Next]_vars PROVE TeamInvariant'
  OBVIOUS
<1>1. ASSUME NEW e \in Emergencies PROVE TeamSound(e)'
  BY NextTeamSound
<1>2. ASSUME NEW w \in Workers, pc'[w] \in BeforeSending PROVE Gathers(w)'
  BY <1>2, NextGathers
<1>3. BusyAreInTheTeam'
  BY NextServing
<1> QED  BY <1>1, <1>2, <1>3 DEF TeamInvariant

LEMMA InitTeams == Init => TeamInvariant
<1> SUFFICES ASSUME Init PROVE TeamInvariant
  OBVIOUS
<1>1. ASSUME NEW e \in Emergencies PROVE TeamSound(e)
  <2>1. emergency[e].rescuer_twins = <<>> /\ emergency[e].rescuers_found = FALSE
    BY DEF Init, NewEmergency
  <2>2. Len(Needs[e]) \in Nat
    BY EmergenciesAssumption
  <2>3. IsInjective(TeamOf(e)) /\ Fits(TeamOf(e), e)
    BY <2>1, <2>2 DEF TeamOf, IsInjective, Fits
  <2> QED  BY <2>1, <2>3 DEF TeamSound, TeamOf, FoundFor
<1>2. \A w \in Workers : pc[w] \notin BeforeSending
  BY DEF Init, BeforeSending
<1>3. BusyAreInTheTeam
  <2>1. PICK g \in Garbage : twin = [t \in Twins |-> NewTwin(t, g)]
    BY DEF Init
  <2> QED  BY <2>1 DEF BusyAreInTheTeam, NewTwin
<1> QED  BY <1>1, <1>2, <1>3 DEF TeamInvariant

LEMMA GroundHolds == Spec => []Ground
BY InvariantHolds, SearchInvariantHolds, TypesHold, PTL DEF Ground

LEMMA TeamInvariantHolds == Spec => []TeamInvariant
<1>1. Init => TeamInvariant
  BY InitTeams
<1>2. Ground /\ TeamInvariant /\ [Next]_vars => TeamInvariant'
  BY NextTeams
<1> QED  BY <1>1, <1>2, GroundHolds, PTL DEF Spec

LEMMA TeamsMeetNeeds == TeamInvariant => TeamMeetsNeeds
<1> SUFFICES ASSUME TeamInvariant, NEW e \in Emergencies
             PROVE  /\ Len(TeamOf(e)) <= Len(Needs[e])
                    /\ FoundFor(e) => IsTeamFor(e, TeamOf(e))
  BY DEF TeamMeetsNeeds, TeamOf, FoundFor
<1>1. TeamSound(e)
  BY DEF TeamInvariant
<1> QED  BY <1>1 DEF TeamSound, Fits, IsTeamFor

(* The team an emergency found is the one it asked for, a rescuer of each  *)
(* type needed and none twice, though each is chosen and sent in a step of *)
(* its own, and no team outgrows its array (handler.c 269-310).            *)
THEOREM TeamsAlwaysMeetNeeds == Spec => []TeamMeetsNeeds
BY TeamInvariantHolds, TeamsMeetNeeds, PTL

(* Whoever is on the road or at a scene is in the team of the emergency it *)
(* serves, so that what the updater asks of the team it asks of every      *)
(* rescuer that serves, however often it was robbed (updater.c 183-214).   *)
THEOREM BusyAlwaysInTheTeam == Spec => []BusyAreInTheTeam
<1>1. TeamInvariant => BusyAreInTheTeam
  BY DEF TeamInvariant
<1> QED  BY <1>1, TeamInvariantHolds, PTL

--------------------------------------------------------------------------------
(* Circles of waits *)

(* Before its scans the updater waits for nobody who waits in turn, unless *)
(* it holds nothing that anyone could wait for.                            *)
LEMMA UpdaterWaitsForTheFree ==
    ASSUME PlaceInvariant, SearchInvariant, updater \notin Scanning, NEW w \in UpdaterWaitsFor
    PROVE  WaitsFor(w) = {} \/ \A u \in Workers : Updater \notin WaitsFor(u)
<1>1. /\ QueueMutexDiscipline /\ NodeMutexDiscipline /\ w \in Workers
      /\ node \in [Workers -> Emergencies \cup {None}]
      /\ node_mutex \in [Emergencies -> Owners]
  BY DEF PlaceInvariant, LockInvariant, DataTypeOK, UpdaterWaitsFor
<1>2. updater \in {"lockRescuers", "lockWaiting"}
  <2>1. updater \in {"lockRescuers", "lockWaiting", "lockWorking", "cancelAll"}
    BY DEF UpdaterWaitsFor
  <2>2. working_mutex # w
    BY <1>1 DEF QueueMutexDiscipline
  <2> QED  BY <2>1, <2>2 DEF UpdaterWaitsFor
<1>3. CASE updater = "lockWaiting"
  <2>1. pc[w] = "pauseLocked"
    <3>1. waiting_mutex = w
      BY <1>3 DEF UpdaterWaitsFor
    <3> QED  BY <1>1, <3>1 DEF QueueMutexDiscipline
  <2>2. working_mutex \notin Workers \cup {Updater}
    BY <1>1, <1>3 DEF QueueMutexDiscipline, UpdaterHoldsWorking
  <2> QED  BY <2>1, <2>2 DEF WaitsFor
<1>4. CASE updater = "lockRescuers"
  <2>1. /\ rescuers_mutex # Updater /\ waiting_mutex # Updater /\ working_mutex # Updater
        /\ \A e \in Emergencies : node_mutex[e] # Updater
    BY <1>1, <1>4 DEF QueueMutexDiscipline, NodeMutexDiscipline, UpdaterHoldsRescuers,
                      UpdaterHoldsWaiting, UpdaterHoldsWorking
  <2>2. ASSUME NEW u \in Workers, Updater \in WaitsFor(u) PROVE FALSE
    <3>1. CASE pc[u] \in {"search", "steal"}
      <4>1. pc[u] = "search" => \E e \in Emergencies : node_mutex[e] = Updater
        BY <2>2 DEF WaitsFor, SearchInvariant, SearchTyped
      <4>2. pc[u] = "steal" => \E e \in Emergencies : node_mutex[e] = Updater
        BY <2>2, RobbersVictim DEF WaitsFor
      <4> QED  BY <2>1, <3>1, <4>1, <4>2
    <3>2. CASE pc[u] \in {"lockNode", "retryWait", "arriveWoken", "finishWoken"}
      <4>1. node[u] \in Emergencies /\ node_mutex[node[u]] = Updater
        BY <2>2, <3>2, SearcherHasANode DEF WaitsFor, Handling
      <4> QED  BY <2>1, <4>1
    <3> QED  BY <2>1, <2>2, <3>1, <3>2 DEF WaitsFor
  <2> QED  BY <2>2
<1> QED  BY <1>2, <1>3, <1>4

LEMMA CirclesScan == PlaceInvariant /\ SearchInvariant => OnlyScansDeadlock
<1> SUFFICES ASSUME PlaceInvariant, SearchInvariant,
                    NEW S \in SUBSET (Workers \cup {Updater}), S # {}, InCircle(S)
             PROVE  Updater \in S /\ updater \in Scanning
  BY DEF OnlyScansDeadlock
<1> DEFINE T == S \ {Updater}
<1>1. Updater \notin Workers /\ T \in SUBSET Workers
  BY ThreadsAssumption
<1>2. \A w \in T : WaitsFor(w) \cap S # {}
  BY DEF InCircle
<1>3. Updater \in S => UpdaterWaitsFor \cap T # {}
  BY <1>1 DEF InCircle, UpdaterWaitsFor
<1>4. T # {}
  BY <1>3
(* Some worker of the circle waits for the updater, and for nobody else. *)
<1>5. PICK u \in T : WaitsFor(u) \cap T = {}
  BY <1>1, <1>4, NoCircle DEF WorkersDoNotDeadlock
<1>6. Updater \in WaitsFor(u) /\ Updater \in S
  BY <1>2, <1>5
<1>7. ASSUME updater \notin Scanning PROVE FALSE
  <2>1. PICK w \in UpdaterWaitsFor : w \in T
    BY <1>3, <1>6
  <2>2. WaitsFor(w) # {}
    BY <1>2, <2>1
  <2> QED  BY <1>1, <1>5, <1>6, <1>7, <2>1, <2>2, UpdaterWaitsForTheFree
<1> QED  BY <1>6, <1>7

(* Threads that wait for one another for ever do so through the updater,   *)
(* while it scans a queue: neither its locks nor the pool's make a circle  *)
(* at any other time (updater.c 22-38, 268-282).                           *)
THEOREM CirclesAlwaysScan == Spec => []OnlyScansDeadlock
<1>1. Ground => OnlyScansDeadlock
  BY CirclesScan DEF Ground
<1> QED  BY <1>1, GroundHolds, PTL

--------------------------------------------------------------------------------
(* Cancellations *)

Stopping == {"cancelling", "done"}
Seeking  == {"lockRescuers", "search", "steal"}

(* An emergency that no worker has begun is not canceled; a canceled one   *)
(* is too old, or the server stops; and no search begins for it, nor goes  *)
(* on: its worker holds the mutex without which nobody cancels.            *)
CancelInvariant ==
    /\ \A e \in Emergencies : e \notin Started => emergency[e].status \in {"WAITING", "TIMEOUT"}
    /\ \A e \in Emergencies : emergency[e].status = "CANCELED" =>
          emergency[e].assigned > CancelAge \/ updater \in Stopping
    /\ \A w \in Workers : pc[w] \in Seeking => emergency[node[w]].status # "CANCELED"

Unaltered(e) ==
    /\ emergency'[e].status = emergency[e].status
    /\ emergency'[e].assigned = emergency[e].assigned

(* The ways a step has to give e another status *)
Reached(w, e) ==
    /\ node[w] = e
    /\ \/ BeginSearch(w) /\ emergency'[e].status = "ASKING_FOR_RESCUERS"
       \/ SearchEnds(w) /\ emergency'[e].status = "WAITING_FOR_RESCUERS"
       \/ BeginProcessing(w) /\ emergency'[e].status = "IN_PROGRESS"

Halted(w, e) == PauseAndSend(w) /\ Victim(w) = e /\ emergency'[e].status = "PAUSED"

Updated(e) ==
    /\ e = Head(todo) /\ todo # <<>> /\ node_mutex[e] = None
    /\ \/ UpdateWorkingNode /\ emergency'[e] = WithPromotion(UpdatedWorking(e))
       \/ UpdateWaitingNode /\ emergency'[e] = WithPromotion(UpdatedWaiting(e))
       \/ CancelNode /\ emergency'[e].status = "CANCELED"

LEMMA WorkersStatuses ==
    ASSUME Ground, NEW w \in Workers, WorkerStep(w) \/ SpuriousWakeup(w),
           NEW e \in Emergencies
    PROVE  Unaltered(e) \/ Reached(w, e) \/ Halted(w, e)
<1> DEFINE x == node[w]
           r == emergency[x]
<1> USE DEF Unaltered
<1>1. DOMAIN emergency = Emergencies /\ \A y \in Emergencies : emergency[y] \in EmergencyRecord
  BY DEF Ground, RecordsTyped
<1>2. CASE BeginSearch(w)
  <2>1. emergency' = [emergency EXCEPT ![x] = Assigned(r)]
    BY <1>2 DEF BeginSearch
  <2>2. x \in Emergencies => Assigned(r).status = "ASKING_FOR_RESCUERS"
    BY <1>1 DEF Assigned, EmergencyRecord
  <2>3. emergency'[e].status = "ASKING_FOR_RESCUERS" \/ e # x
    BY <1>1, <2>1, <2>2
  <2> HIDE DEF r
  <2>4. e # x => emergency'[e] = emergency[e]
    BY <1>1, <2>1
  <2> QED  BY <1>2, <2>3, <2>4 DEF Reached
<1>3. CASE BeginProcessing(w)
  <2>1. emergency' = [emergency EXCEPT ![x].status = "IN_PROGRESS"]
    BY <1>3 DEF BeginProcessing, WithStatus
  <2> QED  BY <1>1, <1>3, <2>1 DEF Reached, EmergencyRecord
<1>4. CASE SearchFails(w)
  <2>1. emergency' = [emergency EXCEPT ![x].rescuers_found = FALSE]
    BY <1>4 DEF SearchFails
  <2> QED  BY <1>1, <2>1 DEF EmergencyRecord
<1>5. CASE SearchEnds(w)
  <2>1. PICK eta : emergency' = [emergency EXCEPT ![x].eta = eta, ![x].rescuers_found = TRUE,
                                                  ![x].status = "WAITING_FOR_RESCUERS"]
    BY <1>5 DEF SearchEnds
  <2>2. /\ e # x => emergency'[e] = emergency[e]
        /\ e = x => emergency'[e].status = "WAITING_FOR_RESCUERS"
    BY <1>1, <2>1 DEF EmergencyRecord
  <2> QED  BY <1>5, <2>2 DEF Reached
<1>6. ASSUME NEW s \in EmergencyRecord, NEW i, NEW t
      PROVE  WithTwin(s, i, t).status = s.status /\ WithTwin(s, i, t).assigned = s.assigned
  BY DEF WithTwin, EmergencyRecord
<1>7. CASE SendFree(w)
  <2> DEFINE joined == WithTwin(r, sent[w] + 1, NextToSend(w))
  <2>1. emergency' = [emergency EXCEPT ![x] = joined]
    BY <1>7 DEF SendFree
  <2>2. x \in Emergencies => joined.status = r.status /\ joined.assigned = r.assigned
    BY <1>1, <1>6
  <2> HIDE DEF joined
  <2> QED  BY <1>1, <2>1, <2>2
<1>8. CASE PauseAndSend(w)
  <2> DEFINE v == Victim(w)
             paused == Paused(emergency[v])
             joined == WithTwin(r, sent[w] + 1, NextToSend(w))
  <2>1. x \in Emergencies /\ v \in Emergencies /\ v # x
    BY <1>8, RobbersVictim
    DEF PauseAndSend, Ground, PlaceInvariant, DataTypeOK, Known, Priorities
  <2>2. paused.status = "PAUSED" /\ joined.status = r.status /\ joined.assigned = r.assigned
    BY <1>1, <1>6, <2>1 DEF Paused, EmergencyRecord
  <2>3. emergency' = [emergency EXCEPT ![v] = Paused(@),
                                       ![x] = WithTwin(@, sent[w] + 1, NextToSend(w))]
    BY <1>8 DEF PauseAndSend, Victim
  <2>4. emergency' = [emergency EXCEPT ![v] = paused, ![x] = joined]
    BY <2>1, <2>3
  <2> HIDE DEF paused, joined
  <2>5. /\ emergency'[x] = joined /\ emergency'[v] = paused
        /\ e # x /\ e # v => emergency'[e] = emergency[e]
    BY <1>1, <2>1, <2>4
  <2> QED  BY <1>8, <2>2, <2>5 DEF Halted
<1>9. CASE ~(\/ BeginSearch(w) \/ BeginProcessing(w) \/ SearchFails(w) \/ SearchEnds(w)
             \/ SendFree(w) \/ PauseAndSend(w))
  <2>1. emergency' = emergency
    BY <1>9 DEF WorkerStep, SearchStep, CheckStop, WaitForWork, TakeNode,
       EnqueueWorking, WaitAgain, SpuriousWakeup, SearchRescuers, ProbeNode, DecideToSteal,
       RetrySearch, GiveUpArrival, EndProcessing, ResumeWith, Complete, Cancel,
       PauseLockWaiting, Pause, RecheckCanceled, dataVars
  <2> QED  BY <2>1
<1> QED  BY <1>2, <1>3, <1>4, <1>5, <1>7, <1>8, <1>9

LEMMA Statuses ==
    ASSUME Ground, [Next]_vars, NEW e \in Emergencies
    PROVE  \/ Unaltered(e) \/ Updated(e)
           \/ \E w \in Workers : Reached(w, e) \/ Halted(w, e)
<1>1. ASSUME NEW w \in Workers, WorkerStep(w) \/ SpuriousWakeup(w)
      PROVE  Unaltered(e) \/ Reached(w, e) \/ Halted(w, e)
  BY <1>1, WorkersStatuses
<1>2. CASE UpdateWorkingNode \/ UpdateWaitingNode \/ CancelNode
  <2> DEFINE x == Head(todo)
  <2>1. todo # <<>> /\ updater \in Scanning /\ node_mutex[x] = None
    BY <1>2 DEF UpdateWorkingNode, UpdateWaitingNode, CancelNode, Scanning
  <2>2. x \in Emergencies /\ DOMAIN emergency = Emergencies
    BY <2>1, HeadIsScanned DEF Ground, RecordsTyped
  <2>3. e # x => emergency'[e] = emergency[e]
    BY <1>2, <2>2 DEF UpdateWorkingNode, UpdateWaitingNode, CancelNode, WithStatus
  <2>4. ASSUME e = x PROVE Updated(e)
    <3>1. UpdateWorkingNode => emergency'[e] = WithPromotion(UpdatedWorking(e))
      BY <2>2, <2>4 DEF UpdateWorkingNode
    <3>2. UpdateWaitingNode => emergency'[e] = WithPromotion(UpdatedWaiting(e))
      BY <2>2, <2>4 DEF UpdateWaitingNode
    <3>3. CancelNode => emergency'[e].status = "CANCELED"
      BY <2>2, <2>4 DEF CancelNode, WithStatus, Ground, RecordsTyped, EmergencyRecord
    <3> QED  BY <1>2, <2>1, <2>4, <3>1, <3>2, <3>3 DEF Updated
  <2> QED  BY <2>3, <2>4 DEF Unaltered
<1>3. CASE \/ (OtherStep /\ ~(UpdateWorkingNode \/ UpdateWaitingNode \/ CancelNode))
           \/ (\E x \in Emergencies : ReceiveRequest(x)) \/ UNCHANGED vars
  <2>1. emergency' = emergency
    BY <1>3 DEF OtherStep, ReceiveRequest, ReceiveStop, CloseServer, ClockStep, Tick,
       StopClock, vars, UpdaterStep, CheckUpdater, TakeTick, UpdaterLockRescuers,
       UpdaterLockWaiting, UpdateRescuers, ScanWaiting, EndUpdate, BeginCancelAll,
       EndCancelAll, dataVars
  <2> QED  BY <2>1 DEF Unaltered
<1> QED  BY <1>1, <1>2, <1>3 DEF Next, OtherStep

(* What an update does to the status *)
LEMMA UpdatedStatuses ==
    ASSUME NEW e \in Emergencies, emergency[e] \in EmergencyRecord
    PROVE  /\ WithPromotion(UpdatedWaiting(e)).status \in {emergency[e].status, "TIMEOUT"}
           /\ LET new == WithPromotion(UpdatedWorking(e))
              IN  /\ emergency[e].status = "CANCELED" /\ emergency[e].assigned > CancelAge
                        => new.status = "CANCELED"
                  /\ new.status = "CANCELED" =>
                        \/ emergency[e].status = "CANCELED" /\ emergency[e].assigned <= CancelAge
                        \/ new.assigned > CancelAge
<1> DEFINE r == emergency[e]
           new == UpdatedWorking(e)
           aged == AgedWorking(r)
<1>1. AgeCap \in Nat /\ CancelAge \in Nat /\ r.spent \in Nat /\ r.assigned \in Int
  <2>1. AgeCap \in Nat /\ CancelAge \in Nat
    BY AgesAreNumbers, LimitsAssumption
  <2> QED  BY <2>1 DEF EmergencyRecord
<1>2. /\ Older(r.assigned, CancelAge + 1) \in Int /\ Older(r.spent, AgeCap) \in Nat
      /\ r.assigned > CancelAge => Older(r.assigned, CancelAge + 1) > CancelAge
  BY <1>1 DEF Older
<1>3. ASSUME NEW s \in EmergencyRecord
      PROVE  /\ AfterTimeout(s) \in EmergencyRecord
             /\ AfterTimeout(s).status \in {s.status, "TIMEOUT"}
             /\ AfterTimeout(s).assigned = s.assigned
             /\ WithPromotion(s).status = s.status /\ WithPromotion(s).assigned = s.assigned
  <2>1. /\ AfterTimeout(s) \in EmergencyRecord
        /\ AfterTimeout(s).status \in {s.status, "TIMEOUT"}
        /\ AfterTimeout(s).assigned = s.assigned
    BY DEF AfterTimeout, EmergencyRecord, EmergencyStatuses
  <2>2. WithPromotion(s).status = s.status /\ WithPromotion(s).assigned = s.assigned
    BY DEF WithPromotion, EmergencyRecord
  <2> QED  BY <2>1, <2>2
<1>4. WithPromotion(UpdatedWaiting(e)).status \in {r.status, "TIMEOUT"}
  <2> DEFINE older == [r EXCEPT !.spent = Older(@, AgeCap)]
  <2>1. older \in EmergencyRecord /\ older.status = r.status
    BY <1>2 DEF EmergencyRecord
  <2>2. UpdatedWaiting(e) = AfterTimeout(older)
    BY DEF UpdatedWaiting
  <2> HIDE DEF older
  <2> QED  BY <1>3, <2>1, <2>2
<1>5. /\ aged \in EmergencyRecord /\ aged.status \in {r.status, "TIMEOUT"}
      /\ r.assigned > CancelAge => aged.assigned > CancelAge
  <2> DEFINE older == [r EXCEPT !.assigned = Older(@, CancelAge + 1), !.spent = Older(@, AgeCap)]
  <2>1. /\ older \in EmergencyRecord /\ older.status = r.status
        /\ older.assigned = Older(r.assigned, CancelAge + 1)
    BY <1>2 DEF EmergencyRecord
  <2>2. aged = AfterTimeout(older)
    BY DEF AgedWorking
  <2> HIDE DEF older, aged
  <2> QED  BY <1>2, <1>3, <2>1, <2>2
<1> HIDE DEF aged
<1>6. /\ new \in EmergencyRecord /\ new.assigned = aged.assigned
      /\ aged.status = "CANCELED" => new.status = "CANCELED"
      /\ aged.status = "TIMEOUT" /\ aged.assigned > CancelAge => new.status = "CANCELED"
      /\ new.status = "CANCELED" => aged.status = "CANCELED" \/ aged.assigned > CancelAge
  BY <1>5 DEF UpdatedWorking, aged, EmergencyRecord, EmergencyStatuses
<1> HIDE DEF new, r
<1>7. WithPromotion(new).status = new.status /\ WithPromotion(new).assigned = new.assigned
  BY <1>3, <1>6
<1>8. r.status = "CANCELED" /\ r.assigned > CancelAge => new.status = "CANCELED"
  BY <1>5, <1>6
<1>9. new.status = "CANCELED" => \/ r.status = "CANCELED" /\ r.assigned <= CancelAge
                                 \/ new.assigned > CancelAge
  BY <1>1, <1>5, <1>6
<1> QED  BY <1>4, <1>7, <1>8, <1>9 DEF new, r

(* A server that stops goes on stopping. *)
LEMMA StoppingStays ==
    ASSUME PlaceInvariant, [Next]_vars, updater \in Stopping
    PROVE  updater' \in Stopping
<1> USE DEF Stopping
<1>1. CASE UpdaterStep
  BY <1>1 DEF UpdaterStep, CheckUpdater, TakeTick, UpdaterLockRescuers, UpdaterLockWaiting,
     UpdateRescuers, UpdateWorkingNode, UpdateWaitingNode, ScanWaiting, EndUpdate,
     BeginCancelAll, CancelNode, EndCancelAll
<1>2. ASSUME NEW w \in Workers, WorkerStep(w) \/ SpuriousWakeup(w) PROVE updater' = updater
  BY <1>2 DEF WorkerStep, SearchStep, CheckStop, WaitForWork, TakeNode, EnqueueWorking,
     BeginSearch, BeginProcessing, WaitAgain, SpuriousWakeup, SearchRescuers, ProbeNode,
     SearchFails, SendFree, DecideToSteal, SearchEnds, RetrySearch, PauseAndSend,
     GiveUpArrival, EndProcessing, ResumeWith, Complete, Cancel, PauseLockWaiting, Pause,
     RecheckCanceled, OnlyWorkers
<1>3. CASE \/ ReceiveStop \/ CloseServer \/ ClockStep \/ UNCHANGED vars
           \/ \E e \in Emergencies : ReceiveRequest(e)
  BY <1>3 DEF ReceiveStop, CloseServer, ClockStep, Tick, StopClock, ReceiveRequest, vars
<1> QED  BY <1>1, <1>2, <1>3 DEF Next

(* Where the updater finds what it updates *)
LEMMA UpdatedIsThere ==
    ASSUME Ground, NEW e \in Emergencies, Updated(e)
    PROVE  /\ UpdateWaitingNode => e \notin Started
           /\ UpdateWorkingNode => updater = "updateWorking" /\ e \in Started
           /\ CancelNode => updater = "cancelling" /\ e \in Started
<1>1. updater \in Scanning /\ todo # <<>> /\ e = Head(todo)
  BY DEF Updated, UpdateWorkingNode, UpdateWaitingNode, CancelNode, Scanning
<1>2. e \in Nodes(ScannedQueue)
  BY <1>1, HeadIsScanned DEF Ground
<1>3. UpdateWaitingNode => e \notin Started
  BY <1>2 DEF UpdateWaitingNode, ScannedQueue, Waiting, Started, Ground, PlaceInvariant,
              PlacesApart
<1>4. UpdateWorkingNode \/ CancelNode => e \in Started
  BY <1>2 DEF UpdateWorkingNode, CancelNode, ScannedQueue, Working, Started
<1> QED  BY <1>3, <1>4 DEF UpdateWorkingNode, CancelNode

LEMMA BusyHere ==
    ASSUME Ground, NEW w \in Workers, NEW e \in Emergencies, Reached(w, e) \/ Halted(w, e)
    PROVE  /\ e \in Started
           /\ Reached(w, e) => pc[w] \in Handling
           /\ Halted(w, e) => node_mutex[e] = None
<1>1. ASSUME Reached(w, e) PROVE pc[w] \in Handling /\ e \in Started
  <2>1. pc[w] \in Handling /\ node[w] = e
    BY <1>1 DEF Reached, BeginSearch, SearchEnds, BeginProcessing, Sending, Handling
  <2> QED  BY <2>1 DEF Ground, PlaceInvariant, HandledIsWorking, Started
<1>2. ASSUME Halted(w, e) PROVE node_mutex[e] = None /\ e \in Started
  <2>1. pc[w] = "steal" /\ Victim(w) = e /\ node_mutex[e] = None
    BY <1>2 DEF Halted, PauseAndSend, Victim
  <2>2. NextToSend(w) \in Twins /\ twin[NextToSend(w)].node = e
    BY <2>1, RobbersVictim DEF Ground, Victim
  <2>3. e # None
    BY ThreadsAssumption
  <2> QED  BY <2>1, <2>2, <2>3 DEF Ground, SearchInvariant, BoundAreServed
<1> QED  BY <1>1, <1>2

LEMMA NextUnbegun ==
    ASSUME Ground, CancelInvariant, [Next]_vars, NEW e \in Emergencies, e \notin Started'
    PROVE  emergency'[e].status \in {"WAITING", "TIMEOUT"}
<1>1. e \notin Started /\ emergency[e].status \in {"WAITING", "TIMEOUT"}
  BY StartedGrows DEF CancelInvariant, Ground
<1>2. CASE Unaltered(e)
  BY <1>1, <1>2 DEF Unaltered
<1>3. CASE Updated(e)
  <2>1. emergency'[e] = WithPromotion(UpdatedWaiting(e))
    BY <1>1, <1>3, UpdatedIsThere DEF Updated
  <2>2. emergency[e] \in EmergencyRecord
    BY DEF Ground, RecordsTyped
  <2> QED  BY <1>1, <2>1, <2>2, UpdatedStatuses
<1>4. ~\E w \in Workers : Reached(w, e) \/ Halted(w, e)
  BY <1>1, BusyHere
<1> QED  BY <1>2, <1>3, <1>4, Statuses

LEMMA NextCanceled ==
    ASSUME Ground, CancelInvariant, [Next]_vars, NEW e \in Emergencies,
           emergency'[e].status = "CANCELED"
    PROVE  emergency'[e].assigned > CancelAge \/ updater' \in Stopping
<1>1. CASE updater \in Stopping
  BY <1>1, StoppingStays DEF Ground
<1>2. ASSUME updater \notin Stopping, Unaltered(e) PROVE emergency'[e].assigned > CancelAge
  BY <1>2 DEF Unaltered, CancelInvariant
<1>3. ASSUME updater \notin Stopping, Updated(e) PROVE emergency'[e].assigned > CancelAge
  <2>1. ~CancelNode
    BY <1>3 DEF CancelNode, Stopping
  <2>2. emergency[e] \in EmergencyRecord
    BY DEF Ground, RecordsTyped
  <2>3. ~UpdateWaitingNode
    <3>1. ASSUME UpdateWaitingNode PROVE FALSE
      <4>1. emergency[e].status \in {"WAITING", "TIMEOUT"}
        BY <1>3, <3>1, UpdatedIsThere DEF CancelInvariant
      <4>2. ~UpdateWorkingNode
        BY <3>1 DEF UpdateWaitingNode, UpdateWorkingNode
      <4>3. emergency'[e] = WithPromotion(UpdatedWaiting(e))
        BY <1>3, <2>1, <4>2 DEF Updated
      <4> QED  BY <2>2, <4>1, <4>3, UpdatedStatuses
    <3> QED  BY <3>1
  <2>4. emergency'[e] = WithPromotion(UpdatedWorking(e))
    BY <1>3, <2>1, <2>3 DEF Updated
  <2>5. emergency[e].status = "CANCELED" => ~(emergency[e].assigned <= CancelAge)
    <3>1. CancelAge \in Nat /\ emergency[e].assigned \in Int
      BY <2>2, LimitsAssumption DEF EmergencyRecord
    <3> QED  BY <1>3, <3>1 DEF CancelInvariant
  <2> QED  BY <2>2, <2>4, <2>5, UpdatedStatuses
<1>4. ~\E w \in Workers : Reached(w, e) \/ Halted(w, e)
  BY DEF Reached, Halted
<1> QED  BY <1>1, <1>2, <1>3, <1>4, Statuses

LEMMA NextSought ==
    ASSUME Ground, CancelInvariant, [Next]_vars, NEW w \in Workers, pc'[w] \in Seeking
    PROVE  emergency'[node'[w]].status # "CANCELED"
<1> DEFINE e == node[w]
<1>1. pc \in [Workers -> WorkerSteps] /\ node \in [Workers -> Emergencies \cup {None}]
  BY DEF Ground, PlaceInvariant, LockInvariant, ControlTypeOK, DataTypeOK
<1>2. node'[w] = e /\ pc[w] \in BeforeSending \cup {"lockWorking"}
  BY SearchesBegin DEF Ground, Seeking, BeforeSending
<1>3. ASSUME pc[w] \in Seeking, e \in Emergencies PROVE emergency'[e].status # "CANCELED"
  <2>1. emergency[e].status # "CANCELED" /\ node_mutex[e] = w
    BY <1>3 DEF CancelInvariant, Seeking, Ground, PlaceInvariant, NodeMutexDiscipline, HoldsNode
  <2>2. ~Updated(e)
    BY <2>1, ThreadsAssumption DEF Updated
  <2>3. \A u \in Workers : Reached(u, e) \/ Halted(u, e) => emergency'[e].status # "CANCELED"
    BY DEF Reached, Halted
  <2> QED  BY <1>3, <2>1, <2>2, <2>3, Statuses DEF Unaltered
<1>4. pc[w] \in Handling => e \in Emergencies
  BY SearcherHasANode DEF Ground
<1>5. CASE pc[w] \in Seeking
  BY <1>2, <1>3, <1>4, <1>5 DEF Seeking, Handling
<1>6. CASE pc[w] \notin Seeking
  <2>1. WorkerStep(w) \/ SpuriousWakeup(w)
    BY <1>1, <1>6, OnlySignalsReach DEF Seeking, Woken
  <2>2. BeginSearch(w) \/ RetrySearch(w)
    <3>1. ~(\/ SearchRescuers(w) \/ (\E x \in Emergencies : ProbeNode(w, x)) \/ SearchFails(w)
            \/ SendFree(w) \/ DecideToSteal(w) \/ SearchEnds(w) \/ PauseAndSend(w))
      BY <1>6 DEF SearchRescuers, ProbeNode, SearchFails, SendFree, DecideToSteal, SearchEnds,
                  PauseAndSend, Sending, Seeking
    <3>2. ~(\/ CheckStop(w) \/ WaitForWork(w) \/ TakeNode(w) \/ EnqueueWorking(w)
            \/ BeginProcessing(w) \/ WaitAgain(w) \/ SpuriousWakeup(w)
            \/ GiveUpArrival(w) \/ EndProcessing(w) \/ Complete(w) \/ Cancel(w)
            \/ PauseLockWaiting(w) \/ Pause(w) \/ RecheckCanceled(w))
      BY <1>1, <1>6 DEF CheckStop, WaitForWork, TakeNode, EnqueueWorking, BeginProcessing,
         WaitAgain, SpuriousWakeup, WokenFrom, GiveUpArrival, EndProcessing, ResumeWith,
         AfterWait, Complete, Cancel, PauseLockWaiting, Pause, RecheckCanceled, Seeking
    <3> QED  BY <2>1, <3>1, <3>2 DEF WorkerStep, SearchStep
  <2>3. e \in Emergencies /\ emergency[e] \in EmergencyRecord /\ DOMAIN emergency = Emergencies
    <3>1. e \in Emergencies
      BY <1>4, <2>2 DEF BeginSearch, RetrySearch, Handling
    <3> QED  BY <3>1 DEF Ground, RecordsTyped
  <2>4. CASE BeginSearch(w)
    <3>1. emergency' = [emergency EXCEPT ![e] = Assigned(emergency[e])]
      BY <2>4 DEF BeginSearch
    <3> QED  BY <1>2, <2>3, <3>1 DEF Assigned, EmergencyRecord
  <2>5. CASE RetrySearch(w)
    BY <1>1, <1>2, <2>5 DEF RetrySearch, dataVars, Seeking
  <2> QED  BY <2>2, <2>4, <2>5
<1> QED  BY <1>5, <1>6

LEMMA NextCancels == Ground /\ CancelInvariant /\ [Next]_vars => CancelInvariant'
<1> SUFFICES ASSUME Ground, CancelInvariant, [Next]_vars PROVE CancelInvariant'
  OBVIOUS
<1>1. ASSUME NEW e \in Emergencies
      PROVE  /\ e \notin Started' => emergency'[e].status \in {"WAITING", "TIMEOUT"}
             /\ emergency'[e].status = "CANCELED" =>
                    emergency'[e].assigned > CancelAge \/ updater' \in Stopping
  BY NextUnbegun, NextCanceled
<1>2. ASSUME NEW w \in Workers, pc'[w] \in Seeking
      PROVE  emergency'[node'[w]].status # "CANCELED"
  BY <1>2, NextSought
<1> QED  BY <1>1, <1>2 DEF CancelInvariant

LEMMA CancelInvariantHolds == Spec => []CancelInvariant
<1>1. Init => CancelInvariant
  BY DEF Init, CancelInvariant, NewEmergency, Seeking
<1>2. Ground /\ CancelInvariant /\ [Next]_vars => CancelInvariant'
  BY NextCancels
<1> QED  BY <1>1, <1>2, GroundHolds, PTL DEF Spec

(* What may become of a canceled emergency *)
Stands(e) ==
    \/ emergency'[e].status \in {"CANCELED", "PAUSED"}
    \/ \E w \in Handlers(e) :
          \/ pc[w] = "lockNode"
          \/ pc[w] = "arriveWoken" /\ emergency[e].rescuers_have_arrived

LEMMA NextStands ==
    ASSUME Ground, CancelInvariant, [Next]_vars, NEW e \in Emergencies,
           emergency[e].status = "CANCELED"
    PROVE  Stands(e)
<1>1. CASE Unaltered(e)
  BY <1>1 DEF Unaltered, Stands
<1>2. ASSUME NEW w \in Workers, Reached(w, e) PROVE Stands(e)
  <2>1. w \in Handlers(e)
    BY <1>2, BusyHere DEF Handlers, Reached
  <2>2. ~SearchEnds(w)
    BY <1>2 DEF SearchEnds, Sending, CancelInvariant, Seeking, Reached
  <2> QED  BY <1>2, <2>1, <2>2 DEF Reached, BeginSearch, BeginProcessing, Stands
<1>3. ASSUME NEW w \in Workers, Halted(w, e) PROVE Stands(e)
  BY <1>3 DEF Halted, Stands
<1>4. CASE Updated(e)
  <2>1. emergency[e] \in EmergencyRecord /\ e \in Started
    BY DEF Ground, RecordsTyped, CancelInvariant
  <2>2. CASE CancelNode
    BY <1>4, <2>2 DEF Updated, UpdateWorkingNode, UpdateWaitingNode, CancelNode, Stands
  <2>3. CASE UpdateWorkingNode
    <3>1. updater \notin Stopping
      BY <2>3 DEF UpdateWorkingNode, Stopping
    <3>2. emergency[e].assigned > CancelAge
      BY <3>1 DEF CancelInvariant
    <3>3. emergency'[e] = WithPromotion(UpdatedWorking(e))
      BY <1>4, <2>3 DEF Updated, UpdateWorkingNode, UpdateWaitingNode, CancelNode
    <3> QED  BY <2>1, <3>2, <3>3, UpdatedStatuses DEF Stands
  <2>4. ~UpdateWaitingNode
    BY <1>4, <2>1, UpdatedIsThere
  <2> QED  BY <1>4, <2>2, <2>3, <2>4 DEF Updated
<1> QED  BY <1>1, <1>2, <1>3, <1>4, Statuses

(* A cancellation, of age or of a stop, is taken back by nobody but the    *)
(* two workers that do not look at it: one that comes to its node, and one *)
(* whose rescuers arrived before it woke (handler.c 32-35, 80-81).         *)
THEOREM CancellationAlwaysStands == Spec => CancellationStands
<1>1. Ground /\ CancelInvariant /\ [Next]_vars
        => \A e \in Emergencies : emergency[e].status = "CANCELED" => Stands(e)
  BY NextStands
<1>2. Ground /\ CancelInvariant /\ [Next]_vars
        => [\A e \in Emergencies : emergency[e].status = "CANCELED" => Stands(e)]_vars
  BY <1>1
<1> QED  BY <1>2, GroundHolds, CancelInvariantHolds, PTL DEF Spec, CancellationStands, Stands

--------------------------------------------------------------------------------
(* The end *)

ClosedIsDone == server = "closed" => updater = "done" /\ \A w \in Workers : pc[w] = "done"

LEMMA NextClosed == ClosedIsDone /\ [Next]_vars => ClosedIsDone'
<1> SUFFICES ASSUME ClosedIsDone, [Next]_vars PROVE ClosedIsDone'
  OBVIOUS
<1>1. CASE UNCHANGED vars
  BY <1>1 DEF vars, ClosedIsDone, poolVars
<1>2. CASE CloseServer
  BY <1>2 DEF CloseServer, ClosedIsDone, poolVars
<1>3. ASSUME NEW w \in Workers, WorkerStep(w) \/ SpuriousWakeup(w) PROVE server' # "closed"
  BY <1>3 DEF WorkerStep, SearchStep, CheckStop, WaitForWork, TakeNode, EnqueueWorking,
     BeginSearch, BeginProcessing, WaitAgain, SpuriousWakeup, SearchRescuers, ProbeNode,
     SearchFails, SendFree, DecideToSteal, SearchEnds, RetrySearch, PauseAndSend,
     GiveUpArrival, EndProcessing, ResumeWith, Complete, Cancel, PauseLockWaiting, Pause,
     RecheckCanceled, OnlyWorkers
<1>4. UpdaterStep => server' # "closed"
  BY DEF UpdaterStep, CheckUpdater, TakeTick, UpdaterLockRescuers, UpdaterLockWaiting,
     UpdateRescuers, UpdateWorkingNode, UpdateWaitingNode, ScanWaiting, EndUpdate,
     BeginCancelAll, CancelNode, EndCancelAll, OnlyUpdater
<1>5. ReceiveStop \/ ClockStep \/ (\E e \in Emergencies : ReceiveRequest(e)) => server' # "closed"
  BY DEF ReceiveStop, ClockStep, Tick, StopClock, ReceiveRequest
<1> QED  BY <1>1, <1>2, <1>3, <1>4, <1>5 DEF Next, ClosedIsDone

LEMMA DoneIsQuiet ==
    ASSUME PlaceInvariant, updater = "done", \A w \in Workers : pc[w] = "done"
    PROVE  /\ {rescuers_mutex, waiting_mutex, working_mutex} = {None}
           /\ \A e \in Emergencies : node_mutex[e] = None
           /\ Nodes(working_queue) = {}
           /\ \A e \in received :
                 \/ e \in Nodes(waiting_queue)
                 \/ e \in ToSet(completed_emergencies) \cup ToSet(canceled_emergencies)
<1>1. /\ ControlTypeOK /\ QueueMutexDiscipline /\ NodeMutexDiscipline
      /\ node_mutex \in [Emergencies -> Owners]
  BY DEF PlaceInvariant, LockInvariant, DataTypeOK
<1>2. rescuers_mutex = None /\ waiting_mutex = None /\ working_mutex = None
  BY <1>1 DEF ControlTypeOK, Owners, QueueMutexDiscipline, HoldsRescuers, UpdaterHoldsRescuers,
              UpdaterHoldsWaiting, UpdaterHoldsWorking
<1>3. ASSUME NEW e \in Emergencies PROVE node_mutex[e] = None
  BY <1>1 DEF Owners, NodeMutexDiscipline, HoldsNode
<1>4. Working = {} /\ Transit = {}
  BY DEF PlaceInvariant, HandledIsWorking, Handling, Transit
<1>5. \A e \in received : e \in Waiting \/ e \in Done \cup Shelved
  BY <1>4 DEF PlaceInvariant, PlacesApart
<1> QED  BY <1>2, <1>3, <1>4, <1>5 DEF Working, Waiting, Done, Shelved

(* A server that closes has joined threads that left nothing half done: no *)
(* mutex taken, no emergency in anyone's hands, and none lost              *)
(* (server.c 47-54).                                                       *)
THEOREM ClosedIsAlwaysQuiet == Spec => []ClosedIsQuiet
<1>1. Init => ClosedIsDone
  BY DEF Init, ClosedIsDone
<1>2. ClosedIsDone /\ [Next]_vars => ClosedIsDone'
  BY NextClosed
<1>3. PlaceInvariant /\ ClosedIsDone => ClosedIsQuiet
  BY DoneIsQuiet DEF ClosedIsDone, ClosedIsQuiet
<1> QED  BY <1>1, <1>2, <1>3, InvariantHolds, PTL DEF Spec

=============================================================================
