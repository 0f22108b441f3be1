# A TLA+ verification of UniPi's emergency server

The repository holds the exercises of several university courses. The one
program in it with a behaviour worth verifying is `LAB2/progetto`: a server that
receives emergency requests, finds rescuers for them on a map, moves the
rescuers tick by tick and archives the emergencies. This directory models that
server. Paths below are relative to `LAB2/progetto/src` of the repository unless
they say otherwise.

## The system

A client writes requests to a POSIX message queue. The server process is five
kinds of C11 threads over one `server_context_t`:

| component | code | state | operations |
|---|---|---|---|
| server | `server.c` | the context, the threads | start, spawn, join, close |
| receiver (main thread) | `dependencies/emergency_requests_reciever.c` | `server_must_stop`, counters | take a request, enqueue it; take the stop message |
| clock | `dependencies/server_clock.c` | tick flag, tick count, `clock_mutex` | raise the flag and signal, once a second |
| updater | `dependencies/server_updater.c` | nothing of its own: it updates the others' | per tick: move every rescuer, age every emergency; at the stop: cancel all |
| workers (a pool) | `dependencies/server_emergency_handler.c` | the node at hand | take a node, search, wait for the arrival, wait for the end, archive |
| queues and lists | `dependencies/emergency_priority_queue.c` | a waiting and a working queue with three lists each, `is_empty`, `not_empty`, one mutex per queue; two archive lists | enqueue, dequeue, promote, move, remove |
| emergencies | `dependencies/emergency_priority_queue.c`, `include/structs.h` | status, priority, rescuers, ages; per node a mutex and the condition `waiting` | changed by its worker, by the updater, and by another worker that steals from it |
| rescuers ("digital twins") | `dependencies/server_utils.c`, `dependencies/bresenham.c` | status, position, trajectory, timers, the emergency served | sent, moved, sent back; all under `rescuers_mutex` |
| log facility and logger | `dependencies/log.c`, `logger.c` | bounded buffer, sender thread, a message queue, a child process | log, send, sort, write |
| parsers | `parsers/*.c` | the file at hand, the tables of rescuer and emergency types | read `conf/*.conf` line by line into the context |
| client | `client.c` | its mode, the queue it opened, the lines it read | send one request, the lines of a file, or the stop |

How they meet. The receiver hands a node to the pool through the waiting queue;
a worker moves it to the working queue and owns it until it is archived, but
releases the node's mutex in every wait. The updater takes `rescuers_mutex`, the
waiting queue and the working queue, in this order, and then every node's mutex
in turn; it signals the worker when the rescuers are there, when they are done
and when the emergency is canceled. A worker that searches holds its node, takes
`rescuers_mutex`, and locks other emergencies' nodes in turn: to read their
priority, and to pause the one it steals a rescuer from.

What is hard, and what makes each part correct:

- *queues*: a node moves between lists that belong to different mutexes; it must
  never be lost, be in two lists, or be in a list that is not its priority's.
- *locks*: five kinds of mutex, nested, one of them per emergency; every unlock
  must be of an own mutex and no circle of waits may close.
- *stealing*: decided on data read under one set of locks and carried out under
  another; a robbed emergency must notice, and nobody may rob himself.
- *waits*: a status may change several times between a signal and the moment the
  worker runs again; every handled emergency must still reach an archive.
- *stop*: every thread must leave its loop.
- *walk*: integer arithmetic with a running error carried over ticks.
- *intake*: the queue outlives servers and keeps what clients sent them; limits
  are checked one entry late, against arrays of that very length; what a type of
  emergency needs must exist; the receiver itself asks for a mutex and logs, and may
  be given neither.

`PROJECT.json` lists these at their lines under `hazards`.

## The modules

    Bresenham ──────┬── RescuerWalk (walk, arrival) ──┐
                    ├── BresenhamProofs ──────────────┴── WalkProofs
                    │
    EmergencyQueue ─┴── EmergencyServer ── ServerProperties ──┬── MCEmergencyServer
                        EmergencyLifecycle ────┤              │
                        EmergencyLists ────────┘              └── PlaceProofs ── LifecycleProofs ─┐
                          │                                              BresenhamProofs ─┴── SearchProofs
                          └── LinkedLists ── ListProofs

    Configuration ── Intake ──┬── MCIntake
                              └── IntakeProofs

    LogChannel ── LogFacility ──┬── MCLogFacility
                                └── LogProofs

- **Bresenham**: the distance macros, `change_bresenham_trajectory` and
  `compute_bresenham_step` as operators. The C loop is a recursive function of
  the number of iterations.
- **EmergencyQueue**: a queue as three FIFO sequences and the flag `is_empty`
  with the code's own rule for it: lowered by an enqueue, raised only by a
  dequeue that finds nothing.
- **EmergencyServer**: the threads. `pc[w]` is where a worker is, named for what
  it does next (`lockNode`: it is about to lock the node, `arriveWait`: asleep on
  the node's condition, `arriveWoken`: signalled, about to take the node's mutex
  back); `updater`, `clock` and `main` are the other threads'. `emergency[e]` is
  `emergency_t` with the flags of its node, `twin[t]` is
  `rescuer_digital_twin_t`. The mutexes are variables that hold their owner.
- **ServerProperties**: what is asked of it.
- **EmergencyLifecycle**: what the server promises for an emergency: received
  once, taken in the order of urgency by one worker of a pool, attended, and
  archived for ever. `EmergencyServer` implements it (`ImplementsLifecycle`): an
  emergency is `waiting` while its node is in the waiting queue, `assigned` once
  a worker dequeued it, `attended` while its status is IN_PROGRESS or COMPLETED,
  and then in one of the archives.
- **EmergencyLists**: how the list functions want to be called: a node that is put
  in a list is in none, a node that is moved is in the list it is taken from. The
  functions check neither. `EmergencyServer` calls them so (`ImplementsLists`): its
  three lists per queue and the two archives are the lists (`TheLists`).
- **LinkedLists**: the pointers `prev`, `next`, `list`, `head` and `tail` and the counter
  that these functions work on, each function an operator from one memory to the next;
  **ListProofs**: its theorems.
- **RescuerWalk**: one rescuer on a map whose destination may change on the way.
- **BresenhamProofs**, **WalkProofs**: what the loop of a tick computes, and the theorems
  about the rescuer.
- **MCEmergencyServer**: the values TLC gives to the constants.
- **PlaceProofs**, **LifecycleProofs**, **SearchProofs**: the theorems about the
  server, each module resting on the invariants of those before: the mutexes, where
  the nodes are and how the lists are called; what becomes of an emergency and what a
  worker that waits is told; whom a search may take, what a robbery leaves alone,
  the teams, the cancellations and the end.
- **Configuration**: the three files a starting server reads. `stage` is the
  file, or the `request` for rescuers, at hand; the tables are sequences. A line
  is a record whose `form` says which syntax `sscanf` matches it to; no line is put
  together from characters.
- **Intake**: the life of the server's process around the receiver, and the
  clients, which are launched again and again. `queues` are the message queues ever
  created, `named` the one the name stands for: who opened an older one keeps it.
  `taken` is the request the receiver has in hand between `mq_receive` and the
  enqueue, before which it asks for the waiting queue's mutex; `waits_for` says what
  it waits for in vain, if anything: that mutex (`WaitForQueue`) or the log
  (`WaitForLog`). A client that waits for the log in vain is `stuck`. `sent_in` in a
  message is there for the properties only.
- **MCIntake**: the files and requests TLC gives it; **IntakeProofs**: its theorems.
- **LogFacility**: in every process the threads that log (`log_event`,
  `log_fatal_error`, `log_close`), the circular buffer with its indices and the
  sender thread; the message queue all processes share; the logger process. A
  line is its thread and its timestamp. A thread's `pc` says what is left of its
  call: `put` and `putFatal` to enqueue the line, `putStop` the stop message,
  `close` and `join` the two halves of `log_close`.
- **LogChannel**: what that should amount to, a bounded FIFO per process and a
  shared bounded queue. `LogFacility` implements it (`ImplementsChannel`): the
  ring's slots and indices become a sequence (`Pending`), the logger's buffer and file the set
  of what was delivered.
- **MCLogFacility**: the values TLC gives to its constants; **LogProofs**: its theorems.

Intake is a module apart because the server's threads see nothing of it but an
accepted request and the stop: `AcceptRequest` of `Intake` is `ReceiveRequest` of
`EmergencyServer`, where the request finds the waiting queue and its mutex. In the
other direction `Intake` knows only that the mutex may be kept for ever: in the
deadlock of the run `deadlock` the updater holds it, and that takes an emergency
accepted before (the guard of `WaitForQueue`). What
`EmergencyServer` assumes of requests and rescuers is what `AcceptedCanBeServed`
and `TablesSuitTheServer` say of them, but for the place, which may be off the map
(below). The log is a module apart because nothing in the server depends
on it: the threads only call `log_event`, which may wait for the sender but changes nothing
of theirs. That a blocked sender may block the server is stated there
(`AcceptedIsWritten` and the hazard at `logger.c:45`), and is `WaitForLog` and
`StickInLog` of `Intake`, whose liveness depends on it.

The grain of atomicity. A thread holds a mutex across several actions whenever
it asks for another mutex, or waits, meanwhile. A critical section that asks for
nothing else is one action whose guard says that the mutex is free; what other
threads can see of it is the same. `clock_mutex` is always such a case. The
mutexes of the two archive lists are taken only inside the working queue's, so
that one stands for them. The status of an emergency is also read without its
mutex in `is_..._must_be_stolen` (`DecideToSteal`, `SendFree`) and after a pause
(`RecheckCanceled`): those reads are actions of their own.

Correspondence of actions and code, besides the line map in `PROJECT.json`:

| code | actions |
|---|---|
| worker loop, `server_emergency_handler.c:5-36` | `CheckStop` `WaitForWork` `TakeNode` `EnqueueWorking` `BeginSearch` |
| `handle_search_for_rescuers` and `find_and_send_nearest_rescuers` | `SearchRescuers` `ProbeNode` `SearchFails` `RetrySearch` `DecideToSteal` `PauseAndSend` `SendFree` `SearchEnds` |
| the waits for arrival and completion | `BeginProcessing` `GiveUpArrival` `EndProcessing` `WaitAgain` `SpuriousWakeup` |
| the ways out of the working queue | `Complete` `Cancel` `PauseLockWaiting` `Pause` `RecheckCanceled` |
| updater, one tick | `CheckUpdater` `TakeTick` `UpdaterLockRescuers` `UpdaterLockWaiting` `UpdateRescuers` `UpdateWorkingNode` `ScanWaiting` `UpdateWaitingNode` `EndUpdate` |
| updater, stop | `BeginCancelAll` `CancelNode` `EndCancelAll` |
| `mallocate_server_context`, the parsers | `StartServer` `ReadLine` `TakeEnvLine` `TakeRescuerLine` `TakeEmergencyLine` `TakeToken` `IgnoreToken` `FailOnToken` `EndRequests` `EndOfEnv` `EndOfRescuers` `EndOfEmergencies` `OpenQueue` |
| receiver, whole | `ReceiveStop` `RejectRequest` `TakeRequest` `AcceptRequest` `CrashOnRequest` `WaitForQueue` `WaitForLog` of `Intake`; `CloseQueue` and `Die` for the ends of the process |
| `client.c` | `OpenAndSend` `OpenFile` `OpenToStop` `FailOnFile` `SkipLine` `TakeLine` `EndOfFile` `Send` `Close` `StickInLog`; a launch that fails before it opens the queue changes nothing and is no action |
| receiver, clock, `server()` | `ReceiveRequest` `ReceiveStop` `Tick` `StopClock` `CloseServer` |
| `log_event`, `log_close` | `BeginEvent` `PutLine` `PutStop` `BeginClose` `EndClose` |
| the ends of a process without them | `EndClient` (the client's own `log_close`), `Exit` (`close_server`, `DIE`) |
| `log_sender_thread` | `BeginTurn` `SendLine` `EndTurn` |
| `logger` | `ReceiveLine` `ReceiveStop` |

Behaviour C leaves undefined is a choice: `Garbage` is what `malloc` may leave in
the trajectory of a new twin (`server_utils.c:7` keeps it when a rescuer is sent
where it already is), and `SearchLog` what the log line of
`server_emergency_handler.c:56` may do, which passes an `int` to a `%s`: return,
or crash the process. `RunsOff` is what a lookup past the end of a full table may
do (`utils.c:75,82`): find nothing, or crash. One more undefined point is *not* modelled: the node's
condition variable is used without `cnd_init`
(`dependencies/emergency_priority_queue.c:39-52`); on the platforms of the
project a zeroed or fresh block behaves as an initialised one, and the model
takes it as such.

## What each run checks

All the server's runs use at most two workers, two emergencies and one rescuer
type on one row of the map, a pause between searches that may end at any time,
and both outcomes of the crashing log line.

| run | instance | shows |
|---|---|---|
| `team` | two rescuers; a low emergency needs both, a medium one robs it of one | `TypeOK`; one worker per emergency of the working queue (`OneHandlerEach`); workers never wait for one another in a circle (`WorkersDoNotDeadlock`) and no search locks its own node (`SearchSparesItself`); what a search chose is still available when it is sent (`ChoiceIsNotStale`); a worker that sleeps while its rescuers are there, or its emergency is over, has been told (`NoWakeupIsLost`); only one that was reached is worked on (`WorkFollowsArrival`); a team that was found is whole (`TeamMeetsNeeds`) and whoever is out is in the team of whom it serves (`BusyAreInTheTeam`); every circle of waits takes the updater while it scans (`OnlyScansDeadlock`); rescuers change emergency only by the rules, and a robbed emergency that waited for them or was worked on is paused (`StealingIsRuled`); every emergency lives the life of `EmergencyLifecycle` (`ImplementsLifecycle`) |
| `stop` | a low and a medium emergency, promotion, a stop at any moment, spurious wakeups | no emergency is lost or duplicated (`EachNodeInOnePlace`), each is in its priority's list (`ListsMatchPriorities`), the mutexes are owned where the code owns them (`QueueMutexDiscipline`, `NodeMutexDiscipline`), the updater's saved `next` pointer is good (`ScanIsNotStale`), the archives hold what they say (`ArchivesTellStatus`) and what is in them is never touched again (`ArchivedForEver`), a cancellation stands but for two cases (`CancellationStands`), the list functions are called as they expect (`ImplementsLists`), and a server that closes leaves nothing half done (`ClosedIsQuiet`) |
| `served` | two workers, a medium and a high emergency that want the same rescuer, fair threads | what is accepted is archived in the end (`ReceivedIsArchived`), whatever is robbed, paused, timed out or canceled on the way and although a request may wake nobody while the other worker sleeps, short of a crash or the deadlock below |
| `walk` | a 6x5 map, every start and target, speeds 1 to 3, one change of destination | a rescuer on the road stays on the map (`StaysOnTheMap`) and each tick walks its whole budget towards the target (`EachTickIsNearer`) |
| `log` | a server with two threads, a client with one, two slots, a queue of one message | the ring behaves as a bounded FIFO (`ImplementsChannel`, `LogTypeOK`), the lines of a thread keep their order up to the file (`ThreadOrderKept`), who closes the log alone leaves neither lines nor its stop message behind (`CloseSendsItsLines`), and what the buffer accepted is written although senders block with the mutex in hand (`AcceptedIsWritten`), unless the logger was stopped or the process exited without closing |
| `intake` | two clients launched again and again, one of them also with a file, two servers one after the other, a queue of one message | the tables of types stay in their arrays (`TablesStayInBounds`) and hold what the threads take for granted (`TablesSuitTheServer`), whatever is accepted can be served (`AcceptedCanBeServed`), nothing sent to an earlier server is served (`FreshRequestsOnly`), a stop in the queue ends the receiver unless it first waits in vain for the mutex of the waiting queue or for the log (`StopIsObeyed`), a client ends unless it is stuck in the log or has to write into a full queue nobody reads, that of a receiver that waits in vain included (`ClientsFinish`), and all has its type (`IntakeTypeOK`) |

Six runs state what a comment or a message of the code says and end in a
counterexample; each is a finding in `PROJECT.json`:

| run | claim | what happens |
|---|---|---|
| `deadlock` | `server_updater.c:266`: the node is free whenever its worker waits for something | the worker asks for `rescuers_mutex`, or for a queue, with its node locked, and the updater asks for the node holding all three |
| `dequeue` | `server_emergency_handler.c:25`: there is a node to process | `is_empty` stays down after the last node was taken; the second worker dequeues `NULL` and dereferences it in the next log line |
| `close` | `server.c:47`: the threads finish, then all is closed | the clock has gone when the updater waits for its tick |
| `arrival` | `bresenham.c:13`: returns whether we have arrived | the last stretch adds absolute distances: going left or down it ends on the wrong side |
| `log_stop` | `log.c:191`: after an event that ends the program the stop message ends the logger | with the buffer full the message is dropped like any line (`log.c:143`) |
| `requests` | `parsers/parse_emergencies.c:52`: the number of rescuers for one emergency exceeds the maximum, and is refused | the test at `:51` has `>` for `>=`: the one too many is stored first, at `:83`, behind the last of the slots allocated at `:119` |

Two more places where a comment says otherwise are modelled and have no run of
their own. `client.c:42` has the emergencies of a file sent: a line keeps its newline,
the last field is no number with it (`utils.c:45-49`), and every line but a last one
without newline is skipped (`IsSent`, `SkipLine`). By `server_updater.c:267,275` a
cancellation interrupts the wait and the worker sees to it, and by
`server_emergency_handler.c:9-10` every step checks for one: two kinds of worker do not
see that theirs was canceled and go on, which are the exceptions `CancellationStands`
names.

Because of `deadlock`, `dequeue` and the log line, most behaviours of the
server end early. The passing runs are about everything before that, and about
the behaviours that escape it: they still reach all the actions, stealing, teams,
promotions, timeouts, cancellations and the final cancel-all included. No property is restricted to healthy states, except
the liveness properties, whose statements name the escape: `ReceivedIsArchived` and
`StopCloses` the crash and `Deadlocked`, which is a circle of waits and not merely a
lack of progress; `StopIsObeyed` and `ClientsFinish` what that deadlock and a dead
logger do to the receiver and the clients; `AcceptedIsWritten` a stopped logger and
an exit.

### Bounds

- Two workers and two emergencies: the conflicts of the code are between pairs
  (robber and victim, worker and updater, two dequeues). A worker handles one
  node at a time, so that a third emergency only waits. Not covered: three
  emergencies that rob each other in a row, and a team across two rescuer types.
- The ages of an emergency are compared only with the limits 120, 30, 10 and 300 ticks
  (`include/constants.h`). The runs scale them to 1-4 in two different orders, so that
  promotions, timeouts and cancellations happen before, during and after a
  search or a walk; a counter stops at the largest value that matters (`AgeCap`,
  `CancelAge + 1`).
- Scenes are one or two cells from the base and speed is 1, so that a rescuer is
  seen on the road, on the scene and on its way back. `FarAway` is the code's
  limit and never bites on such a map. Larger walks are the job of `walk`.
- A low emergency is attended only after its promotion, since it has no time
  limit; in `team` the promotion comes late (4 ticks), so that it is robbed, and
  times out, before and after. Nothing promises
  that an emergency keeps its rescuers: each leaves the scene by its own timer, so
  that a waiting emergency may lose one that was there already, and a worker that is
  slow to wake may begin, and even complete, an emergency whose rescuers have left.
- `served`: two workers, since whoever robs needs a victim with a worker of its own,
  and a request that wakes nobody needs a second worker asleep. The medium
  emergency is at the base and the high one next door; the limits are 1 to 3 ticks, so
  that the one outranks, robs and outlives the other, and either times out or is
  canceled at every place its worker can be. No stop: that is `stop` and `close`.
- `intake`: every limit is the least that can be hit (no rescuer type, one
  emergency type, one request per type, one message in the queue, one line of a client's
  file), because the checks allow one entry more than the limit; the tables then
  reach one and two. The lines repeat names and have a rescuer on the edge of the map
  and one beyond it, and a request may ask for a type of emergency no file has, which runs
  off a full table. Two servers in turn are what a left-over message needs, two
  clients what a stop behind a request needs; the second client has no file, and no
  request is off the map or has a name with a space, which the theorems cover. One
  server process runs at a time, and `MaxQueues` bounds how many there are.
- `requests`: as `intake`, with two types of rescuers and a type of emergency that asks
  for both where one is the limit.
- `Detours = 1` in `walk`: a detour restarts the trajectory, and every pair of
  start and target is already an initial state.
- The workers are symmetric (`Identical`) in the safety runs; the liveness runs use no symmetry.
- `log`: the ring has two slots for 128, a turn sends one line for 4, the
  queue takes one message for 10, and the logger writes every line at once as
  the code does (`FlushEvery = 1`). Three threads and the stop message are more
  than all of them hold, so that the ring wraps, is full and is empty, the
  sender blocks, and messages of two processes mix. `MaxEvents = 2` bounds the
  lines ever logged (three with the stop message of one of them; the safety
  properties were also run with 3). Since the logger writes each line by itself
  its sort never sees two lines.
- `log_stop`: one process, a turn of one line, three events: the least that
  fills the ring before the stop message.
- `CHECK_DEADLOCK FALSE` everywhere: the server really stops (closed, crashed,
  idle without requests, or in the deadlock above), and so does a rescuer that
  has arrived.

### Fairness

`FairSpec` asks for strong fairness of every worker and of the updater, and weak
fairness of the clock and of the close. Strong, because a mutex is handed over
again and again: the loops that take `rescuers_mutex` sleep for seconds between
two turns (a tick of the clock, the three seconds between two searches), and the
time for which a mutex is free is long against the one for which it is held. No
fairness for clients: nobody has to send anything. None for spurious wakeups:
progress never counts on them. The fairness is stated over places in the code
(`WorkerGoesOn`, `UpdaterGoesOn`): a thread that leaves a place changes one of
the few variables that say where it is, so that fairness of these changes is fairness
of its steps. Every step of a thread is in them.

In `Intake` a receiver that waits for nothing in vain goes on, one step after the
other; it may come to wait in vain at any request it has in hand, if one was accepted
before, and at any line it logs, and nothing is asked of it then. A client that is not
stuck in the log goes on as well; its `mq_send` has strong fairness, since a full
queue serves its senders in the order they came. Nobody has to be launched, no
server has to die, and a server that starts may take for ever to do so.

In `LogFacility` the logger has weak fairness, since `mq_receive` returns when a
message is there. Senders and the threads that have begun an event have strong
fairness: a sender sleeps 100 ms between two turns, which leaves the mutex free for
the threads that wait for it, and a message queue serves who waits longest. Nobody
has to begin an event, to end a client or to exit.

## What is proved

All theorems hold for every value of the constants that the named assumptions
admit.

`PlaceProofs`, for every pool of workers, set of emergencies, rescuers, map and
limits, first the locks:

- **`LocksAreDisciplined`**: `Spec => []QueueMutexDiscipline`. Each of
  `rescuers_mutex`, the waiting queue's mutex and the working queue's mutex is
  owned by a thread exactly while the thread is between its lock and its unlock.

The argument. `QueueMutexDiscipline` relates owners to program positions with
equivalences; together with `ControlTypeOK` (program positions and owners are of
their types, needed because an owner could otherwise be anything) it is inductive: a lock finds the
mutex free, so that by the equivalence no other thread is in the section; an
unlock is made at a position where the equivalence says the mutex is the
thread's own. The steps are in three groups: those that neither take nor release
a shared mutex (`Harmless`, `HarmlessStep`: this includes every signal, which moves
a worker from a wait to its wakeup), those of a worker that do (`WorkerLocks`)
and those of the updater (`UpdaterLocks`). Of the assumptions on the constants
only `ThreadsAssumption` is used: the updater, the workers and `None` are
different.

then the nodes, with the assumptions on emergencies and limits too:

- **`NodeMutexIsDisciplined`**: `Spec => []NodeMutexDiscipline`;
- **`ListsAlwaysMatchPriorities`**: `Spec => []ListsMatchPriorities`;
- **`ScanIsNeverStale`**: `Spec => []ScanIsNotStale`;
- **`AlwaysOneHandlerEach`**: `Spec => []OneHandlerEach`;
- **`AlwaysInOnePlace`**: `Spec => []EachNodeInOnePlace`;
- **`ServerImplementsLists`**: `Spec => ImplementsLists`, the refinement of
  `EmergencyLists`.

None of the first five is inductive. A node's mutex is unlocked by its worker without a
look at the owner, so that the discipline needs that no node has two workers; that
a worker's node is its alone needs that it is in the working queue and was in no
other place when it was dequeued; and that a move puts a node into one list needs
that it was found in the list of its priority. `PlaceInvariant` therefore holds all
of them together with the types of lists and records (`DataTypeOK`), the exclusion
of the places (`PlacesApart`: two queues, two archives, and the hands of a worker
between its dequeue and the working queue), that the nodes handled are those of the
working queue, by one worker each (`HandledIsWorking`), that a node stays paused while its
worker acts on that (`PausedStays`) and that the updater's saved position is a place of
the list it walks (`ScanIsAPlace`). The lock discipline is what makes the
steps exclusive: whoever moves a node owns the queues it moves between. With it every
step of a thread is one call of the list functions or none (`EveryStepIsACall`): a node in
the hands of a worker is in no list when it is put in one, and one that is moved or
promoted is in the list its priority names.

`ListProofs`, for every set of nodes and of lists:

- **`PointersFollowLists`**: `PointersSpec => []Holds(memory, lists)`;
- **`SecondRemovalCutsOff`**: what the functions do when called otherwise.

`Holds` says that each list of the memory is its sequence: head, tail and counter, and
`prev`, `next` and `list` of each of its nodes. Each function keeps it when called as
`EmergencyLists` says (`AppendHolds`, `PushHolds`, `RemoveHolds`); that no node is twice in a
list is what makes the assignments of a removal, in the code's order, those of the
sequence without the node. Together with `ServerImplementsLists` this is why
the server may be modelled with sequences. The second theorem is why the calls matter:
`list` stays when a node leaves, so that removing it again sets the head
and the tail of its former list to `NULL`, however many nodes are on it. `LinkedLists`
has no run of its own: it is sequential, and the theorem says all a run would.

`LifecycleProofs`:

- **`ServerImplementsLifecycle`**: `Spec => ImplementsLifecycle`, the refinement of
  `EmergencyLifecycle`.

`LifeInvariant` adds that records are of their types and a low emergency is never
attended (`RecordsSound`), that only what is in the working queue, or was, is attended
(`AttendedIsWorking`), and that a worker leaves that queue by the way the status tells it
(`LeavesAsTold`). The steps
change at most one emergency's stage (`OneChange`), except the updater's, which
ages them without changing any. That `Workers` is finite is used here: the pool of
the specification counts its free workers.

`LifecycleProofs` again, on what a worker that waits is told:

- **`NoWakeupIsEverLost`**: `Spec => []NoWakeupIsLost`;
- **`WorkAlwaysFollowsArrival`**: `Spec => []WorkFollowsArrival`;
- **`ArchivesAlwaysTellStatus`**: `Spec => []ArchivesTellStatus`.

Their invariant, `WaitInvariant`, says what the flags of an emergency may be in each
status (`RecordsHonest`), that an emergency nobody has sent rescuers to is neither waited
for, arrived nor attended (`FreshUntilSent`: otherwise a search could begin with the
flags of an earlier one), that who is about to be robbed has not completed
(`RobbedIsUnfinished`: otherwise the robber would pause what lies among the completed), and two of the
properties. Its one delicate step is the search, which changes several emergencies
over several actions: while a worker holds `rescuers_mutex` nobody else changes what
it decided on (`SearcherIsAlone`). Everything else is one lemma, `EveryStep`: for each
emergency a step either leaves it alone, or signals its worker, or is its worker's.

`SearchProofs`:

- **`ChoiceIsNeverStale`**: `Spec => []ChoiceIsNotStale`;
- **`SearchAlwaysSparesItself`**: `Spec => []SearchSparesItself`;
- **`WorkersNeverDeadlock`**: `Spec => []WorkersDoNotDeadlock`;
- **`StealingIsAlwaysRuled`**: `Spec => StealingIsRuled`;
- **`ArchivedStaysForEver`**: `Spec => ArchivedForEver`;
- **`ServerIsTyped`**: `Spec => []TypeOK`;
- **`TeamsAlwaysMeetNeeds`**: `Spec => []TeamMeetsNeeds`;
- **`BusyAlwaysInTheTeam`**: `Spec => []BusyAreInTheTeam`;
- **`CirclesAlwaysScan`**: `Spec => []OnlyScansDeadlock`;
- **`CancellationAlwaysStands`**: `Spec => CancellationStands`;
- **`ClosedIsAlwaysQuiet`**: `Spec => []ClosedIsQuiet`.

For the first six the invariant, `SearchInvariant`, has three ideas. A twin is bound only to an
emergency that was served once (`BoundAreServed`): so none is bound to the node of a
worker that is only about to search, which is why no search probes its own node and why
the owner of a probed node never waits for `rescuers_mutex` in its turn. While a worker
searches, nobody else gives or takes a twin, and no priority changes, since the
updater promotes under the same mutex (`PrioritiesStay`): what was idle or could be robbed still is
(`SendableStays`), but for the twins the worker itself has sent, which are not
chosen twice (`SearchSound`). And whatever order of distance the search prefers, it chooses
different twins among those it may (`FindAllIsAChoice`, by `Recursion` again: the
search of a team is a recursive function of the requests). Then a worker in a circle can
wait only for `rescuers_mutex` or under it (`OthersWaitFor`), and of the latter none waits for
another (`SearcherWaitsForNoSearcher`).

An archived emergency could change only by the robbery of a team it no longer has. So the
invariant of `ArchivedStaysForEver`, `VictimsStay`, is about the time between a robber's
decision and the pause: whom it is about to pause still has a worker. The cancel-all of
a stop may come in between; but then the victim's worker waits for the working queue,
which the updater holds until it has canceled the robber's own node too, and that is
locked by the robber. The node is `Ahead` of the scan, since its priority is higher than the
victim's and a scan goes on without leaving out what is ahead of it
(`UpwardsMissesNothing`). Hence every step changes only emergencies of the two
queues (`OnlyHereChanges`). Of the types only `TimeToArrive` needs an idea: it is the largest
of a finite set of numbers, which has one (`LargestNumber`, by `UpTo`).

The teams rest on `TeamInvariant`: while a worker searches, the team of its node is
exactly what it has sent so far of what it chose (`Gathers`), and before that it is empty,
since an emergency is served once only: a failed search sends nobody and a paused
emergency is not searched for again. So the indices of the two loops of
`find_and_send_nearest_rescuers` never leave the array, no matter who is robbed in
between, and the flag `rescuers_found` is raised on a whole team. Whoever is on the road
was sent to a node by a step that also wrote it into that node's team, and no step takes
anybody out of a team again.

`CirclesAlwaysScan`: outside its scans the updater asks for `rescuers_mutex` with empty
hands, so that nobody waits for it; for the waiting queue, whose owner then finds the
working queue free; and for the working queue, which no worker keeps from one step to
the next (`UpdaterWaitsForTheFree`). A circle without it is what `WorkersNeverDeadlock` excludes.

`CancellationAlwaysStands` rests on `CancelInvariant`: nobody who has yet to search,
or searches, has a canceled node, a canceled emergency is past the age for it
or the server is stopping, and one not begun is waiting or timed out. A timeout may
overwrite the status, but in the same step the age cancels it again; after a
stop the updater ages nobody. What is left are the two exceptions the property names.
`ClosedIsAlwaysQuiet` needs only that who is done holds nothing: a server closes after its
joins, and then `PlaceInvariant` leaves every request to a queue or an archive.

`WalkProofs`, for every map, every speed and any number of changes of destination
(`WalkAssumption`):

- **`AlwaysOnTheMap`**: `Spec => []StaysOnTheMap`;
- **`EachTickGoesNearer`**: `Spec => EachTickIsNearer`.

The loop of a tick is a recursive function of the number of its turns. `BresenhamProofs`
first shows that such a function is what its equation says (`Recursion`, and for the
loop `LoopUnfolds`), by an induction over sets of numbers drawn from the well-foundedness
of `<` (`UpTo`); `WalkIsTyped` and `StepIsTyped` follow. What a turn keeps is `Along`: with
`ra` and `rb` cells left on the two axes the running error is
`(1 - rb) * dx + (ra - 1) * dy`. So the tests of the loop never choose an axis with
nothing left (`WalkOnceIsNearer`), in whichever turn of whichever tick, and each turn takes
one or two cells off the distance, the `break` keeping it within the budget. `WalkInvariant`
is that of a rescuer on the road (`OnRoad`), with the cell of the map it left: it is between
that cell and its target. A change of destination begins another road (`NewRoad`).

`LogProofs`, for every set of processes and threads, every capacity of the ring,
the queue and the logger's buffer, and every number of events:

- **`LogIsTyped`**: `Spec => []LogTypeOK`;
- **`CloserLeavesNothing`**: `Spec => []CloseSendsItsLines`;
- **`LogImplementsChannel`**: `Spec => ImplementsChannel`, the refinement of
  `LogChannel`;
- **`ThreadOrderIsKept`**: `Spec => []ThreadOrderKept`.

The first three rest on `LogInv`, whose parts are `RingOK` (`tail` is
`(head + count) % Capacity` and every slot between them holds a message),
`ThreadsOK` (what a thread is about to enqueue is its own), `SendersOK` (a turn
never exceeds the lines there are; a sender ends only after `logging_finished`,
and who raised it waits in the join) and the properties themselves. The
arithmetic is in three lemmas about a number below twice the capacity
(`ModOnce`): the tail after an enqueue (`TailMoves`), the tail after a dequeue
(`HeadMoves`), and that a full slot is never the one the tail points to
(`OtherSlot`). From them `PutAppends` and `SendTakesFirst` say that the ring acts
as a sequence, which is the refinement; that a thread leaves nothing behind needs that a
line put after the sender has ended is another thread's. `ThreadOrderIsKept` rests on
`OrderInv` besides: each place a line goes through is in order and before the next
(`SentInOrder`, `PendingInOrder`), the lines in a ring are its own process's, so that
those of different rings never need an order, and the clock is ahead of every line known
(`StampsGrow`). The logger's sort keeps the order since it only permutes: two lines of one
thread exchanged would have their timestamps in the wrong order (`SortInOrder`). The assumptions used are all of
`ProcessesAssumption`, `MessagesAssumption` and `SizesAssumption`.

`IntakeProofs`, for all files, limits, clients and requests:

- **`TablesStayInBoundsAlways`**: `IntakeSpec => []TablesStayInBounds`;
- **`AcceptedCanBeServedAlways`**: `IntakeSpec => []AcceptedCanBeServed`;
- **`TablesAlwaysSuit`**: `IntakeSpec => []TablesSuitTheServer`;
- **`IntakeIsTyped`**: `IntakeSpec => []IntakeTypeOK`;
- **`OnlyFreshRequests`**: `IntakeSpec => FreshRequestsOnly`.

`TablesStayInBounds` is of the two tables of types, which are allocated longer than
their limits; the array of an emergency's requests is not, and is what the run
`requests` is about. The first three rest on `IntakeInv`: the tables have their types,
`parsed_so_far` is the length of the table being filled (`TablesCounted`; the bound is
on the counter, so that without it nothing bounds the table), every type of emergency read so far
can be met by the rescuers read before it (`TablesFit`), and so can those of the
requests accepted and of the one in hand (`AcceptedFits`). The rescuer table never changes once the
emergency types are read, and a process that ends forgets everything.
`LimitsAssumption` is used for the slots, `LinesAssumption` for the types.
`TablesAlwaysSuit` adds that the type being read has a new name and sensible
requests so far (`SuitInv`); it is what `EmergencyServer` assumes of its rescuers and needs
(`EmergenciesAssumption`, `RescuersAssumption`), but for the scenes.
The other two rest on `QueueInv` besides: the receiver has at most one message in hand
(`ReceiverTyped`), the name always stands for the last queue
opened (`QueuesCounted`), clients have only queues that were opened (`ClientsSound`),
so that one about to be opened is empty, and what is in the last was sent since
(`QueuesFresh`). `RequestsAssumption` and `IntakeAssumption` give the types of what clients send.

Every invariant, action property and refinement that a passing run checks is
proved. Only model-checked are the liveness properties, since fairness and ENABLED
are out of the prover's reach; what a recursive definition computes for every
input is proved only where a well-founded order could be used (`Recursion`).

## What is not modelled

- **Of the log**: the counters behind the automatic IDs, the table of events and
  the wording of a line. In `EmergencyServer` log lines do nothing, except the
  one that may crash.
- **Wording of lines and messages**: what `sscanf` and `my_atoi` make of the
  characters is the `form` of a line or request.
- **Requests off the map**: `Intake` accepts them as the code does
  (`emergency_requests_reciever.c:53`), the runs of `EmergencyServer` send none.
- **Allocation failures, freeing of memory, `fork`, signals, wording of logs.**
- `FAIR` mode of the search: no caller asks for it.
- The rest of the repository (`LAB2/Esercizi`, `LAB2/Eseperimenti`, `AESO`):
  unrelated exercises.

## Plan

1. *Done*: the threads of the server, its queues and the walk, with the runs
   above and the lock discipline proved.
2. *Done*: **EmergencyLifecycle** and `EmergencyServer` as its refinement.
3. *Done*: the log facility, its logger, and the channel they implement, with the
   refinement proved.
4. *Done*: the parsers, the receiver with what it may wait for, and the clients, with
   five theorems.
5. *Done*: the doubly linked lists with their pointers, and the server as their user.
6. *Done*: the places of the nodes, the step simulation of `EmergencyLifecycle`,
   the wakeups, the search, the archives, the teams, the cancellations, the walk, the
   order of the log, the freshness of the queues and the tables proved.
7. Left: automatic IDs that repeat (`log.c:166`); instances with teams over two
   rescuer types (the theorems cover them, no run does).
