------------------------------ MODULE LogFacility ------------------------------
(***************************************************************************)
(* dependencies/log.c and logger.c: in every process the threads that call *)
(* log_event and the sender thread share a circular buffer; the senders    *)
(* feed a bounded POSIX message queue; the logger process writes the file. *)
(*                                                                         *)
(* log_messages_buffer_mutex is held across several steps by the sender    *)
(* only, which may block in mq_send meanwhile: it is taken exactly while   *)
(* sender = "sending".                                                     *)
(***************************************************************************)
EXTENDS Integers, SequencesExt

CONSTANTS
    Processes,          \* the server and the clients
    Server,
    Threads,            \* all the threads that log
    ProcessOf,          \* the process of a thread
    Stop,               \* STOP_LOGGING_MESSAGE
    Empty,              \* what a slot holds before its first line
    Capacity,           \* LOG_SENDER_BUFFER_CAPACITY
    Batch,              \* HOW_MANY_LOG_MESSAGES_TO_SEND_AT_A_TIME
    QueueCapacity,      \* MAX_LOG_QUEUE_MESSAGES
    LoggerCapacity,     \* LOG_BUFFER_CAPACITY
    FlushEvery,         \* HOW_MANY_LOGS_BEFORE_FLUSHING_THE_STREAM
    MaxEvents           \* how many events are logged (a bound, not code)

(* A line is known by its thread and its timestamp. *)
Lines    == [by : Threads, timestamp : 1 .. MaxEvents]
Messages == Lines \cup {Stop}
Slots    == 0 .. Capacity - 1

ASSUME ProcessesAssumption ==
    /\ Server \in Processes
    /\ ProcessOf \in [Threads -> Processes]

ASSUME MessagesAssumption == Stop \notin Lines

ASSUME SizesAssumption ==
    /\ Capacity \in Nat \ {0} /\ Batch \in Nat \ {0} /\ QueueCapacity \in Nat \ {0}
    /\ LoggerCapacity \in Nat \ {0} /\ FlushEvery \in Nat \ {0} /\ MaxEvents \in Nat

VARIABLES
    events,                 \* the events so far, as the clock that stamps lines
    running,                \* the processes that did not exit
    pc, line,               \* of a thread: its next step, the line it logs
    buffer, head, tail, count,      \* log_messages_buffer of a process
    finished,               \* logging_finished
    sender, to_send,        \* the sender thread of a process and its turn
    queue,                  \* LOG_QUEUE_NAME
    logger,                 \* "reading" or "done"
    log_buffer, logs_so_far,    \* of the logger
    file                    \* LOG_FILE

threadVars == <<events, pc, line>>
ringVars   == <<buffer, head, tail, count>>
senderVars == <<sender, to_send>>
loggerVars == <<logger, log_buffer, logs_so_far, file>>

vars == <<running, threadVars, ringVars, finished, senderVars, queue, loggerVars>>

Init ==
    /\ events = 0 /\ running = Processes
    /\ pc = [t \in Threads |-> "idle"]
    /\ line = [t \in Threads |-> Empty]
    /\ buffer = [p \in Processes |-> [i \in Slots |-> Empty]]
    /\ head = [p \in Processes |-> 0] /\ tail = [p \in Processes |-> 0]
    /\ count = [p \in Processes |-> 0]
    /\ finished = [p \in Processes |-> FALSE]
    /\ sender = [p \in Processes |-> "asleep"]
    /\ to_send = [p \in Processes |-> 0]
    /\ queue = <<>>
    /\ logger = "reading" /\ log_buffer = <<>> /\ logs_so_far = 0 /\ file = <<>>

--------------------------------------------------------------------------------
(* The circular buffer. *)

(* MUTANT of Succ: the index is not wrapped *)
SuccWithoutWrap(i) == i + 1

Succ(i) == (i + 1) % Capacity

(* The lines of p not sent yet, oldest first *)
Pending(p) == [i \in 1 .. count[p] |-> buffer[p][(head[p] + i - 1) % Capacity]]

BufferIsFree(p) == sender[p] # "sending"

(* MUTANTS of HasRoom: no test at all, one line too many *)
AlwaysRoom(p) == TRUE

RoomForOneMore(p) == count[p] <= Capacity

HasRoom(p) == count[p] < Capacity

(* enqueue_log_message: a line that finds the buffer full is dropped *)
Put(p, m) ==
    IF HasRoom(p)
    THEN /\ buffer' = [buffer EXCEPT ![p][tail[p]] = m]
         /\ tail' = [tail EXCEPT ![p] = Succ(@)]
         /\ count' = [count EXCEPT ![p] = @ + 1]
         /\ UNCHANGED head
    ELSE UNCHANGED ringVars

--------------------------------------------------------------------------------
(* Threads: log_event, log_close and the ways a process ends. *)

Goes(t, step) == pc' = [pc EXCEPT ![t] = step]

Runs(t) == ProcessOf[t] \in running

(* The timestamp is read before the buffer's mutex is asked for. *)
BeginEvent(t) ==
    /\ Runs(t) /\ pc[t] = "idle"
    /\ events < MaxEvents /\ events' = events + 1
    /\ line' = [line EXCEPT ![t] = [by |-> t, timestamp |-> events']]
    /\ \E step \in {"put", "putFatal"} : Goes(t, step)
    /\ UNCHANGED <<running, ringVars, finished, senderVars, queue, loggerVars>>

PutLine(t) ==
    /\ Runs(t) /\ pc[t] \in {"put", "putFatal"}
    /\ BufferIsFree(ProcessOf[t])
    /\ Put(ProcessOf[t], line[t])
    /\ Goes(t, IF pc[t] = "put" THEN "idle" ELSE "putStop")
    /\ line' = [line EXCEPT ![t] = Empty]
    /\ UNCHANGED <<events, running, finished, senderVars, queue, loggerVars>>

(* An event that ends the program also tells the logger to stop. *)
PutStop(t) ==
    /\ Runs(t) /\ pc[t] = "putStop"
    /\ BufferIsFree(ProcessOf[t])
    /\ Put(ProcessOf[t], Stop)
    /\ Goes(t, "close")
    /\ UNCHANGED <<events, line, running, finished, senderVars, queue, loggerVars>>

(* main() of a client that has no more to send *)
EndClient(t) ==
    /\ Runs(t) /\ ProcessOf[t] # Server
    /\ pc[t] = "idle"
    /\ Goes(t, "close")
    /\ UNCHANGED <<events, line, running, ringVars, finished, senderVars, queue,
                   loggerVars>>

(* log_close, up to the join and after it *)
BeginClose(t) ==
    /\ Runs(t) /\ pc[t] = "close"
    /\ finished' = [finished EXCEPT ![ProcessOf[t]] = TRUE]
    /\ Goes(t, "join")
    /\ UNCHANGED <<events, line, running, ringVars, senderVars, queue, loggerVars>>

EndClose(t) ==
    /\ Runs(t) /\ pc[t] = "join"
    /\ sender[ProcessOf[t]] = "done"
    /\ running' = running \ {ProcessOf[t]}
    /\ UNCHANGED <<threadVars, ringVars, finished, senderVars, queue, loggerVars>>

(* close_server, and DIE in a client: exit() without log_close *)
Exit(p) ==
    /\ p \in running
    /\ \A t \in Threads : ProcessOf[t] = p => pc[t] = "idle"
    /\ running' = running \ {p}
    /\ UNCHANGED <<threadVars, ringVars, finished, senderVars, queue, loggerVars>>

--------------------------------------------------------------------------------
(* Sender: log_sender_thread. *)

AtMost(a, b) == IF a < b THEN a ELSE b

(* MUTANT of TurnOf: a line is always left in the buffer *)
TurnLeavingOne(p) == AtMost(count[p] - 1, Batch)

TurnOf(p) == AtMost(count[p], Batch)

BeginTurn(p) ==
    /\ p \in running /\ sender[p] = "asleep"
    /\ sender' = [sender EXCEPT ![p] = "sending"]
    /\ to_send' = [to_send EXCEPT ![p] = TurnOf(p)]
    /\ UNCHANGED <<running, threadVars, ringVars, finished, queue, loggerVars>>

(* mq_send blocks while the queue is full *)
SendLine(p) ==
    /\ p \in running /\ sender[p] = "sending"
    /\ to_send[p] > 0
    /\ Len(queue) < QueueCapacity
    /\ queue' = Append(queue, buffer[p][head[p]])
    /\ head' = [head EXCEPT ![p] = Succ(@)]
    /\ count' = [count EXCEPT ![p] = @ - 1]
    /\ to_send' = [to_send EXCEPT ![p] = @ - 1]
    /\ UNCHANGED <<running, threadVars, buffer, tail, finished, sender, loggerVars>>

(* MUTANT of IsFinished: what is left in the buffer is forgotten *)
IsFinishedEarly(p) == finished[p]

IsFinished(p) == finished[p] /\ count[p] = 0

EndTurn(p) ==
    /\ p \in running /\ sender[p] = "sending"
    /\ to_send[p] = 0
    /\ sender' = [sender EXCEPT ![p] = IF IsFinished(p) THEN "done" ELSE "asleep"]
    /\ UNCHANGED <<running, threadVars, ringVars, finished, to_send, queue, loggerVars>>

--------------------------------------------------------------------------------
(* Logger: logger(). *)

(* What qsort may make of lines; it may order those of one time either way *)
Sorted(lines) ==
    {sorted \in {[i \in DOMAIN lines |-> lines[order[i]]] :
                    order \in Bijection(DOMAIN lines, DOMAIN lines)} :
        \A i, j \in DOMAIN lines :
            i < j => sorted[i].timestamp <= sorted[j].timestamp}

(* sort_write_flush_log_buffer, but for the buffer's length *)
Write(lines) == \E sorted \in Sorted(lines) : file' = file \o sorted

(* we_should_flush, with the count kept modulo FlushEvery *)
LoggedNow == (logs_so_far + 1) % FlushEvery

ReceiveLine ==
    LET lines == Append(log_buffer, Head(queue))
    IN  /\ logger = "reading" /\ queue # <<>>
        /\ Head(queue) # Stop
        /\ queue' = Tail(queue)
        /\ logs_so_far' = LoggedNow
        /\ IF Len(lines) >= LoggerCapacity \/ LoggedNow = 0
           THEN Write(lines) /\ log_buffer' = <<>>
           ELSE log_buffer' = lines /\ UNCHANGED file
        /\ UNCHANGED <<running, threadVars, ringVars, finished, senderVars, logger>>

ReceiveStop ==
    /\ logger = "reading" /\ queue # <<>>
    /\ Head(queue) = Stop
    /\ queue' = Tail(queue)
    /\ Write(log_buffer) /\ log_buffer' = <<>>
    /\ logger' = "done"
    /\ UNCHANGED <<running, threadVars, ringVars, finished, senderVars, logs_so_far>>

--------------------------------------------------------------------------------

Thread(t) ==
    \/ BeginEvent(t) \/ PutLine(t) \/ PutStop(t)
    \/ EndClient(t) \/ BeginClose(t) \/ EndClose(t)

Sender(p) == BeginTurn(p) \/ SendLine(p) \/ EndTurn(p)

Logger == ReceiveLine \/ ReceiveStop

Next ==
    \/ \E t \in Threads : Thread(t)
    \/ \E p \in Processes : Sender(p) \/ Exit(p)
    \/ Logger

Spec == Init /\ [][Next]_vars

(* A sender's sleep ends, a sender blocked on a full queue is served when  *)
(* there is room again and again, the logger reads what is there, and who  *)
(* has begun to log goes on; nobody has to log anything.                   *)
GoesOn(t) == PutLine(t) \/ PutStop(t) \/ BeginClose(t) \/ EndClose(t)

Fairness ==
    /\ WF_vars(Logger)
    /\ \A p \in Processes : SF_vars(Sender(p))
    /\ \A t \in Threads : SF_vars(GoesOn(t))

FairSpec == Spec /\ Fairness

--------------------------------------------------------------------------------

ThreadsTypeOK ==
    /\ events \in 0 .. MaxEvents
    /\ pc \in [Threads -> {"idle", "put", "putFatal", "putStop", "close", "join"}]
    /\ line \in [Threads -> Lines \cup {Empty}]

RingsTypeOK ==
    /\ buffer \in [Processes -> [Slots -> Messages \cup {Empty}]]
    /\ head \in [Processes -> Slots] /\ tail \in [Processes -> Slots]
    /\ count \in [Processes -> 0 .. Capacity]

SendersTypeOK ==
    /\ sender \in [Processes -> {"asleep", "sending", "done"}]
    /\ to_send \in [Processes -> 0 .. Batch]
    /\ finished \in [Processes -> BOOLEAN]

LoggerTypeOK ==
    /\ queue \in Seq(Messages) /\ Len(queue) <= QueueCapacity
    /\ logger \in {"reading", "done"} /\ logs_so_far \in 0 .. FlushEvery - 1
    /\ log_buffer \in Seq(Lines) /\ Len(log_buffer) < LoggerCapacity
    /\ file \in Seq(Lines)

(* Every variable has its type: the indices stay in the ring and nothing   *)
(* holds more than its capacity (log.c:143-146, logger.c:51-57).           *)
LogTypeOK ==
    /\ running \subseteq Processes
    /\ ThreadsTypeOK /\ RingsTypeOK /\ SendersTypeOK /\ LoggerTypeOK

(* All the lines of p and of the processes that logged before, oldest first *)
Way(p) == file \o log_buffer \o queue \o Pending(p)

(* The lines of one thread keep their order all the way from the circular  *)
(* buffer to the file, none is there twice and none comes back: whatever   *)
(* the indices of the ring, a full buffer or queue and the logger's sort   *)
(* do with them.                                                           *)
ThreadOrderKept ==
    \A p \in Processes : \A i, j \in DOMAIN Way(p) :
        LET x == Way(p)[i]   y == Way(p)[j]
        IN  i < j /\ Stop \notin {x, y} /\ x.by = y.by => x.timestamp < y.timestamp

Closers(p) == {t \in Threads : ProcessOf[t] = p /\ pc[t] \in {"putStop", "close", "join"}}

(* A thread that is alone to close the log and has joined the sender       *)
(* leaves neither lines of its own nor its stop message in the buffer,     *)
(* although the sender reads logging_finished once a turn and other        *)
(* threads go on logging (log.c:103-134).  Of two that close, the second   *)
(* may leave its own.                                                      *)
CloseSendsItsLines ==
    \A p \in Processes, t \in Threads :
        Closers(p) = {t} /\ pc[t] = "join" /\ sender[p] = "done" =>
            \A m \in ToSet(Pending(p)) : m # Stop /\ m.by # t

Stamps(lines) == {m.timestamp : m \in ToSet(lines) \ {Stop}}

(* A line that found room in the buffer reaches the file, unless its       *)
(* process exits without closing the log or the logger has ended: a sender *)
(* blocked with the buffer's mutex in hand blocks nobody for ever.         *)
AcceptedIsWritten ==
    \A n \in 1 .. MaxEvents :
        (\E p \in running : n \in Stamps(Pending(p))) ~>
            \/ n \in Stamps(file) \/ logger = "done"
            \/ \E p \in Processes \ running : n \in Stamps(Pending(p))

(* The ring, the queue and the logger are a bounded FIFO per process and a *)
(* shared queue.                                                           *)
Channel == INSTANCE LogChannel WITH
    open <- running,
    pending <- [p \in Processes |-> IF p \in running THEN Pending(p) ELSE <<>>],
    listening <- logger = "reading",
    delivered <- ToSet(file) \cup ToSet(log_buffer)

(* The log facility implements the channel. *)
ImplementsChannel == Channel!Spec

(* log.c, "se l'evento fa terminare il programma si invia anche il         *)
(* messaggio di stop logging per far terminare il logger": after an event  *)
(* that ends its program the logger ends.                                  *)
FatalEndsLogger ==
    \A t \in Threads : pc[t] = "putStop" ~> logger = "done"

=============================================================================
