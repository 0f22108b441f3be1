--------------------------------- MODULE Intake ---------------------------------
(***************************************************************************)
(* How a request for an emergency reaches the server: src/client.c, the    *)
(* message queue, and emergency_requests_reciever.c with the start and the *)
(* end of src/server.c around it.  The server reads its files, replaces    *)
(* the queue by a new one and receives; it may be stopped, die and start   *)
(* again, one process at a time.  Clients come at any moment, again and    *)
(* again.                                                                  *)
(***************************************************************************)
EXTENDS Configuration

CONSTANTS
    Clients,                \* from where clients are launched, one at a time each
    FileClients,            \* those that may be given a file
    Requests,               \* a request as it is typed, on a line or as arguments
    QueueCapacity,          \* mq_maxmsg
    MaxFileLines,           \* MAX_FILE_LINES of a client's file
    MaxRequestCount,        \* MAX_EMERGENCY_REQUEST_COUNT
    MaxQueues               \* bound: how often the server opens its queue

(* What is typed: "wrong" has too few or too many fields, "NaN" a number   *)
(* that is not one, "long" a name that is too long; "spaced" has a name    *)
(* the server cannot read back.  x and y are the values my_atoi may give:  *)
(* any, when the number overflows.                                         *)
ASSUME RequestsAssumption ==
    \A r \in Requests :
        /\ r.form \in {"wrong", "NaN", "long", "spaced", "fields"}
        /\ r.form = "fields" => r.name \in STRING /\ r.x \subseteq Int /\ r.y \subseteq Int

ASSUME IntakeAssumption ==
    /\ QueueCapacity \in Nat /\ MaxQueues \in Nat
    /\ MaxFileLines \in Nat /\ MaxRequestCount \in Nat

VARIABLES
    opened,                 \* how many queues the servers have opened so far
    named,                  \* the queue mq_open finds by name, 0 for none
    queues,                 \* what each queue holds
    accepted,               \* the requests this process has put into waiting_queue
    taken,                  \* the request it is about to put there, if any
    waits_for,              \* what its receiver is never given: waiting_queue's mutex, the log's
    client                  \* of a client: where it is and what it counts

queueVars    == <<opened, named, queues>>
receiverVars == <<accepted, taken, waits_for>>
intakeVars   == <<confVars, queueVars, receiverVars, client>>

(* sent_in: how many queues had been opened when it was sent, for the properties *)
StopMessage == [form |-> "stop", sent_in |-> 0]

(* No process: one that has ended leaves nothing, and one that does not     *)
(* find its arguments right, its file or a queue of that name does nothing. *)
NewClient == [step |-> "idle", mode |-> "none", queue |-> 0, message |-> StopMessage,
              lines |-> 0, sent |-> 0, at_end |-> FALSE]

IntakeInit ==
    /\ ConfInit
    /\ opened = 0 /\ named = 0
    /\ queues = [q \in 1 .. MaxQueues |-> <<>>]
    /\ accepted = {} /\ taken = <<>> /\ waits_for = "nothing"
    /\ client = [c \in Clients |-> NewClient]

--------------------------------------------------------------------------------
(* The server's process *)

StartServer ==
    /\ opened < MaxQueues
    /\ StartProcess
    /\ UNCHANGED <<queueVars, receiverVars, client>>

(* mallocate_server_context up to the queue: nothing is accepted meanwhile *)
ParseFiles == Parse /\ UNCHANGED <<queueVars, receiverVars, client>>

GoTo(next) ==
    /\ stage' = next
    /\ UNCHANGED <<stateVars, env, rescuer_types, emergency_types, typeVars>>

(* MUTANTS of NewQueue: mq_unlink is forgotten, mq_open finds the old queue; *)
(* mq_unlink comes second                                                  *)
QueueOfBefore ==
    /\ named' = IF named = 0 THEN opened + 1 ELSE named
    /\ UNCHANGED queues

QueueWithoutName == named' = 0 /\ UNCHANGED queues

(* mq_unlink, then mq_open with O_CREAT: who has the old queue keeps it *)
NewQueue == named' = opened + 1 /\ UNCHANGED queues

OpenQueue ==
    /\ stage = "parsed"
    /\ GoTo("receiving")
    /\ opened' = opened + 1
    /\ NewQueue
    /\ UNCHANGED <<receiverVars, client>>

EndServer ==
    /\ EndProcess
    /\ accepted' = {} /\ taken' = <<>> /\ waits_for' = "nothing"

(* The name to unlink lacks its slash, so that the queue stays *)
CloseQueue ==
    /\ stage = "joining"
    /\ EndServer
    /\ UNCHANGED <<queueVars, client>>

(* Any other end: a fatal error of another thread, a signal *)
Die ==
    /\ stage # "down"
    /\ EndServer
    /\ UNCHANGED <<queueVars, client>>

--------------------------------------------------------------------------------
(* emergency_requests_reciever *)

(* parse_emergency_request and emergency_request_values_are_illegal; the   *)
(* time a client sends is never INVALID_TIME.                              *)
IsLegal(m) ==
    /\ m.form = "fields"
    /\ Holds(emergency_types, m.name)
    /\ Abs(m.x) <= Abs(env.width) /\ Abs(m.y) <= Abs(env.height)

Message == Head(queues[named])

Receiving == stage = "receiving" /\ waits_for = "nothing"

(* mq_receive *)
TakeMessage ==
    /\ Receiving /\ taken = <<>>
    /\ queues[named] # <<>>
    /\ queues' = [queues EXCEPT ![named] = Tail(@)]
    /\ UNCHANGED <<opened, named, client>>

(* MUTANT of ReceiveStop: the flag is set, the loop goes on *)
ReceiveStopAndGoOn ==
    /\ TakeMessage
    /\ Message.form = "stop"
    /\ UNCHANGED <<confVars, receiverVars>>

ReceiveStop ==
    /\ TakeMessage
    /\ Message.form = "stop"
    /\ GoTo("joining")
    /\ UNCHANGED receiverVars

RejectRequest ==
    /\ TakeMessage
    /\ Message.form # "stop" /\ ~IsLegal(Message)
    /\ UNCHANGED <<confVars, receiverVars>>

TakeRequest ==
    /\ TakeMessage
    /\ Message.form # "stop" /\ IsLegal(Message)
    /\ taken' = <<Message>>
    /\ UNCHANGED <<confVars, accepted, waits_for>>

(* lock_queue, enqueue_emergency_node, unlock_queue *)
AcceptRequest ==
    /\ Receiving /\ taken # <<>>
    /\ accepted' = accepted \cup {Head(taken)}
    /\ taken' = <<>>
    /\ UNCHANGED <<confVars, queueVars, waits_for, client>>

CrashOnRequest ==
    /\ TakeMessage
    /\ Message.form = "fields" /\ "crashes" \in RunsOff
    /\ Overruns(emergency_types, EmergencySlots, Message.name)
    /\ EndServer

(* lock_queue never returns: the updater has the mutex and waits for a     *)
(* worker that waits for it (NobodyWaitsForEver of ServerProperties).  It  *)
(* takes an emergency for that.                                            *)
WaitForQueue ==
    /\ Receiving /\ taken # <<>>
    /\ accepted # {}
    /\ waits_for' = "waiting_queue"
    /\ UNCHANGED <<confVars, queueVars, accepted, taken, client>>

(* log_event never returns: the logger is gone, its queue is full, and the *)
(* sender of the log has the mutex of the ring (AcceptedIsWritten of       *)
(* LogFacility).                                                           *)
WaitForLog ==
    /\ Receiving /\ taken = <<>>
    /\ waits_for' = "log"
    /\ UNCHANGED <<confVars, queueVars, accepted, taken, client>>

--------------------------------------------------------------------------------
(* A client's process *)

Becomes(c, new) ==
    /\ client' = [client EXCEPT ![c] = new]
    /\ UNCHANGED <<confVars, queueVars, receiverVars>>

(* What is left to do is the last log_event and log_close. *)
Closing == [NewClient EXCEPT !.step = "closing"]

Opened(mode) == [NewClient EXCEPT !.queue = named, !.mode = mode]

CanOpen(c) == client[c].step = "idle" /\ named # 0

OpenFile(c) ==
    /\ CanOpen(c) /\ c \in FileClients
    /\ Becomes(c, [Opened("file") EXCEPT !.step = "reading"])

OpenToStop(c) ==
    /\ CanOpen(c)
    /\ Becomes(c, [Opened("stop") EXCEPT !.step = "sending", !.message = StopMessage])

(* The messages send_emergency_request_message may make of a typed request *)
MessagesFor(r) ==
    CASE r.form = "spaced" -> {[form |-> "spaced", sent_in |-> 0]}
      [] r.form = "fields" ->
            {[form |-> "fields", name |-> r.name, x |-> x, y |-> y, sent_in |-> 0] :
                x \in r.x, y \in r.y}
      [] OTHER -> {}

OpenAndSend(c, r) ==
    /\ CanOpen(c)
    /\ r.form # "wrong"
    /\ IF MessagesFor(r) = {}
       THEN Becomes(c, Closing)
       ELSE \E m \in MessagesFor(r) :
               Becomes(c, [Opened("normal") EXCEPT !.step = "sending", !.message = m])

(* handle_file_mode_input, a line of the file: "spaced" cannot be told from *)
(* "wrong" there.  A line keeps its newline, and the last field is no      *)
(* number with it; only the last line of a file may have none.             *)
LineRead(c, newline) ==
    [client[c] EXCEPT !.lines = @ + 1, !.at_end = ~newline]

TooMuch(c) ==
    \/ client[c].lines + 1 > MaxFileLines
    \/ client[c].sent > MaxRequestCount

CanRead(c) == client[c].step = "reading" /\ ~client[c].at_end

FailOnFile(c) ==
    /\ CanRead(c) /\ TooMuch(c)
    /\ Becomes(c, Closing)

IsSent(r, newline) == r.form = "fields" /\ ~newline

SkipLine(c, r, newline) ==
    /\ CanRead(c) /\ ~TooMuch(c)
    /\ ~IsSent(r, newline)
    /\ Becomes(c, LineRead(c, newline))

TakeLine(c, r, newline) ==
    /\ CanRead(c) /\ ~TooMuch(c)
    /\ IsSent(r, newline)
    /\ \E m \in MessagesFor(r) :
          Becomes(c, [LineRead(c, newline) EXCEPT
                        !.message = m, !.step = "sending"])

(* MUTANT of EndOfFile: a last line without newline is taken for one to be *)
(* continued                                                               *)
EndOfFileAfterNewline(c) ==
    /\ CanRead(c)
    /\ Becomes(c, Closing)

EndOfFile(c) ==
    /\ client[c].step = "reading"
    /\ Becomes(c, Closing)

(* mq_send, after the sleep *)
Send(c) ==
    LET q == client[c].queue
        counted == [client[c] EXCEPT !.sent = @ + 1, !.step = "reading",
                                     !.message = StopMessage]
    IN  /\ client[c].step = "sending"
        /\ Len(queues[q]) < QueueCapacity
        /\ queues' = [queues EXCEPT
              ![q] = Append(@, [client[c].message EXCEPT !.sent_in = opened])]
        /\ client' = [client EXCEPT
              ![c] = IF @.mode = "file" THEN counted ELSE Closing]
        /\ UNCHANGED <<confVars, opened, named, receiverVars>>

(* log_close: exit once the log's sender has sent all *)
Close(c) ==
    /\ client[c].step = "closing"
    /\ Becomes(c, NewClient)

IsRunning(c) == client[c].step \in {"reading", "sending", "closing"}

(* log_event or log_close never returns, as in WaitForLog *)
StickInLog(c) ==
    /\ IsRunning(c)
    /\ Becomes(c, [NewClient EXCEPT !.step = "stuck"])

--------------------------------------------------------------------------------

Receive ==
    ReceiveStop \/ RejectRequest \/ TakeRequest \/ AcceptRequest \/ CrashOnRequest

ServerStep ==
    \/ StartServer \/ ParseFiles \/ OpenQueue \/ Receive \/ CloseQueue \/ Die
    \/ WaitForQueue \/ WaitForLog

Launch(c) ==
    \/ OpenFile(c) \/ OpenToStop(c)
    \/ \E r \in Requests : OpenAndSend(c, r)

ReadFile(c) ==
    \/ FailOnFile(c) \/ EndOfFile(c)
    \/ \E r \in Requests, newline \in BOOLEAN :
          SkipLine(c, r, newline) \/ TakeLine(c, r, newline)

ClientStep(c) == Launch(c) \/ ReadFile(c) \/ Send(c) \/ Close(c) \/ StickInLog(c)

IntakeNext == ServerStep \/ \E c \in Clients : ClientStep(c)

IntakeSpec == IntakeInit /\ [][IntakeNext]_intakeVars

(* A receiver that waits for nothing in vain goes on, and so does a client *)
(* that is not stuck in the log; mq_send serves who waits for a full queue *)
(* in their order, so that nobody is passed by for ever.  Nobody need      *)
(* start a client or a server, and no server need die.                     *)
IntakeFairness ==
    /\ WF_<<queues, taken>>(Receive)
    /\ \A c \in Clients : WF_client(ReadFile(c) \/ Close(c)) /\ SF_client(Send(c))

FairIntakeSpec == IntakeSpec /\ IntakeFairness

--------------------------------------------------------------------------------
(* Properties *)

EmergencyType ==
    [name : STRING, priority : 0 .. MaxPriority, rescuers : Seq(RequestFields)]

AnyMessage ==
    [form : {"stop", "spaced"}, sent_in : 0 .. MaxQueues]
    \cup [form : {"fields"}, name : STRING, x : Int, y : Int, sent_in : 0 .. MaxQueues]

AnyClient ==
    [step : {"idle", "reading", "sending", "closing", "stuck"},
     mode : {"none", "normal", "file", "stop"}, queue : 0 .. MaxQueues,
     message : AnyMessage, lines : 0 .. MaxFileLines, sent : Nat, at_end : BOOLEAN]

(* Every variable has its type; a server never receives from a queue that  *)
(* was not opened; the receiver has at most one request in hand.           *)
IntakeTypeOK ==
    /\ stage \in Files \cup {"down", "request", "parsed", "receiving", "joining"}
    /\ line_number \in Nat /\ parsed_so_far \in Nat
    /\ env \in [queue : {"none", QueueName}, height : Int, width : Int]
    /\ rescuer_types \in Seq(RescuerFields)
    /\ emergency_types \in Seq(EmergencyType)
    /\ requests \in Seq(RequestFields)
    /\ opened \in 0 .. MaxQueues /\ named \in 0 .. MaxQueues
    /\ queues \in [1 .. MaxQueues -> Seq(AnyMessage)]
    /\ \A q \in 1 .. MaxQueues : Len(queues[q]) <= QueueCapacity
    /\ accepted \subseteq AnyMessage
    /\ taken \in Seq(AnyMessage) /\ Len(taken) <= 1
    /\ waits_for \in {"nothing", "waiting_queue", "log"}
    /\ client \in [Clients -> AnyClient]
    /\ stage = "receiving" => named # 0

(* The two tables of types stay in the arrays allocated for them: the      *)
(* rescuers' keeps its NULL, the emergency types' may lose it to the type  *)
(* that is one too many for its limit (parse_emergencies.c:12, :113).      *)
TablesStayInBounds ==
    /\ Len(rescuer_types) < RescuerSlots
    /\ Len(emergency_types) <= EmergencySlots

(* In a table a name stands for one entry. *)
NamesDiffer(table) ==
    \A i, j \in DOMAIN table : table[i].name = table[j].name => i = j

(* What a type of emergency asks for is there: each request names another  *)
(* type of rescuer of the table, one with as many rescuers.                *)
CanBeMet(table, asked) ==
    /\ \A i \in DOMAIN asked :
          /\ Holds(table, asked[i].name)
          /\ asked[i].count <= Entry(table, asked[i].name).amount
    /\ NamesDiffer(asked)

(* Whatever the files, the restarts and the clients, an emergency that the *)
(* receiver accepts has a type, and all the rescuers that type asks for    *)
(* exist at once, so that the search of a worker can succeed.              *)
AcceptedCanBeServed ==
    \A m \in accepted :
        /\ Holds(emergency_types, m.name)
        /\ CanBeMet(rescuer_types, Entry(emergency_types, m.name).rescuers)

IsSensibleRescuer(r) ==
    /\ r.amount >= 1 /\ r.speed >= 1
    /\ r.x \in 0 .. env.width /\ r.y \in 0 .. env.height

IsSensibleRequest(r) == r.count >= 1 /\ r.time >= 1

(* Whatever the files, a name stands for one entry of every table, so that *)
(* a lookup has one answer; and what the threads of the server take for    *)
(* granted, the assumptions of EmergencyServer, holds of every entry: the  *)
(* base of a rescuer is on the map the server runs with, a type has a      *)
(* rescuer, a rescuer moves, a request asks for somebody and for some time *)
(* (parse_rescuers.c:37-60, parse_emergencies.c:33-100).                   *)
TablesSuitTheServer ==
    /\ NamesDiffer(rescuer_types) /\ NamesDiffer(emergency_types)
    /\ \A i \in DOMAIN rescuer_types : IsSensibleRescuer(rescuer_types[i])
    /\ \A i \in DOMAIN emergency_types :
          \A k \in DOMAIN emergency_types[i].rescuers :
             IsSensibleRequest(emergency_types[i].rescuers[k])

(* A server takes only what was sent since it opened its queue: what a     *)
(* client sent to a server that stopped or died is not served by the next, *)
(* which no longer knows the types or the places it speaks of.             *)
FreshRequestsOnly ==
    [][\A q \in 1 .. MaxQueues :
          Len(queues'[q]) < Len(queues[q]) => Head(queues[q]).sent_in = opened]_intakeVars

(* A stop that is in the server's queue makes it leave its loop, whatever  *)
(* else is in the queue before it and comes after it, unless the receiver  *)
(* first waits in vain: for the mutex of waiting_queue, with a request     *)
(* that came before the stop in hand, or in log_event                      *)
(* (emergency_requests_reciever.c:13-37).                                  *)
StopIsObeyed ==
    (stage = "receiving" /\ \E i \in DOMAIN queues[named] : queues[named][i].form = "stop")
        ~> stage # "receiving" \/ waits_for # "nothing"

(* A queue nobody will read any more, or not before the next start *)
Unread(q) == q # named \/ ~Receiving

(* A client ends, unless it waits for a logger that is gone, or has to     *)
(* write into a full queue nobody reads: an old one, one of a server that  *)
(* stops, or one whose receiver waits in vain (client.c:46-48, :54, :89).  *)
ClientsFinish ==
    \A c \in Clients :
        IsRunning(c) ~>
            \/ client[c].step \in {"idle", "stuck"}
            \/ /\ client[c].step = "sending" /\ Unread(client[c].queue)
               /\ Len(queues[client[c].queue]) = QueueCapacity

--------------------------------------------------------------------------------
(* What the comments say and the code does not do. *)

(* parse_emergencies.c:52, "Numero massimo di rescuer richiesti per una    *)
(* sola emergenza superato": a type that asks for more kinds of rescuers   *)
(* than the limit, for which the array was allocated, is refused before    *)
(* the one too many is stored.                                             *)
RequestsFitTheArray == Len(requests) <= RequestSlots

=============================================================================
