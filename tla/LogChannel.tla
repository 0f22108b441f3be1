------------------------------ MODULE LogChannel ------------------------------
(***************************************************************************)
(* What the log facility promises: every process owns a bounded FIFO of    *)
(* lines, all share one bounded queue to the logger, and the logger takes  *)
(* them in the order of the queue until somebody tells it to stop.  A      *)
(* process that ends takes along what it has not sent.                     *)
(***************************************************************************)
EXTENDS Integers, Sequences

CONSTANTS
    Processes,      \* those that log
    Lines, Stop,    \* what they log, and the message that ends the logger
    Capacity,       \* of the FIFO of a process
    QueueCapacity   \* of the queue

VARIABLES
    open,           \* the processes that still run
    pending,        \* of a process: the lines not sent yet, oldest first
    queue,          \* the lines sent, oldest first
    listening,      \* whether the logger is still there
    delivered       \* the lines it received

vars == <<open, pending, queue, listening, delivered>>

Init ==
    /\ open = Processes
    /\ pending = [p \in Processes |-> <<>>]
    /\ queue = <<>>
    /\ listening = TRUE /\ delivered = {}

Put(p, m) ==
    /\ p \in open
    /\ Len(pending[p]) < Capacity
    /\ pending' = [pending EXCEPT ![p] = Append(@, m)]
    /\ UNCHANGED <<open, queue, listening, delivered>>

Send(p) ==
    /\ p \in open
    /\ pending[p] # <<>> /\ Len(queue) < QueueCapacity
    /\ queue' = Append(queue, Head(pending[p]))
    /\ pending' = [pending EXCEPT ![p] = Tail(@)]
    /\ UNCHANGED <<open, listening, delivered>>

Receive ==
    /\ listening /\ queue # <<>>
    /\ queue' = Tail(queue)
    /\ IF Head(queue) = Stop
       THEN listening' = FALSE /\ UNCHANGED delivered
       ELSE delivered' = delivered \cup {Head(queue)} /\ UNCHANGED listening
    /\ UNCHANGED <<open, pending>>

Leave(p) ==
    /\ p \in open
    /\ open' = open \ {p}
    /\ pending' = [pending EXCEPT ![p] = <<>>]
    /\ UNCHANGED <<queue, listening, delivered>>

Next ==
    \/ \E p \in Processes :
          \/ \E m \in Lines \cup {Stop} : Put(p, m)
          \/ Send(p) \/ Leave(p)
    \/ Receive

Spec == Init /\ [][Next]_vars

=============================================================================
