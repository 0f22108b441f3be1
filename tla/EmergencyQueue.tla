---------------------------- MODULE EmergencyQueue ----------------------------
(***************************************************************************)
(* dependencies/emergency_priority_queue.c as operators: a queue is one    *)
(* FIFO list per priority and the flag is_empty, which the two ends of the *)
(* queue keep up to date each in its own way.  A list is the sequence of   *)
(* its nodes from head to tail.                                            *)
(***************************************************************************)
EXTENDS Integers, SequencesExt

MIN_PRIORITY    == 0
MEDIUM_PRIORITY == 1
MAX_PRIORITY    == 2
Priorities      == MIN_PRIORITY .. MAX_PRIORITY

(* mallocate_emergency_queue *)
EmptyQueue == [lists |-> [p \in Priorities |-> <<>>], is_empty |-> TRUE]

Nodes(q) == UNION {ToSet(q.lists[p]) : p \in Priorities}

(* remove_emergency_node_from_its_list *)
RemoveNode(q, n) == [q EXCEPT !.lists = [p \in Priorities |-> RemoveFirst(@[p], n)]]

AppendNode(q, n, p) == [q EXCEPT !.lists[p] = Append(@, n)]

(* MUTANT of EnqueueSignals: the flag is tested the other way round *)
SignalsWhenNotEmpty(q) == ~q.is_empty

(* enqueue_emergency_node: only the flag says whether to signal not_empty *)
EnqueueSignals(q) == q.is_empty

Enqueue(q, n, p) == [AppendNode(q, n, p) EXCEPT !.is_empty = FALSE]

(* dequeue_emergency_node: the head of the highest list that has one, and  *)
(* is_empty raised only when every list was found empty.                   *)
HasNode(q) == \E p \in Priorities : q.lists[p] # <<>>

Hottest(q) == CHOOSE p \in Priorities :
                 /\ q.lists[p] # <<>>
                 /\ \A r \in Priorities : q.lists[r] # <<>> => r <= p

First(q) == Head(q.lists[Hottest(q)])

(* MUTANT of Dequeue: the head is returned and left in its list *)
Peek(q) == [q EXCEPT !.is_empty = ~HasNode(q)]

Dequeue(q) == IF HasNode(q) THEN [q EXCEPT !.lists[Hottest(q)] = Tail(@)]
                            ELSE [q EXCEPT !.is_empty = TRUE]

(* change_node_priority_list *)
ChangePriority(q, n, p) == AppendNode(RemoveNode(q, n), n, p)

=============================================================================
