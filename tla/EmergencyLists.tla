----------------------------- MODULE EmergencyLists -----------------------------
(***************************************************************************)
(* What dependencies/emergency_priority_queue.c asks of those who call its *)
(* list functions, and what it gives them.  A node that is put in a list   *)
(* is in none; a node that changes list is in the one it is taken from:    *)
(* remove_emergency_node_from_its_list does not ask, and node->list stays  *)
(* when a node leaves.  LinkedLists has the pointers behind the sequences. *)
(***************************************************************************)
EXTENDS Integers, SequencesExt

CONSTANTS EmergencyNodes, ListNames

VARIABLE lists              \* the nodes of each list, from head to tail

Linked(n) == \E l \in ListNames : Contains(lists[l], n)

Init == lists = [l \in ListNames |-> <<>>]

(* append_emergency_node, of a node that is new or was decapitated *)
Link(n, l) ==
    /\ ~Linked(n)
    /\ lists' = [lists EXCEPT ![l] = Append(@, n)]

(* decapitate_emergency_list *)
Decapitate(l) ==
    /\ lists[l] # <<>>
    /\ lists' = [lists EXCEPT ![l] = Tail(@)]

Without(n, l) == [lists EXCEPT ![l] = RemoveFirst(@, n)]

(* change_emergency_node_list_append, also within a queue *)
MoveToEnd(n, from, to) ==
    lists' = [Without(n, from) EXCEPT ![to] = Append(@, n)]

(* change_emergency_node_list_push *)
MoveToFront(n, from, to) ==
    lists' = [Without(n, from) EXCEPT ![to] = <<n>> \o @]

Next ==
    /\ lists' # lists
    /\ \/ \E l \in ListNames : Decapitate(l)
       \/ \E l \in ListNames : \E n \in EmergencyNodes : Link(n, l)
       \/ \E from, to \in ListNames : \E n \in ToSet(lists[from]) :
             MoveToEnd(n, from, to) \/ MoveToFront(n, from, to)

Spec == Init /\ [][Next]_lists

=============================================================================
