------------------------------ MODULE LinkedLists ------------------------------
(***************************************************************************)
(* The pointers of dependencies/emergency_priority_queue.c: the lists of   *)
(* EmergencyLists as doubly linked nodes, each of which also points to its *)
(* list.  A function of the code is an operator from one memory to the     *)
(* next.                                                                   *)
(***************************************************************************)
EXTENDS EmergencyLists

VARIABLE memory

NULL == CHOOSE v : v \notin EmergencyNodes \cup ListNames

NodePointer == EmergencyNodes \cup {NULL}

Ends == [ListNames -> NodePointer]
Links == [EmergencyNodes -> NodePointer]

(* The members of emergency_list_t and emergency_node_t *)
Memory ==
    [head : Ends, tail : Ends, node_amount : [ListNames -> Int],
     prev : Links, next : Links,
     list : [EmergencyNodes -> ListNames \cup {NULL}]]

(* mallocate_emergency_list and mallocate_emergency_node *)
NewMemory ==
    [head |-> [l \in ListNames |-> NULL], tail |-> [l \in ListNames |-> NULL],
     node_amount |-> [l \in ListNames |-> 0],
     prev |-> [n \in EmergencyNodes |-> NULL], next |-> [n \in EmergencyNodes |-> NULL],
     list |-> [n \in EmergencyNodes |-> NULL]]

(* f with f[x] = y, unless x is NULL *)
Set(f, x, y) == IF x = NULL THEN f ELSE [f EXCEPT ![x] = y]

(* append_emergency_node: the old tail is looked at unless the list says   *)
(* that it has no nodes.                                                   *)
AppendEmergencyNode(m, l, n) ==
    LET last == IF m.node_amount[l] = 0 THEN NULL ELSE m.tail[l]
    IN  [head |-> IF m.node_amount[l] = 0 THEN Set(m.head, l, n) ELSE m.head,
         tail |-> Set(m.tail, l, n),
         node_amount |-> [m.node_amount EXCEPT ![l] = @ + 1],
         prev |-> Set(m.prev, n, last),
         next |-> Set(Set(m.next, last, n), n, NULL),
         list |-> Set(m.list, n, l)]

(* push_emergency_node *)
PushEmergencyNode(m, l, n) ==
    LET first == IF m.node_amount[l] = 0 THEN NULL ELSE m.head[l]
    IN  [head |-> Set(m.head, l, n),
         tail |-> IF m.node_amount[l] = 0 THEN Set(m.tail, l, n) ELSE m.tail,
         node_amount |-> [m.node_amount EXCEPT ![l] = @ + 1],
         prev |-> Set(Set(m.prev, first, n), n, NULL),
         next |-> Set(m.next, n, first),
         list |-> Set(m.list, n, l)]

(* remove_emergency_node_from_its_list: the ends of the list are told by   *)
(* the pointers of the node, and its pointer to the list stays.            *)
RemoveEmergencyNode(m, n) ==
    LET l == m.list[n]   before == m.prev[n]   after == m.next[n]
    IN  IF l = NULL THEN m
        ELSE [m EXCEPT !.head = IF before = NULL THEN Set(@, l, after) ELSE @,
                       !.tail = IF after = NULL THEN Set(@, l, before) ELSE @,
                       !.node_amount[l] = @ - 1,
                       !.prev = Set(Set(@, after, before), n, NULL),
                       !.next = Set(Set(@, before, after), n, NULL)]

ChangeListAppend(m, n, l) == AppendEmergencyNode(RemoveEmergencyNode(m, n), l, n)

ChangeListPush(m, n, l) == PushEmergencyNode(RemoveEmergencyNode(m, n), l, n)

DecapitateList(m, l) == IF m.node_amount[l] = 0 THEN m ELSE RemoveEmergencyNode(m, m.head[l])

(* The calls that EmergencyLists allows, each with what it does to memory *)
PointersInit == Init /\ memory = NewMemory

PointersNext ==
    \/ \E l \in ListNames : Decapitate(l) /\ memory' = DecapitateList(memory, l)
    \/ \E l \in ListNames : \E n \in EmergencyNodes :
          Link(n, l) /\ memory' = AppendEmergencyNode(memory, l, n)
    \/ \E from, to \in ListNames : \E n \in ToSet(lists[from]) :
          \/ MoveToEnd(n, from, to) /\ memory' = ChangeListAppend(memory, n, to)
          \/ MoveToFront(n, from, to) /\ memory' = ChangeListPush(memory, n, to)

PointersSpec == PointersInit /\ [][PointersNext]_<<lists, memory>>

--------------------------------------------------------------------------------

(* The list l of the memory is the sequence s. *)
Represents(m, l, s) ==
    /\ m.node_amount[l] = Len(s)
    /\ m.head[l] = IF s = <<>> THEN NULL ELSE s[1]
    /\ m.tail[l] = IF s = <<>> THEN NULL ELSE s[Len(s)]
    /\ \A i \in DOMAIN s :
          /\ m.list[s[i]] = l
          /\ m.prev[s[i]] = IF i = 1 THEN NULL ELSE s[i - 1]
          /\ m.next[s[i]] = IF i = Len(s) THEN NULL ELSE s[i + 1]

(* The memory holds the lists f: whoever follows the pointers of the code  *)
(* meets the nodes of each list in their order, both ways.                 *)
Holds(m, f) ==
    /\ m \in Memory
    /\ f \in [ListNames -> Seq(EmergencyNodes)]
    /\ \A l \in ListNames : IsInjective(f[l]) /\ Represents(m, l, f[l])

(* A node of no list of f *)
Free(f, n) == \A l \in ListNames : n \notin ToSet(f[l])

=============================================================================
