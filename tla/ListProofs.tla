------------------------------ MODULE ListProofs ------------------------------
(***************************************************************************)
(* The list functions of emergency_priority_queue.c, called as             *)
(* EmergencyLists says, keep doubly linked lists, for any number of nodes  *)
(* and lists: what the pointers hold are the sequences of EmergencyLists.  *)
(***************************************************************************)
EXTENDS LinkedLists, SequenceTheorems, TLAPS

LEMMA NullIsNothing == NULL \notin EmergencyNodes \cup ListNames
<1>1. \E v : v \notin EmergencyNodes \cup ListNames
  BY NoSetContainsEverything
<1> QED  BY <1>1, Zenon DEF NULL

--------------------------------------------------------------------------------
(* Sequences. *)

(* Where the nodes of a list are after one of them has left *)
LEMMA RemovedAt ==
    ASSUME NEW S, NEW s \in Seq(S), IsInjective(s), NEW k \in DOMAIN s
    PROVE  LET r == RemoveFirst(s, s[k])
           IN  /\ r \in Seq(S) /\ Len(r) = Len(s) - 1 /\ DOMAIN r = 1 .. Len(s) - 1
               /\ \A i \in 1 .. Len(s) - 1 : r[i] = IF i < k THEN s[i] ELSE s[i + 1]
<1> DEFINE r == RemoveFirst(s, s[k])
           a == SubSeq(s, 1, k - 1)
           b == SubSeq(s, k + 1, Len(s))
<1>1. /\ DOMAIN s = 1 .. Len(s) /\ Len(s) \in Nat
      /\ k \in Nat \ {0} /\ k <= Len(s)
  OBVIOUS
<1>2. {i \in 1 .. Len(s) : s[i] = s[k]} = {k}
  BY <1>1 DEF IsInjective
<1>3. Min({k}) = k
  BY <1>1 DEF Min
<1>4. {i \in 1 .. Len(s) : s[i] = s[k]} # {}
  BY <1>2
<1>5. SelectInSeq(s, LAMBDA v : v = s[k]) = k
  BY <1>2, <1>3, <1>4, Zenon DEF SelectInSeq
<1>6. r = a \o b
  BY <1>1, <1>5 DEF RemoveFirst, RemoveAt
<1>7. /\ a \in Seq(S) /\ Len(a) = k - 1
      /\ \A i \in 1 .. k - 1 : a[i] = s[i]
  <2>1. \A i \in 1 .. k - 1 : s[i] \in S
    BY <1>1
  <2>2. /\ a \in Seq(S)
        /\ Len(a) = IF 1 <= k - 1 THEN k - 1 - 1 + 1 ELSE 0
        /\ \A i \in 1 .. k - 1 - 1 + 1 : a[i] = s[1 + i - 1]
    BY <1>1, <2>1, SubSeqProperties
  <2> HIDE DEF a
  <2> QED  BY <1>1, <2>2
<1>8. /\ b \in Seq(S) /\ Len(b) = Len(s) - k
      /\ \A i \in 1 .. Len(s) - k : b[i] = s[k + i]
  <2>1. \A i \in k + 1 .. Len(s) : s[i] \in S
    BY <1>1
  <2>2. /\ b \in Seq(S)
        /\ Len(b) = IF k + 1 <= Len(s) THEN Len(s) - (k + 1) + 1 ELSE 0
        /\ \A i \in 1 .. Len(s) - (k + 1) + 1 : b[i] = s[(k + 1) + i - 1]
    BY <1>1, <2>1, SubSeqProperties
  <2> HIDE DEF b
  <2>3. Len(b) = Len(s) - k
    BY <1>1, <2>2
  <2>4. ASSUME NEW i \in 1 .. Len(s) - k PROVE b[i] = s[k + i]
    <3>1. i \in 1 .. Len(s) - (k + 1) + 1 /\ (k + 1) + i - 1 = k + i
      BY <1>1
    <3> QED  BY <2>2, <3>1
  <2> QED  BY <2>2, <2>3, <2>4
<1> HIDE DEF a, b, r
<1>9. /\ r \in Seq(S) /\ Len(r) = Len(a) + Len(b)
      /\ \A i \in 1 .. Len(a) + Len(b) : r[i] = IF i <= Len(a) THEN a[i] ELSE b[i - Len(a)]
  BY <1>6, <1>7, <1>8, ConcatProperties
<1>10. Len(a) + Len(b) = Len(s) - 1
  BY <1>1, <1>7, <1>8
<1>11. ASSUME NEW i \in 1 .. Len(s) - 1 PROVE r[i] = IF i < k THEN s[i] ELSE s[i + 1]
  <2>1. i \in Nat \ {0} /\ i <= Len(s) - 1
    BY <1>1
  <2>2. r[i] = IF i <= k - 1 THEN a[i] ELSE b[i - (k - 1)]
    BY <1>7, <1>9, <1>10
  <2>3. CASE i < k
    BY <1>1, <1>7, <2>1, <2>2, <2>3
  <2>4. CASE ~(i < k)
    <3>1. i - (k - 1) \in 1 .. Len(s) - k /\ k + (i - (k - 1)) = i + 1 /\ ~(i <= k - 1)
      BY <1>1, <2>1, <2>4
    <3> QED  BY <1>8, <2>2, <2>4, <3>1
  <2> QED  BY <2>3, <2>4
<1>12. DOMAIN r = 1 .. Len(s) - 1
  BY <1>9, <1>10
<1> QED  BY <1>9, <1>10, <1>11, <1>12 DEF r

(* So it is in the list no more, and all others still are, once each. *)
LEMMA RemovedNodes ==
    ASSUME NEW S, NEW s \in Seq(S), IsInjective(s), NEW n \in ToSet(s)
    PROVE  /\ IsInjective(RemoveFirst(s, n))
           /\ ToSet(RemoveFirst(s, n)) \subseteq ToSet(s) \ {n}
<1>1. PICK k \in DOMAIN s : s[k] = n
  BY DEF ToSet
<1> DEFINE r == RemoveFirst(s, n)
<1>2. /\ DOMAIN r = 1 .. Len(s) - 1
      /\ \A i \in 1 .. Len(s) - 1 : r[i] = IF i < k THEN s[i] ELSE s[i + 1]
  BY <1>1, RemovedAt
<1>3. DOMAIN s = 1 .. Len(s) /\ Len(s) \in Nat
  OBVIOUS
<1> HIDE DEF r
<1> DEFINE old(i) == IF i < k THEN i ELSE i + 1
<1>4. \A i \in DOMAIN r : i \in Int /\ old(i) \in DOMAIN s /\ old(i) # k /\ r[i] = s[old(i)]
  BY <1>2, <1>3
<1>5. ASSUME NEW i \in DOMAIN r, NEW j \in DOMAIN r, r[i] = r[j] PROVE i = j
  <2>1. old(i) = old(j)
    BY <1>4, <1>5 DEF IsInjective
  <2> QED  BY <1>4, <2>1
<1>6. ASSUME NEW i \in DOMAIN r PROVE r[i] \in ToSet(s) \ {n}
  BY <1>1, <1>4 DEF ToSet, IsInjective
<1>7. IsInjective(r)
  BY <1>5 DEF IsInjective
<1>8. ToSet(r) \subseteq ToSet(s) \ {n}
  BY <1>6 DEF ToSet
<1> QED  BY <1>7, <1>8 DEF r

LEMMA AppendedNode ==
    ASSUME NEW S, NEW s \in Seq(S), IsInjective(s), NEW n \in S, n \notin ToSet(s)
    PROVE  LET r == Append(s, n)
           IN  /\ r \in Seq(S) /\ Len(r) = Len(s) + 1 /\ DOMAIN r = 1 .. Len(s) + 1
               /\ IsInjective(r) /\ r # <<>> /\ r[Len(s) + 1] = n
               /\ \A i \in 1 .. Len(s) : r[i] = s[i]
<1> DEFINE r == Append(s, n)
<1>1. /\ r \in Seq(S) /\ Len(r) = Len(s) + 1 /\ DOMAIN r = 1 .. Len(s) + 1
      /\ r[Len(s) + 1] = n /\ Len(s) \in Nat /\ DOMAIN s = 1 .. Len(s)
      /\ \A i \in 1 .. Len(s) : r[i] = s[i]
  OBVIOUS
<1> HIDE DEF r
<1>2. \A i \in 1 .. Len(s) : r[i] # n
  BY <1>1 DEF ToSet
<1>3. IsInjective(r)
  <2> SUFFICES ASSUME NEW i \in DOMAIN r, NEW j \in DOMAIN r, r[i] = r[j] PROVE i = j
    BY DEF IsInjective
  <2>1. CASE i \in 1 .. Len(s) /\ j \in 1 .. Len(s)
    BY <1>1, <2>1 DEF IsInjective
  <2> QED  BY <1>1, <1>2, <2>1
<1>4. r # <<>>
  BY <1>1
<1> QED  BY <1>1, <1>3, <1>4 DEF r

LEMMA PushedNode ==
    ASSUME NEW S, NEW s \in Seq(S), IsInjective(s), NEW n \in S, n \notin ToSet(s)
    PROVE  LET r == <<n>> \o s
           IN  /\ r \in Seq(S) /\ Len(r) = Len(s) + 1 /\ DOMAIN r = 1 .. Len(s) + 1
               /\ IsInjective(r) /\ r # <<>> /\ r[1] = n
               /\ \A i \in 1 .. Len(s) : r[i + 1] = s[i]
<1> DEFINE r == <<n>> \o s
<1>1. /\ r \in Seq(S) /\ Len(r) = Len(s) + 1 /\ DOMAIN r = 1 .. Len(s) + 1
      /\ r[1] = n /\ Len(s) \in Nat /\ DOMAIN s = 1 .. Len(s)
      /\ \A i \in 1 .. Len(s) : r[i + 1] = s[i]
  <2>1. <<n>> \in Seq(S) /\ Len(<<n>>) = 1 /\ <<n>>[1] = n
    OBVIOUS
  <2>2. /\ r \in Seq(S) /\ Len(r) = 1 + Len(s)
        /\ \A i \in 1 .. 1 + Len(s) : r[i] = IF i <= 1 THEN <<n>>[i] ELSE s[i - 1]
    BY <2>1, ConcatProperties
  <2> HIDE DEF r
  <2>3. Len(s) \in Nat /\ DOMAIN s = 1 .. Len(s)
    OBVIOUS
  <2>4. \A i \in 1 .. Len(s) : r[i + 1] = s[i]
    BY <2>2, <2>3
  <2> QED  BY <2>1, <2>2, <2>3, <2>4
<1> HIDE DEF r
<1>2. \A i \in 1 .. Len(s) : s[i] # n
  BY <1>1 DEF ToSet
<1>3. IsInjective(r)
  <2> SUFFICES ASSUME NEW i \in DOMAIN r, NEW j \in DOMAIN r, r[i] = r[j] PROVE i = j
    BY DEF IsInjective
  <2>1. \A k \in DOMAIN r : k = 1 \/ (k - 1 \in DOMAIN s /\ r[k] = s[k - 1])
    <3> TAKE k \in DOMAIN r
    <3>1. CASE k # 1
      <4>1. k - 1 \in 1 .. Len(s) /\ (k - 1) + 1 = k
        BY <1>1, <3>1
      <4> QED  BY <1>1, <4>1
    <3> QED  BY <3>1
  <2>2. CASE i # 1 /\ j # 1
    <3>1. i - 1 = j - 1
      BY <2>1, <2>2 DEF IsInjective
    <3> QED  BY <1>1, <3>1
  <2> QED  BY <1>1, <1>2, <2>1, <2>2
<1>4. r # <<>>
  BY <1>1
<1> QED  BY <1>1, <1>3, <1>4 DEF r

--------------------------------------------------------------------------------
(* Pointers. *)

LEMMA SetInLists ==
    ASSUME NEW f \in Ends, NEW l \in ListNames, NEW y \in NodePointer
    PROVE  /\ Set(f, l, y) \in Ends
           /\ \A k \in ListNames : Set(f, l, y)[k] = IF k = l THEN y ELSE f[k]
BY NullIsNothing DEF Set, Ends

LEMMA SetInNodes ==
    ASSUME NEW f \in Links, NEW n \in NodePointer,
           NEW y \in NodePointer
    PROVE  /\ Set(f, n, y) \in Links
           /\ \A x \in EmergencyNodes : Set(f, n, y)[x] = IF x = n THEN y ELSE f[x]
BY NullIsNothing DEF Set, Links, NodePointer

LEMMA SetList ==
    ASSUME NEW f \in [EmergencyNodes -> ListNames \cup {NULL}], NEW n \in EmergencyNodes,
           NEW l \in ListNames
    PROVE  /\ Set(f, n, l) \in [EmergencyNodes -> ListNames \cup {NULL}]
           /\ \A x \in EmergencyNodes : Set(f, n, l)[x] = IF x = n THEN l ELSE f[x]
BY NullIsNothing DEF Set

LEMMA SetTwice ==
    ASSUME NEW f \in Links, NEW n \in EmergencyNodes,
           NEW a \in NodePointer, NEW b \in NodePointer
    PROVE  /\ Set(Set(f, a, b), n, NULL) \in Links
           /\ \A x \in EmergencyNodes :
                 Set(Set(f, a, b), n, NULL)[x] =
                    IF x = n THEN NULL ELSE IF x = a THEN b ELSE f[x]
<1> DEFINE g == Set(f, a, b)
<1>1. n \in NodePointer /\ NULL \in NodePointer
  BY DEF NodePointer
<1>2. /\ g \in Links
      /\ \A x \in EmergencyNodes : g[x] = IF x = a THEN b ELSE f[x]
  BY SetInNodes
<1> HIDE DEF g
<1>3. /\ Set(g, n, NULL) \in Links
      /\ \A x \in EmergencyNodes : Set(g, n, NULL)[x] = IF x = n THEN NULL ELSE g[x]
  BY <1>1, <1>2, SetInNodes
<1>4. /\ Set(g, n, NULL) \in Links
      /\ \A x \in EmergencyNodes :
            Set(g, n, NULL)[x] = IF x = n THEN NULL ELSE IF x = a THEN b ELSE f[x]
  BY <1>2, <1>3
<1> QED  BY <1>4 DEF g

(* What each pointer is after an append, a push and a removal *)
LEMMA AppendPointers ==
    ASSUME NEW m \in Memory, NEW l \in ListNames, NEW n \in EmergencyNodes
    PROVE  LET o == AppendEmergencyNode(m, l, n)
               last == IF m.node_amount[l] = 0 THEN NULL ELSE m.tail[l]
           IN  /\ o \in Memory
               /\ \A k \in ListNames :
                     /\ o.head[k] = IF k = l /\ m.node_amount[l] = 0 THEN n ELSE m.head[k]
                     /\ o.tail[k] = IF k = l THEN n ELSE m.tail[k]
                     /\ o.node_amount[k] = IF k = l THEN m.node_amount[k] + 1
                                           ELSE m.node_amount[k]
               /\ \A x \in EmergencyNodes :
                     /\ o.prev[x] = IF x = n THEN last ELSE m.prev[x]
                     /\ o.next[x] = IF x = n THEN NULL ELSE IF x = last THEN n ELSE m.next[x]
                     /\ o.list[x] = IF x = n THEN l ELSE m.list[x]
<1>o. PICK o : o = AppendEmergencyNode(m, l, n)
  OBVIOUS
<1>last. PICK last : last = IF m.node_amount[l] = 0 THEN NULL ELSE m.tail[l]
  OBVIOUS
<1>1. /\ m.head \in Ends /\ m.tail \in Ends
      /\ m.prev \in Links /\ m.next \in Links
  BY DEF Memory
<1>2. /\ m.node_amount \in [ListNames -> Int]
      /\ m.list \in [EmergencyNodes -> ListNames \cup {NULL}]
  BY DEF Memory
<1>3. last \in NodePointer /\ n \in NodePointer
  BY <1>1, <1>last DEF NodePointer, Ends, Links
<1>head. o.head = IF m.node_amount[l] = 0 THEN Set(m.head, l, n) ELSE m.head
  BY <1>o, <1>last DEF AppendEmergencyNode
<1>tail. o.tail = Set(m.tail, l, n)
  BY <1>o, <1>last DEF AppendEmergencyNode
<1>amount. o.node_amount = [m.node_amount EXCEPT ![l] = @ + 1]
  BY <1>o, <1>last DEF AppendEmergencyNode
<1>prev. o.prev = Set(m.prev, n, last)
  BY <1>o, <1>last DEF AppendEmergencyNode
<1>next. o.next = Set(Set(m.next, last, n), n, NULL)
  BY <1>o, <1>last DEF AppendEmergencyNode
<1>list. o.list = Set(m.list, n, l)
  BY <1>o, <1>last DEF AppendEmergencyNode
<1>record. o = [head |-> o.head, tail |-> o.tail, node_amount |-> o.node_amount,
           prev |-> o.prev, next |-> o.next, list |-> o.list]
  BY <1>o, <1>last DEF AppendEmergencyNode
<1>6. /\ o.head \in Ends
      /\ \A k \in ListNames :
            o.head[k] = IF k = l /\ m.node_amount[l] = 0 THEN n ELSE m.head[k]
  <2>1. CASE m.node_amount[l] = 0
    BY <1>1, <1>3, <1>head, <2>1, SetInLists
  <2>2. CASE ~(m.node_amount[l] = 0)
    BY <1>1, <1>head, <2>2
  <2> QED  BY <2>1, <2>2
<1>7. /\ o.tail \in Ends
      /\ \A k \in ListNames : o.tail[k] = IF k = l THEN n ELSE m.tail[k]
  BY <1>1, <1>3, <1>tail, SetInLists
<1>8. /\ o.node_amount \in [ListNames -> Int]
      /\ \A k \in ListNames : o.node_amount[k] = IF k = l THEN m.node_amount[k] + 1
                                                 ELSE m.node_amount[k]
  BY <1>2, <1>amount
<1>9. /\ o.prev \in Links
      /\ \A x \in EmergencyNodes : o.prev[x] = IF x = n THEN last ELSE m.prev[x]
  <2>1. /\ Set(m.prev, n, last) \in Links
        /\ \A x \in EmergencyNodes :
              Set(m.prev, n, last)[x] = IF x = n THEN last ELSE m.prev[x]
    BY <1>1, <1>3, SetInNodes
  <2> QED  BY <1>prev, <2>1
<1>10. /\ o.next \in Links
       /\ \A x \in EmergencyNodes :
             o.next[x] = IF x = n THEN NULL ELSE IF x = last THEN n ELSE m.next[x]
  <2>1. /\ Set(Set(m.next, last, n), n, NULL) \in Links
        /\ \A x \in EmergencyNodes :
              Set(Set(m.next, last, n), n, NULL)[x] =
                 IF x = n THEN NULL ELSE IF x = last THEN n ELSE m.next[x]
    BY <1>1, <1>3, SetTwice
  <2> QED  BY <1>next, <2>1
<1>11. /\ o.list \in [EmergencyNodes -> ListNames \cup {NULL}]
       /\ \A x \in EmergencyNodes : o.list[x] = IF x = n THEN l ELSE m.list[x]
  BY <1>1, <1>2, <1>list, SetList
<1>12. o \in Memory
  BY <1>record, <1>6, <1>7, <1>8, <1>9, <1>10, <1>11 DEF Memory
<1> QED  BY <1>6, <1>7, <1>8, <1>9, <1>10, <1>11, <1>12, <1>o, <1>last

LEMMA PushPointers ==
    ASSUME NEW m \in Memory, NEW l \in ListNames, NEW n \in EmergencyNodes
    PROVE  LET o == PushEmergencyNode(m, l, n)
               first == IF m.node_amount[l] = 0 THEN NULL ELSE m.head[l]
           IN  /\ o \in Memory
               /\ \A k \in ListNames :
                     /\ o.head[k] = IF k = l THEN n ELSE m.head[k]
                     /\ o.tail[k] = IF k = l /\ m.node_amount[l] = 0 THEN n ELSE m.tail[k]
                     /\ o.node_amount[k] = IF k = l THEN m.node_amount[k] + 1
                                           ELSE m.node_amount[k]
               /\ \A x \in EmergencyNodes :
                     /\ o.prev[x] = IF x = n THEN NULL ELSE IF x = first THEN n ELSE m.prev[x]
                     /\ o.next[x] = IF x = n THEN first ELSE m.next[x]
                     /\ o.list[x] = IF x = n THEN l ELSE m.list[x]
<1>o. PICK o : o = PushEmergencyNode(m, l, n)
  OBVIOUS
<1>first. PICK first : first = IF m.node_amount[l] = 0 THEN NULL ELSE m.head[l]
  OBVIOUS
<1>1. /\ m.head \in Ends /\ m.tail \in Ends
      /\ m.prev \in Links /\ m.next \in Links
  BY DEF Memory
<1>2. /\ m.node_amount \in [ListNames -> Int]
      /\ m.list \in [EmergencyNodes -> ListNames \cup {NULL}]
  BY DEF Memory
<1>3. first \in NodePointer /\ n \in NodePointer
  BY <1>1, <1>first DEF NodePointer, Ends, Links
<1>head. o.head = Set(m.head, l, n)
  BY <1>o, <1>first DEF PushEmergencyNode
<1>tail. o.tail = IF m.node_amount[l] = 0 THEN Set(m.tail, l, n) ELSE m.tail
  BY <1>o, <1>first DEF PushEmergencyNode
<1>amount. o.node_amount = [m.node_amount EXCEPT ![l] = @ + 1]
  BY <1>o, <1>first DEF PushEmergencyNode
<1>prev. o.prev = Set(Set(m.prev, first, n), n, NULL)
  BY <1>o, <1>first DEF PushEmergencyNode
<1>next. o.next = Set(m.next, n, first)
  BY <1>o, <1>first DEF PushEmergencyNode
<1>list. o.list = Set(m.list, n, l)
  BY <1>o, <1>first DEF PushEmergencyNode
<1>record. o = [head |-> o.head, tail |-> o.tail, node_amount |-> o.node_amount,
           prev |-> o.prev, next |-> o.next, list |-> o.list]
  BY <1>o, <1>first DEF PushEmergencyNode
<1>6. /\ o.head \in Ends
      /\ \A k \in ListNames : o.head[k] = IF k = l THEN n ELSE m.head[k]
  BY <1>1, <1>3, <1>head, SetInLists
<1>7. /\ o.tail \in Ends
      /\ \A k \in ListNames :
            o.tail[k] = IF k = l /\ m.node_amount[l] = 0 THEN n ELSE m.tail[k]
  <2>1. CASE m.node_amount[l] = 0
    BY <1>1, <1>3, <1>tail, <2>1, SetInLists
  <2>2. CASE ~(m.node_amount[l] = 0)
    BY <1>1, <1>tail, <2>2
  <2> QED  BY <2>1, <2>2
<1>8. /\ o.node_amount \in [ListNames -> Int]
      /\ \A k \in ListNames : o.node_amount[k] = IF k = l THEN m.node_amount[k] + 1
                                                 ELSE m.node_amount[k]
  BY <1>2, <1>amount
<1>9. /\ o.prev \in Links
      /\ \A x \in EmergencyNodes :
            o.prev[x] = IF x = n THEN NULL ELSE IF x = first THEN n ELSE m.prev[x]
  <2>1. /\ Set(Set(m.prev, first, n), n, NULL) \in Links
        /\ \A x \in EmergencyNodes :
              Set(Set(m.prev, first, n), n, NULL)[x] =
                 IF x = n THEN NULL ELSE IF x = first THEN n ELSE m.prev[x]
    BY <1>1, <1>3, SetTwice
  <2> QED  BY <1>prev, <2>1
<1>10. /\ o.next \in Links
       /\ \A x \in EmergencyNodes : o.next[x] = IF x = n THEN first ELSE m.next[x]
  <2>1. /\ Set(m.next, n, first) \in Links
        /\ \A x \in EmergencyNodes :
              Set(m.next, n, first)[x] = IF x = n THEN first ELSE m.next[x]
    BY <1>1, <1>3, SetInNodes
  <2> QED  BY <1>next, <2>1
<1>11. /\ o.list \in [EmergencyNodes -> ListNames \cup {NULL}]
       /\ \A x \in EmergencyNodes : o.list[x] = IF x = n THEN l ELSE m.list[x]
  BY <1>1, <1>2, <1>list, SetList
<1>12. o \in Memory
  BY <1>record, <1>6, <1>7, <1>8, <1>9, <1>10, <1>11 DEF Memory
<1> QED  BY <1>6, <1>7, <1>8, <1>9, <1>10, <1>11, <1>12, <1>o, <1>first

LEMMA RemovePointers ==
    ASSUME NEW m \in Memory, NEW n \in EmergencyNodes, m.list[n] \in ListNames
    PROVE  LET o == RemoveEmergencyNode(m, n)
               l == m.list[n]   before == m.prev[n]   after == m.next[n]
           IN  /\ o \in Memory
               /\ \A k \in ListNames :
                     /\ o.head[k] = IF k = l /\ before = NULL THEN after ELSE m.head[k]
                     /\ o.tail[k] = IF k = l /\ after = NULL THEN before ELSE m.tail[k]
                     /\ o.node_amount[k] = IF k = l THEN m.node_amount[k] - 1
                                           ELSE m.node_amount[k]
               /\ \A x \in EmergencyNodes :
                     /\ o.prev[x] = IF x = n THEN NULL ELSE IF x = after THEN before
                                    ELSE m.prev[x]
                     /\ o.next[x] = IF x = n THEN NULL ELSE IF x = before THEN after
                                    ELSE m.next[x]
                     /\ o.list[x] = m.list[x]
<1>o. PICK o : o = RemoveEmergencyNode(m, n)
  OBVIOUS
<1>l. PICK l \in ListNames : l = m.list[n]
  OBVIOUS
<1>before. PICK before \in NodePointer : before = m.prev[n]
  BY DEF Memory, Links
<1>after. PICK after \in NodePointer : after = m.next[n]
  BY DEF Memory, Links
<1>1. /\ m.head \in Ends /\ m.tail \in Ends
      /\ m.prev \in Links /\ m.next \in Links
  BY DEF Memory
<1>2. /\ m.node_amount \in [ListNames -> Int]
      /\ m.list \in [EmergencyNodes -> ListNames \cup {NULL}]
      /\ m = [head |-> m.head, tail |-> m.tail, node_amount |-> m.node_amount,
              prev |-> m.prev, next |-> m.next, list |-> m.list]
  BY DEF Memory
<1>head. o.head = IF before = NULL THEN Set(m.head, l, after) ELSE m.head
  BY <1>2, <1>o, <1>l, <1>before, <1>after, NullIsNothing DEF RemoveEmergencyNode
<1>tail. o.tail = IF after = NULL THEN Set(m.tail, l, before) ELSE m.tail
  BY <1>2, <1>o, <1>l, <1>before, <1>after, NullIsNothing DEF RemoveEmergencyNode
<1>amount. o.node_amount = [m.node_amount EXCEPT ![l] = @ - 1]
  BY <1>2, <1>o, <1>l, <1>before, <1>after, NullIsNothing DEF RemoveEmergencyNode
<1>prev. o.prev = Set(Set(m.prev, after, before), n, NULL)
  BY <1>2, <1>o, <1>l, <1>before, <1>after, NullIsNothing DEF RemoveEmergencyNode
<1>next. o.next = Set(Set(m.next, before, after), n, NULL)
  BY <1>2, <1>o, <1>l, <1>before, <1>after, NullIsNothing DEF RemoveEmergencyNode
<1>list. o.list = m.list
  BY <1>2, <1>o, <1>l, <1>before, <1>after, NullIsNothing DEF RemoveEmergencyNode
<1>record. o = [head |-> o.head, tail |-> o.tail, node_amount |-> o.node_amount,
              prev |-> o.prev, next |-> o.next, list |-> o.list]
  BY <1>2, <1>o, <1>l, <1>before, <1>after, NullIsNothing DEF RemoveEmergencyNode
<1>6. /\ o.head \in Ends
      /\ \A k \in ListNames : o.head[k] = IF k = l /\ before = NULL THEN after ELSE m.head[k]
  <2> PICK f \in Ends : f = m.head
    BY <1>1
  <2>1. /\ Set(f, l, after) \in Ends
        /\ \A k \in ListNames : Set(f, l, after)[k] = IF k = l THEN after ELSE f[k]
    BY NullIsNothing DEF Set, Ends
  <2>2. CASE before = NULL
    BY <1>head, <2>1, <2>2
  <2>3. CASE before # NULL
    BY <1>1, <1>head, <2>3
  <2> QED  BY <2>2, <2>3
<1>7. /\ o.tail \in Ends
      /\ \A k \in ListNames : o.tail[k] = IF k = l /\ after = NULL THEN before ELSE m.tail[k]
  <2> PICK f \in Ends : f = m.tail
    BY <1>1
  <2>1. /\ Set(f, l, before) \in Ends
        /\ \A k \in ListNames : Set(f, l, before)[k] = IF k = l THEN before ELSE f[k]
    BY NullIsNothing DEF Set, Ends
  <2>2. CASE after = NULL
    BY <1>tail, <2>1, <2>2
  <2>3. CASE after # NULL
    BY <1>1, <1>tail, <2>3
  <2> QED  BY <2>2, <2>3
<1>8. /\ o.node_amount \in [ListNames -> Int]
      /\ \A k \in ListNames : o.node_amount[k] = IF k = l THEN m.node_amount[k] - 1
                                                 ELSE m.node_amount[k]
  BY <1>2, <1>amount
<1>9. /\ o.prev \in Links
      /\ \A x \in EmergencyNodes :
            o.prev[x] = IF x = n THEN NULL ELSE IF x = after THEN before ELSE m.prev[x]
  <2>1. /\ Set(Set(m.prev, after, before), n, NULL) \in Links
        /\ \A x \in EmergencyNodes :
              Set(Set(m.prev, after, before), n, NULL)[x] =
                 IF x = n THEN NULL ELSE IF x = after THEN before ELSE m.prev[x]
    BY <1>1, SetTwice
  <2> QED  BY <1>prev, <2>1
<1>10. /\ o.next \in Links
       /\ \A x \in EmergencyNodes :
             o.next[x] = IF x = n THEN NULL ELSE IF x = before THEN after ELSE m.next[x]
  <2>1. /\ Set(Set(m.next, before, after), n, NULL) \in Links
        /\ \A x \in EmergencyNodes :
              Set(Set(m.next, before, after), n, NULL)[x] =
                 IF x = n THEN NULL ELSE IF x = before THEN after ELSE m.next[x]
    BY <1>1, SetTwice
  <2> QED  BY <1>next, <2>1
<1>11. o \in Memory
  BY <1>2, <1>list, <1>record, <1>6, <1>7, <1>8, <1>9, <1>10 DEF Memory
<1> QED  BY <1>list, <1>6, <1>7, <1>8, <1>9, <1>10, <1>11, <1>o, <1>l, <1>before, <1>after

--------------------------------------------------------------------------------
(* Lists. *)

(* What the memory says of one list *)
LEMMA HeldList ==
    ASSUME NEW m, NEW f, Holds(m, f), NEW l \in ListNames
    PROVE  /\ f[l] \in Seq(EmergencyNodes) /\ IsInjective(f[l])
           /\ m.node_amount[l] = Len(f[l])
           /\ Len(f[l]) = 0 => m.head[l] = NULL /\ m.tail[l] = NULL
           /\ Len(f[l]) # 0 => m.head[l] = f[l][1] /\ m.tail[l] = f[l][Len(f[l])]
           /\ \A i \in 1 .. Len(f[l]) :
                 /\ f[l][i] \in EmergencyNodes /\ m.list[f[l][i]] = l
                 /\ i = 1 => m.prev[f[l][i]] = NULL
                 /\ i # 1 => m.prev[f[l][i]] = f[l][i - 1]
                 /\ i = Len(f[l]) => m.next[f[l][i]] = NULL
                 /\ i # Len(f[l]) => m.next[f[l][i]] = f[l][i + 1]
<1> PICK s \in Seq(EmergencyNodes) : s = f[l]
  BY DEF Holds
<1>1. IsInjective(s) /\ Represents(m, l, s)
  BY DEF Holds
<1>2. /\ Len(s) \in Nat /\ DOMAIN s = 1 .. Len(s) /\ (s = <<>> <=> Len(s) = 0)
      /\ \A i \in 1 .. Len(s) : s[i] \in EmergencyNodes
  OBVIOUS
<1> QED  BY <1>1, <1>2 DEF Represents

(* and what it takes to say so of another. *)
LEMMA HeldAgain ==
    ASSUME NEW m, NEW l \in ListNames, NEW s \in Seq(EmergencyNodes),
           m.node_amount[l] = Len(s),
           Len(s) = 0 => m.head[l] = NULL /\ m.tail[l] = NULL,
           Len(s) # 0 => m.head[l] = s[1] /\ m.tail[l] = s[Len(s)],
           \A i \in 1 .. Len(s) :
              /\ m.list[s[i]] = l
              /\ i = 1 => m.prev[s[i]] = NULL
              /\ i # 1 => m.prev[s[i]] = s[i - 1]
              /\ i = Len(s) => m.next[s[i]] = NULL
              /\ i # Len(s) => m.next[s[i]] = s[i + 1]
    PROVE  Represents(m, l, s)
<1>1. DOMAIN s = 1 .. Len(s) /\ (s = <<>> <=> Len(s) = 0)
  OBVIOUS
<1> QED  BY <1>1 DEF Represents

LEMMA AppendHolds ==
    ASSUME NEW m, NEW f, Holds(m, f), NEW l \in ListNames, NEW n \in EmergencyNodes,
           Free(f, n)
    PROVE  Holds(AppendEmergencyNode(m, l, n), [f EXCEPT ![l] = Append(@, n)])
<1>1. m \in Memory /\ f \in [ListNames -> Seq(EmergencyNodes)]
  BY DEF Holds
<1>o. PICK o : o = AppendEmergencyNode(m, l, n)
  OBVIOUS
<1>last. PICK last : last = IF m.node_amount[l] = 0 THEN NULL ELSE m.tail[l]
  OBVIOUS
<1>2. o \in Memory
  BY <1>1, <1>o, AppendPointers
<1>3. \A k \in ListNames :
         /\ o.head[k] = IF k = l /\ m.node_amount[l] = 0 THEN n ELSE m.head[k]
         /\ o.tail[k] = IF k = l THEN n ELSE m.tail[k]
         /\ o.node_amount[k] = IF k = l THEN m.node_amount[k] + 1 ELSE m.node_amount[k]
  BY <1>1, <1>o, AppendPointers
<1>prev. \A x \in EmergencyNodes : o.prev[x] = IF x = n THEN last ELSE m.prev[x]
  BY <1>1, <1>o, <1>last, AppendPointers
<1>next. \A x \in EmergencyNodes :
            o.next[x] = IF x = n THEN NULL ELSE IF x = last THEN n ELSE m.next[x]
  BY <1>1, <1>o, <1>last, AppendPointers
<1>list. \A x \in EmergencyNodes : o.list[x] = IF x = n THEN l ELSE m.list[x]
  BY <1>1, <1>o, AppendPointers
<1>s. PICK s \in Seq(EmergencyNodes) : s = f[l]
  BY <1>1
<1>r. PICK r : r = Append(s, n)
  OBVIOUS
<1>4. Len(s) \in Nat /\ DOMAIN s = 1 .. Len(s) /\ IsInjective(s)
  BY <1>s, HeldList
<1>5. \A i \in 1 .. Len(s) : s[i] \in EmergencyNodes /\ s[i] # n
  BY <1>s DEF Free, ToSet
<1>6. /\ r \in Seq(EmergencyNodes) /\ Len(r) = Len(s) + 1
      /\ IsInjective(r) /\ r[Len(s) + 1] = n
      /\ \A i \in 1 .. Len(s) : r[i] = s[i]
  <2>1. n \notin ToSet(s)
    BY <1>s DEF Free
  <2> QED  BY <1>r, <1>4, <2>1, AppendedNode
<1>7. m.node_amount[l] = Len(s)
  BY <1>s, HeldList
<1>8. Len(s) # 0 => m.head[l] = s[1] /\ last = s[Len(s)]
  BY <1>s, <1>last, HeldList
<1>9. Len(s) = 0 => last = NULL
  BY <1>last, <1>7
<1>10. Represents(o, l, r)
  <2>1. o.node_amount[l] = Len(r) /\ Len(r) # 0
    BY <1>3, <1>4, <1>6, <1>7
  <2>2. o.head[l] = r[1]
    <3>1. CASE Len(s) = 0
      BY <1>3, <1>6, <1>7, <3>1
    <3>2. CASE Len(s) # 0
      <4>1. r[1] = s[1]
        BY <1>4, <1>6, <3>2
      <4> QED  BY <1>3, <1>7, <1>8, <3>2, <4>1
    <3> QED  BY <3>1, <3>2
  <2>3. o.tail[l] = r[Len(r)]
    BY <1>3, <1>6
  <2>4. ASSUME NEW i \in 1 .. Len(s)
        PROVE  /\ o.list[r[i]] = l
               /\ i = 1 => o.prev[r[i]] = NULL
               /\ i # 1 => o.prev[r[i]] = r[i - 1]
               /\ o.next[r[i]] = r[i + 1]
    <3>1. r[i] = s[i] /\ s[i] \in EmergencyNodes /\ s[i] # n
      BY <1>5, <1>6
    <3>2. m.list[s[i]] = l
      BY <1>s, HeldList
    <3>3. /\ i = 1 => m.prev[s[i]] = NULL
          /\ i # 1 => m.prev[s[i]] = s[i - 1]
      BY <1>s, HeldList
    <3>4. i # Len(s) => m.next[s[i]] = s[i + 1]
      BY <1>s, HeldList
    <3>5. o.list[r[i]] = l
      BY <1>list, <3>1, <3>2
    <3>6. i # 1 => r[i - 1] = s[i - 1]
      BY <1>4, <1>6
    <3>7. o.prev[r[i]] = m.prev[s[i]]
      BY <1>prev, <3>1
    <3>8. o.next[r[i]] = r[i + 1]
      <4>1. CASE i = Len(s)
        <5>1. r[i + 1] = n /\ Len(s) # 0
          BY <1>4, <1>6, <4>1
        <5>2. last = s[i]
          BY <1>8, <4>1, <5>1
        <5> QED  BY <1>next, <3>1, <5>1, <5>2
      <4>2. CASE i # Len(s)
        <5>1. i + 1 \in 1 .. Len(s) /\ Len(s) \in DOMAIN s /\ i \in DOMAIN s
          BY <4>2
        <5>2. r[i + 1] = s[i + 1]
          BY <1>6, <5>1
        <5>3. s[i] # s[Len(s)]
          BY <1>4, <4>2, <5>1 DEF IsInjective
        <5>4. last = s[Len(s)]
          BY <1>4, <1>8, <5>1
        <5>5. s[i] # last
          BY <5>3, <5>4
        <5> QED  BY <1>next, <3>1, <3>4, <4>2, <5>2, <5>5
      <4> QED  BY <4>1, <4>2
    <3> QED  BY <3>3, <3>5, <3>6, <3>7, <3>8
  <2>5. o.list[n] = l /\ o.prev[n] = last /\ o.next[n] = NULL
    BY <1>prev, <1>next, <1>list
  <2>6. ASSUME NEW i \in 1 .. Len(r)
        PROVE  /\ o.list[r[i]] = l
               /\ i = 1 => o.prev[r[i]] = NULL
               /\ i # 1 => o.prev[r[i]] = r[i - 1]
               /\ i = Len(r) => o.next[r[i]] = NULL
               /\ i # Len(r) => o.next[r[i]] = r[i + 1]
    <3>1. CASE i \in 1 .. Len(s)
      <4>1. i # Len(r)
        BY <1>4, <1>6, <3>1
      <4> QED  BY <2>4, <3>1, <4>1
    <3>2. CASE i = Len(s) + 1
      <4>1. i = Len(r) /\ r[i] = n
        BY <1>6, <3>2
      <4>2. i = 1 => last = NULL
        BY <1>4, <1>9, <3>2
      <4>3. i # 1 => last = r[i - 1]
        BY <1>4, <1>6, <1>8, <3>2
      <4> QED  BY <2>5, <4>1, <4>2, <4>3
    <3>3. i \in 1 .. Len(s) \/ i = Len(s) + 1
      BY <1>4, <1>6
    <3> QED  BY <3>1, <3>2, <3>3
  <2> QED  BY <1>6, <2>1, <2>2, <2>3, <2>6, HeldAgain
<1>11. ASSUME NEW k \in ListNames, k # l PROVE Represents(o, k, f[k])
  <2>t. PICK t \in Seq(EmergencyNodes) : t = f[k]
    BY <1>1
  <2>1. o.head[k] = m.head[k] /\ o.tail[k] = m.tail[k] /\ o.node_amount[k] = m.node_amount[k]
    BY <1>3, <1>11
  <2>2. ASSUME NEW i \in 1 .. Len(t)
        PROVE  /\ o.list[t[i]] = m.list[t[i]]
               /\ o.prev[t[i]] = m.prev[t[i]]
               /\ o.next[t[i]] = m.next[t[i]]
    <3>1. t[i] \in EmergencyNodes /\ t[i] # n
      BY <2>t DEF Free, ToSet
    <3>2. m.list[t[i]] = k
      BY <2>t, HeldList
    <3>3. t[i] # last
      <4>1. CASE Len(s) = 0
        BY <1>9, <3>1, <4>1, NullIsNothing
      <4>2. CASE Len(s) # 0
        <5>1. Len(s) \in 1 .. Len(s)
          BY <1>4, <4>2
        <5>2. m.list[s[Len(s)]] = l
          BY <1>s, <5>1, HeldList
        <5> QED  BY <1>8, <1>11, <3>2, <4>2, <5>2
      <4> QED  BY <4>1, <4>2
    <3> QED  BY <1>prev, <1>next, <1>list, <3>1, <3>3
  <2>3. Represents(m, k, t)
    BY <2>t DEF Holds
  <2>4. DOMAIN t = 1 .. Len(t)
    OBVIOUS
  <2>5. Represents(o, k, t)
    BY <2>1, <2>2, <2>3, <2>4 DEF Represents
  <2> QED  BY <2>t, <2>5
<1>g. PICK g : g = [f EXCEPT ![l] = r]
  OBVIOUS
<1>12. /\ g \in [ListNames -> Seq(EmergencyNodes)]
       /\ \A k \in ListNames : g[k] = IF k = l THEN r ELSE f[k]
  BY <1>1, <1>6, <1>g
<1>13. ASSUME NEW k \in ListNames PROVE IsInjective(g[k]) /\ Represents(o, k, g[k])
  BY <1>6, <1>10, <1>11, <1>12, HeldList
<1>14. Holds(o, g)
  BY <1>2, <1>12, <1>13 DEF Holds
<1>15. [f EXCEPT ![l] = Append(@, n)] = g
  BY <1>1, <1>s, <1>r, <1>g
<1> QED  BY <1>o, <1>14, <1>15

LEMMA PushHolds ==
    ASSUME NEW m, NEW f, Holds(m, f), NEW l \in ListNames, NEW n \in EmergencyNodes,
           Free(f, n)
    PROVE  Holds(PushEmergencyNode(m, l, n), [f EXCEPT ![l] = <<n>> \o @])
<1>1. m \in Memory /\ f \in [ListNames -> Seq(EmergencyNodes)]
  BY DEF Holds
<1>o. PICK o : o = PushEmergencyNode(m, l, n)
  OBVIOUS
<1>first. PICK first : first = IF m.node_amount[l] = 0 THEN NULL ELSE m.head[l]
  OBVIOUS
<1>2. o \in Memory
  BY <1>1, <1>o, PushPointers
<1>3. \A k \in ListNames :
         /\ o.head[k] = IF k = l THEN n ELSE m.head[k]
         /\ o.tail[k] = IF k = l /\ m.node_amount[l] = 0 THEN n ELSE m.tail[k]
         /\ o.node_amount[k] = IF k = l THEN m.node_amount[k] + 1 ELSE m.node_amount[k]
  BY <1>1, <1>o, PushPointers
<1>prev. \A x \in EmergencyNodes :
            o.prev[x] = IF x = n THEN NULL ELSE IF x = first THEN n ELSE m.prev[x]
  BY <1>1, <1>o, <1>first, PushPointers
<1>next. \A x \in EmergencyNodes : o.next[x] = IF x = n THEN first ELSE m.next[x]
  BY <1>1, <1>o, <1>first, PushPointers
<1>list. \A x \in EmergencyNodes : o.list[x] = IF x = n THEN l ELSE m.list[x]
  BY <1>1, <1>o, PushPointers
<1>s. PICK s \in Seq(EmergencyNodes) : s = f[l]
  BY <1>1
<1>r. PICK r : r = <<n>> \o s
  OBVIOUS
<1>4. Len(s) \in Nat /\ DOMAIN s = 1 .. Len(s) /\ IsInjective(s)
  BY <1>s, HeldList
<1>5. \A i \in 1 .. Len(s) : s[i] \in EmergencyNodes /\ s[i] # n
  BY <1>s DEF Free, ToSet
<1>6. /\ r \in Seq(EmergencyNodes) /\ Len(r) = Len(s) + 1
      /\ IsInjective(r) /\ r[1] = n
      /\ \A i \in 1 .. Len(s) : r[i + 1] = s[i]
  <2>1. n \notin ToSet(s)
    BY <1>s DEF Free
  <2> QED  BY <1>r, <1>4, <2>1, PushedNode
<1>7. m.node_amount[l] = Len(s)
  BY <1>s, HeldList
<1>8. Len(s) # 0 => m.tail[l] = s[Len(s)] /\ first = s[1]
  BY <1>s, <1>first, HeldList
<1>9. Len(s) = 0 => first = NULL
  BY <1>first, <1>7
<1>10. Represents(o, l, r)
  <2>1. o.node_amount[l] = Len(r) /\ Len(r) # 0
    BY <1>3, <1>4, <1>6, <1>7
  <2>2. o.tail[l] = r[Len(r)]
    <3>1. CASE Len(s) = 0
      BY <1>3, <1>6, <1>7, <3>1
    <3>2. CASE Len(s) # 0
      <4>1. r[Len(s) + 1] = s[Len(s)]
        BY <1>4, <1>6, <3>2
      <4>2. o.tail[l] = s[Len(s)]
        BY <1>3, <1>7, <1>8, <3>2
      <4> QED  BY <1>6, <4>1, <4>2
    <3> QED  BY <3>1, <3>2
  <2>3. o.head[l] = r[1]
    BY <1>3, <1>6
  <2>4. ASSUME NEW i \in 1 .. Len(s)
        PROVE  /\ o.list[r[i + 1]] = l
               /\ o.prev[r[i + 1]] = r[i]
               /\ i = Len(s) => o.next[r[i + 1]] = NULL
               /\ i # Len(s) => o.next[r[i + 1]] = r[i + 2]
    <3>1. r[i + 1] = s[i] /\ s[i] \in EmergencyNodes /\ s[i] # n
      BY <1>5, <1>6
    <3>2. m.list[s[i]] = l
      BY <1>s, HeldList
    <3>3. /\ i = Len(s) => m.next[s[i]] = NULL
          /\ i # Len(s) => m.next[s[i]] = s[i + 1]
      BY <1>s, HeldList
    <3>4. i # 1 => m.prev[s[i]] = s[i - 1]
      BY <1>s, HeldList
    <3>5. o.list[r[i + 1]] = l
      BY <1>list, <3>1, <3>2
    <3>6. i # Len(s) => r[i + 2] = s[i + 1]
      <4>1. i # Len(s) => i + 1 \in 1 .. Len(s) /\ (i + 1) + 1 = i + 2
        OBVIOUS
      <4> QED  BY <1>6, <4>1
    <3>7. o.next[r[i + 1]] = m.next[s[i]]
      BY <1>next, <3>1
    <3>8. o.prev[r[i + 1]] = r[i]
      <4>1. CASE i = 1
        <5>1. r[i] = n /\ Len(s) # 0
          BY <1>4, <1>6, <4>1
        <5>2. first = s[i]
          BY <1>8, <4>1, <5>1
        <5> QED  BY <1>prev, <3>1, <5>1, <5>2
      <4>2. CASE i # 1
        <5>1. i - 1 \in 1 .. Len(s) /\ (i - 1) + 1 = i /\ 1 \in 1 .. Len(s)
          BY <4>2
        <5>2. r[i] = s[i - 1]
          BY <1>6, <5>1
        <5>3. 1 \in DOMAIN s /\ i \in DOMAIN s
          BY <1>4, <5>1
        <5>4. s[i] # s[1]
          BY <1>4, <4>2, <5>3 DEF IsInjective
        <5>5. first = s[1]
          BY <1>8, <5>1
        <5>6. s[i] # first
          BY <5>4, <5>5
        <5> QED  BY <1>prev, <3>1, <3>4, <4>2, <5>2, <5>6
      <4> QED  BY <4>1, <4>2
    <3> QED  BY <3>3, <3>5, <3>6, <3>7, <3>8
  <2>5. o.list[n] = l /\ o.prev[n] = NULL /\ o.next[n] = first
    BY <1>prev, <1>next, <1>list
  <2>6. ASSUME NEW i \in 1 .. Len(r)
        PROVE  /\ o.list[r[i]] = l
               /\ i = 1 => o.prev[r[i]] = NULL
               /\ i # 1 => o.prev[r[i]] = r[i - 1]
               /\ i = Len(r) => o.next[r[i]] = NULL
               /\ i # Len(r) => o.next[r[i]] = r[i + 1]
    <3>1. CASE i # 1
      <4>1. i - 1 \in 1 .. Len(s) /\ (i - 1) + 1 = i /\ (i - 1) + 2 = i + 1
        BY <1>4, <1>6, <3>1
      <4>2. i - 1 = Len(s) <=> i = Len(r)
        BY <1>4, <1>6
      <4>3. PICK j \in 1 .. Len(s) : j = i - 1
        BY <4>1
      <4>4. j + 1 = i /\ j + 2 = i + 1 /\ (j = Len(s) <=> i = Len(r))
        BY <4>1, <4>2, <4>3
      <4> QED  BY <2>4, <3>1, <4>3, <4>4
    <3>2. CASE i = 1
      <4>1. r[i] = n
        BY <1>6, <3>2
      <4>2. i = Len(r) => first = NULL
        BY <1>4, <1>6, <1>9, <3>2
      <4>3. i # Len(r) => Len(s) # 0 /\ 1 \in 1 .. Len(s)
        BY <1>4, <1>6, <3>2
      <4>4. i # Len(r) => first = r[i + 1]
        BY <1>6, <1>8, <3>2, <4>3
      <4> QED  BY <2>5, <3>2, <4>1, <4>2, <4>4
    <3> QED  BY <3>1, <3>2
  <2> QED  BY <1>6, <2>1, <2>2, <2>3, <2>6, HeldAgain
<1>11. ASSUME NEW k \in ListNames, k # l PROVE Represents(o, k, f[k])
  <2>t. PICK t \in Seq(EmergencyNodes) : t = f[k]
    BY <1>1
  <2>1. o.head[k] = m.head[k] /\ o.tail[k] = m.tail[k] /\ o.node_amount[k] = m.node_amount[k]
    BY <1>3, <1>11
  <2>2. ASSUME NEW i \in 1 .. Len(t)
        PROVE  /\ o.list[t[i]] = m.list[t[i]]
               /\ o.prev[t[i]] = m.prev[t[i]]
               /\ o.next[t[i]] = m.next[t[i]]
    <3>1. t[i] \in EmergencyNodes /\ t[i] # n
      BY <2>t DEF Free, ToSet
    <3>2. m.list[t[i]] = k
      BY <2>t, HeldList
    <3>3. t[i] # first
      <4>1. CASE Len(s) = 0
        BY <1>9, <3>1, <4>1, NullIsNothing
      <4>2. CASE Len(s) # 0
        <5>1. 1 \in 1 .. Len(s)
          BY <1>4, <4>2
        <5>2. m.list[s[1]] = l
          BY <1>s, <5>1, HeldList
        <5> QED  BY <1>8, <1>11, <3>2, <4>2, <5>2
      <4> QED  BY <4>1, <4>2
    <3> QED  BY <1>prev, <1>next, <1>list, <3>1, <3>3
  <2>3. Represents(m, k, t)
    BY <2>t DEF Holds
  <2>4. DOMAIN t = 1 .. Len(t)
    OBVIOUS
  <2>5. Represents(o, k, t)
    BY <2>1, <2>2, <2>3, <2>4 DEF Represents
  <2> QED  BY <2>t, <2>5
<1>g. PICK g : g = [f EXCEPT ![l] = r]
  OBVIOUS
<1>12. /\ g \in [ListNames -> Seq(EmergencyNodes)]
       /\ \A k \in ListNames : g[k] = IF k = l THEN r ELSE f[k]
  BY <1>1, <1>6, <1>g
<1>13. ASSUME NEW k \in ListNames PROVE IsInjective(g[k]) /\ Represents(o, k, g[k])
  BY <1>6, <1>10, <1>11, <1>12, HeldList
<1>14. Holds(o, g)
  BY <1>2, <1>12, <1>13 DEF Holds
<1>15. [f EXCEPT ![l] = <<n>> \o @] = g
  BY <1>1, <1>s, <1>r, <1>g
<1> QED  BY <1>o, <1>14, <1>15

LEMMA RemoveHolds ==
    ASSUME NEW m, NEW f, Holds(m, f), NEW l \in ListNames, NEW n \in ToSet(f[l])
    PROVE  /\ Holds(RemoveEmergencyNode(m, n), [f EXCEPT ![l] = RemoveFirst(@, n)])
           /\ Free([f EXCEPT ![l] = RemoveFirst(@, n)], n)
<1>1. m \in Memory /\ f \in [ListNames -> Seq(EmergencyNodes)]
  BY DEF Holds
<1>s. PICK s \in Seq(EmergencyNodes) : s = f[l]
  BY <1>1
<1>4. Len(s) \in Nat /\ DOMAIN s = 1 .. Len(s) /\ IsInjective(s)
  BY <1>s, HeldList
<1>c. PICK c \in 1 .. Len(s) : s[c] = n
  BY <1>s, <1>4 DEF ToSet
<1>5. \A i \in 1 .. Len(s) : s[i] \in EmergencyNodes
  OBVIOUS
<1>n. n \in EmergencyNodes
  BY <1>5, <1>c
<1>l. m.list[n] = l
  BY <1>s, <1>c, HeldList
<1>o. PICK o : o = RemoveEmergencyNode(m, n)
  OBVIOUS
<1>before. PICK before : before = m.prev[n]
  OBVIOUS
<1>after. PICK after : after = m.next[n]
  OBVIOUS
<1>2. o \in Memory
  BY <1>1, <1>o, <1>n, <1>l, RemovePointers
<1>head. \A k \in ListNames :
            o.head[k] = IF k = l /\ before = NULL THEN after ELSE m.head[k]
  BY <1>1, <1>o, <1>n, <1>l, <1>before, <1>after, RemovePointers
<1>tail. \A k \in ListNames :
            o.tail[k] = IF k = l /\ after = NULL THEN before ELSE m.tail[k]
  BY <1>1, <1>o, <1>n, <1>l, <1>before, <1>after, RemovePointers
<1>amount. \A k \in ListNames :
              o.node_amount[k] = IF k = l THEN m.node_amount[k] - 1 ELSE m.node_amount[k]
  BY <1>1, <1>o, <1>n, <1>l, RemovePointers
<1>prev. \A x \in EmergencyNodes :
            o.prev[x] = IF x = n THEN NULL ELSE IF x = after THEN before ELSE m.prev[x]
  BY <1>1, <1>o, <1>n, <1>l, <1>before, <1>after, RemovePointers
<1>next. \A x \in EmergencyNodes :
            o.next[x] = IF x = n THEN NULL ELSE IF x = before THEN after ELSE m.next[x]
  BY <1>1, <1>o, <1>n, <1>l, <1>before, <1>after, RemovePointers
<1>list. \A x \in EmergencyNodes : o.list[x] = m.list[x]
  BY <1>1, <1>o, <1>n, <1>l, RemovePointers
<1>r. PICK r : r = RemoveFirst(s, n)
  OBVIOUS
<1>6. /\ r \in Seq(EmergencyNodes) /\ Len(r) = Len(s) - 1
      /\ \A i \in 1 .. Len(s) - 1 : r[i] = IF i < c THEN s[i] ELSE s[i + 1]
  BY <1>r, <1>4, <1>c, RemovedAt
<1>len. Len(s) \in Nat /\ Len(r) = Len(s) - 1
  BY <1>4, <1>6
<1>7. IsInjective(r) /\ n \notin ToSet(r)
  <2>1. n \in ToSet(s)
    BY <1>s
  <2> QED  BY <1>r, <1>4, <2>1, RemovedNodes
<1>8. /\ m.node_amount[l] = Len(s)
      /\ m.head[l] = s[1]
      /\ m.tail[l] = s[Len(s)]
  <2>1. Len(s) # 0
    BY <1>4
  <2>2. m.node_amount[l] = Len(s)
    BY <1>s, HeldList
  <2>3. m.head[l] = s[1] /\ m.tail[l] = s[Len(s)]
    BY <1>s, <2>1, HeldList
  <2> QED  BY <2>2, <2>3
<1>9. /\ c = 1 => before = NULL
      /\ c # 1 => before = s[c - 1]
      /\ c = Len(s) => after = NULL
      /\ c # Len(s) => after = s[c + 1]
  BY <1>s, <1>c, <1>before, <1>after, HeldList
(* Positions tell nodes apart. *)
<1>10. \A i, j \in 1 .. Len(s) : s[i] = s[j] => i = j
  BY <1>4 DEF IsInjective
<1>11. c # 1 => c - 1 \in 1 .. Len(s)
  OBVIOUS
<1>12. c # Len(s) => c + 1 \in 1 .. Len(s)
  OBVIOUS
<1>13. (before = NULL <=> c = 1) /\ (after = NULL <=> c = Len(s))
  BY <1>5, <1>9, <1>11, <1>12, NullIsNothing
<1>14. \A i \in 1 .. Len(s) : (s[i] = before <=> i = c - 1) /\ (s[i] = after <=> i = c + 1)
  <2> TAKE i \in 1 .. Len(s)
  <2>1. s[i] # NULL
    BY <1>5, NullIsNothing
  <2>2. s[i] = before <=> i = c - 1
    <3>1. CASE c = 1
      BY <1>9, <2>1, <3>1
    <3>2. CASE c # 1
      BY <1>9, <1>10, <1>11, <3>2
    <3> QED  BY <3>1, <3>2
  <2>3. s[i] = after <=> i = c + 1
    <3>1. CASE c = Len(s)
      BY <1>9, <2>1, <3>1
    <3>2. CASE c # Len(s)
      BY <1>9, <1>10, <1>12, <3>2
    <3> QED  BY <3>1, <3>2
  <2> QED  BY <2>2, <2>3
<1>15. \A i \in 1 .. Len(s) : i # c => s[i] # n
  BY <1>10, <1>c
<1>16. Represents(o, l, r)
  <2>1. o.node_amount[l] = Len(r)
    BY <1>amount, <1>6, <1>8
  <2>2. /\ Len(r) = 0 => o.head[l] = NULL
        /\ Len(r) # 0 => o.head[l] = r[1]
    <3>1. CASE c = 1
      <4>1. o.head[l] = after
        BY <1>head, <1>13, <3>1
      <4>2. CASE Len(r) = 0
        <5>1. Len(s) = 1
          BY <1>len, <4>2
        <5>2. c = Len(s)
          BY <5>1
        <5> QED  BY <1>9, <4>1, <4>2, <5>2
      <4>3. CASE Len(r) # 0
        <5>1. c # Len(s) /\ 1 \in 1 .. Len(s) - 1 /\ ~(1 < c)
          BY <1>len, <3>1, <4>3
        <5>2. r[1] = s[2]
          BY <1>6, <5>1
        <5> QED  BY <1>9, <3>1, <4>1, <4>3, <5>1, <5>2
      <4> QED  BY <4>2, <4>3
    <3>2. CASE c # 1
      <4>1. o.head[l] = s[1]
        BY <1>head, <1>8, <1>13, <3>2
      <4>2. 1 \in 1 .. Len(s) - 1 /\ 1 < c /\ Len(r) # 0
        BY <1>len, <3>2
      <4>3. r[1] = s[1]
        BY <1>6, <4>2
      <4> QED  BY <4>1, <4>2, <4>3
    <3> QED  BY <3>1, <3>2
  <2>3. /\ Len(r) = 0 => o.tail[l] = NULL
        /\ Len(r) # 0 => o.tail[l] = r[Len(r)]
    <3>1. CASE c = Len(s)
      <4>1. o.tail[l] = before
        BY <1>tail, <1>13, <3>1
      <4>2. CASE Len(r) = 0
        <5>1. c = 1
          BY <1>len, <3>1, <4>2
        <5> QED  BY <1>9, <4>1, <4>2, <5>1
      <4>3. CASE Len(r) # 0
        <5>1. c # 1 /\ Len(r) \in 1 .. Len(s) - 1 /\ Len(r) < c /\ Len(r) = c - 1
          BY <1>len, <3>1, <4>3
        <5>2. r[Len(r)] = s[c - 1]
          BY <1>6, <5>1
        <5> QED  BY <1>9, <4>1, <4>3, <5>1, <5>2
      <4> QED  BY <4>2, <4>3
    <3>2. CASE c # Len(s)
      <4>1. o.tail[l] = s[Len(s)]
        BY <1>tail, <1>8, <1>13, <3>2
      <4>2. Len(r) \in 1 .. Len(s) - 1 /\ ~(Len(r) < c) /\ Len(r) # 0 /\ Len(r) + 1 = Len(s)
        BY <1>len, <3>2
      <4>3. r[Len(r)] = s[Len(s)]
        BY <1>6, <4>2
      <4> QED  BY <4>1, <4>2, <4>3
    <3> QED  BY <3>1, <3>2
  <2>4. ASSUME NEW i \in 1 .. Len(r)
        PROVE  /\ o.list[r[i]] = l
               /\ i = 1 => o.prev[r[i]] = NULL
               /\ i # 1 => o.prev[r[i]] = r[i - 1]
               /\ i = Len(r) => o.next[r[i]] = NULL
               /\ i # Len(r) => o.next[r[i]] = r[i + 1]
    <3>1. CASE i < c
      <4>1. i \in 1 .. Len(s) /\ i \in 1 .. Len(s) - 1 /\ i # c
        BY <1>len, <3>1
      <4>2. r[i] = s[i]
        BY <1>6, <3>1, <4>1
      <4>3. s[i] \in EmergencyNodes /\ s[i] # n
        BY <1>5, <1>15, <4>1
      <4>4. i # c + 1
        BY <3>1
      <4>5. s[i] # after
        BY <1>14, <4>1, <4>4
      <4>6. /\ m.list[s[i]] = l
            /\ i = 1 => m.prev[s[i]] = NULL
            /\ i # 1 => m.prev[s[i]] = s[i - 1]
        BY <1>s, <4>1, HeldList
      <4>7. i # Len(s) /\ m.next[s[i]] = s[i + 1]
        <5>1. i # Len(s)
          BY <3>1
        <5> QED  BY <1>s, <4>1, <5>1, HeldList
      <4>8. o.list[r[i]] = l
        BY <1>list, <4>2, <4>3, <4>6
      <4>9. o.prev[r[i]] = m.prev[s[i]]
        BY <1>prev, <4>2, <4>3, <4>5
      <4>10. i # 1 => r[i - 1] = s[i - 1]
        <5>1. i # 1 => i - 1 \in 1 .. Len(s) - 1 /\ i - 1 < c
          BY <3>1, <4>1
        <5> QED  BY <1>6, <5>1
      <4>11. /\ i = Len(r) => o.next[r[i]] = NULL
             /\ i # Len(r) => o.next[r[i]] = r[i + 1]
        <5>1. CASE i = c - 1
          <6>1. o.next[r[i]] = after
            <7>1. s[i] = before
              BY <1>14, <4>1, <5>1
            <7> QED  BY <1>next, <4>2, <4>3, <7>1
          <6>2. i = Len(r) <=> c = Len(s)
            BY <1>len, <5>1
          <6>3. i # Len(r) => i + 1 \in 1 .. Len(s) - 1 /\ ~(i + 1 < c) /\ (i + 1) + 1 = c + 1
            BY <1>len, <5>1
          <6>4. i # Len(r) => r[i + 1] = s[c + 1]
            BY <1>6, <6>3
          <6> QED  BY <1>9, <6>1, <6>2, <6>4
        <5>2. CASE i # c - 1
          <6>1. o.next[r[i]] = s[i + 1]
            <7>1. s[i] # before
              BY <1>14, <4>1, <5>2
            <7> QED  BY <1>next, <4>2, <4>3, <4>7, <7>1
          <6>2. i # Len(r) /\ i + 1 \in 1 .. Len(s) - 1 /\ i + 1 < c
            BY <1>len, <3>1, <5>2
          <6>3. r[i + 1] = s[i + 1]
            BY <1>6, <6>2
          <6> QED  BY <6>1, <6>2, <6>3
        <5> QED  BY <5>1, <5>2
      <4> QED  BY <4>6, <4>8, <4>9, <4>10, <4>11
    <3>2. CASE ~(i < c)
      <4>p. PICK p : p = i + 1
        OBVIOUS
      <4>1. p \in 1 .. Len(s) /\ i \in 1 .. Len(s) - 1 /\ p # c /\ p # 1 /\ p - 1 = i
        BY <1>len, <3>2, <4>p
      <4>2. r[i] = s[p]
        BY <1>6, <3>2, <4>1, <4>p
      <4>3. s[p] \in EmergencyNodes /\ s[p] # n
        BY <1>5, <1>15, <4>1
      <4>4. p # c - 1
        BY <3>2, <4>p
      <4>5. s[p] # before
        BY <1>14, <4>1, <4>4
      <4>6. /\ m.list[s[p]] = l
            /\ p = Len(s) => m.next[s[p]] = NULL
            /\ p # Len(s) => m.next[s[p]] = s[p + 1]
        BY <1>s, <4>1, HeldList
      <4>7. m.prev[s[p]] = s[p - 1]
        BY <1>s, <4>1, HeldList
      <4>8. o.list[r[i]] = l
        BY <1>list, <4>2, <4>3, <4>6
      <4>9. o.next[r[i]] = m.next[s[p]]
        BY <1>next, <4>2, <4>3, <4>5
      <4>10. p = Len(s) <=> i = Len(r)
        BY <1>len, <4>p
      <4>11. i # Len(r) => r[i + 1] = s[p + 1]
        <5>1. i # Len(r) => i + 1 \in 1 .. Len(s) - 1 /\ ~(i + 1 < c) /\ (i + 1) + 1 = p + 1
          BY <1>len, <3>2, <4>p
        <5> QED  BY <1>6, <5>1
      <4>12. /\ i = 1 => o.prev[r[i]] = NULL
             /\ i # 1 => o.prev[r[i]] = r[i - 1]
        <5>1. CASE i = c
          <6>1. o.prev[r[i]] = before
            <7>1. s[p] = after
              BY <1>14, <4>1, <4>p, <5>1
            <7> QED  BY <1>prev, <4>2, <4>3, <7>1
          <6>2. i # 1 => i - 1 \in 1 .. Len(s) - 1 /\ i - 1 < c /\ i - 1 = c - 1
            BY <4>1, <5>1
          <6>3. i # 1 => r[i - 1] = s[c - 1]
            BY <1>6, <6>2
          <6> QED  BY <1>9, <5>1, <6>1, <6>3
        <5>2. CASE i # c
          <6>1. o.prev[r[i]] = s[i]
            <7>1. p # c + 1
              BY <4>p, <5>2
            <7>2. s[p] # after
              BY <1>14, <4>1, <7>1
            <7> QED  BY <1>prev, <4>1, <4>2, <4>3, <4>7, <7>2
          <6>2. i # 1 /\ i - 1 \in 1 .. Len(s) - 1 /\ ~(i - 1 < c) /\ (i - 1) + 1 = i
            BY <3>2, <4>1, <5>2
          <6>3. r[i - 1] = s[i]
            BY <1>6, <6>2
          <6> QED  BY <6>1, <6>2, <6>3
        <5> QED  BY <5>1, <5>2
      <4> QED  BY <4>6, <4>8, <4>9, <4>10, <4>11, <4>12
    <3> QED  BY <3>1, <3>2
  <2> QED  BY <1>6, <2>1, <2>2, <2>3, <2>4, HeldAgain
<1>17. ASSUME NEW k \in ListNames, k # l PROVE Represents(o, k, f[k]) /\ n \notin ToSet(f[k])
  <2>t. PICK t \in Seq(EmergencyNodes) : t = f[k]
    BY <1>1
  <2>1. o.head[k] = m.head[k] /\ o.tail[k] = m.tail[k] /\ o.node_amount[k] = m.node_amount[k]
    BY <1>head, <1>tail, <1>amount, <1>17
  <2>2. ASSUME NEW i \in 1 .. Len(t)
        PROVE  /\ t[i] # n
               /\ o.list[t[i]] = m.list[t[i]]
               /\ o.prev[t[i]] = m.prev[t[i]]
               /\ o.next[t[i]] = m.next[t[i]]
    <3>1. t[i] \in EmergencyNodes
      OBVIOUS
    <3>2. m.list[t[i]] = k
      BY <2>t, HeldList
    <3>3. \A j \in 1 .. Len(s) : t[i] # s[j]
      <4> TAKE j \in 1 .. Len(s)
      <4>1. m.list[s[j]] = l
        BY <1>s, HeldList
      <4> QED  BY <1>17, <3>2, <4>1
    <3>4. t[i] # n
      BY <1>c, <3>3
    <3>5. t[i] # NULL
      BY <3>1, NullIsNothing
    <3>6. t[i] # before
      BY <1>9, <1>11, <3>3, <3>5
    <3>7. t[i] # after
      BY <1>9, <1>12, <3>3, <3>5
    <3> QED  BY <1>prev, <1>next, <1>list, <3>1, <3>4, <3>6, <3>7
  <2>3. Represents(m, k, t)
    BY <2>t DEF Holds
  <2>4. DOMAIN t = 1 .. Len(t)
    OBVIOUS
  <2>5. Represents(o, k, t)
    BY <2>1, <2>2, <2>3, <2>4 DEF Represents
  <2>6. n \notin ToSet(t)
    BY <2>2, <2>4 DEF ToSet
  <2> QED  BY <2>t, <2>5, <2>6
<1>g. PICK g : g = [f EXCEPT ![l] = r]
  OBVIOUS
<1>18. /\ g \in [ListNames -> Seq(EmergencyNodes)]
       /\ \A k \in ListNames : g[k] = IF k = l THEN r ELSE f[k]
  BY <1>1, <1>6, <1>g
<1>19. ASSUME NEW k \in ListNames PROVE IsInjective(g[k]) /\ Represents(o, k, g[k])
  BY <1>7, <1>16, <1>17, <1>18, HeldList
<1>20. Holds(o, g)
  BY <1>2, <1>18, <1>19 DEF Holds
<1>21. Free(g, n)
  BY <1>7, <1>17, <1>18 DEF Free
<1>22. [f EXCEPT ![l] = RemoveFirst(@, n)] = g
  BY <1>1, <1>s, <1>r, <1>g
<1> QED  BY <1>o, <1>20, <1>21, <1>22

--------------------------------------------------------------------------------
(* Calls. *)

LEMMA NewHolds == Init => Holds(NewMemory, lists)
<1> SUFFICES ASSUME Init PROVE Holds(NewMemory, lists)
  OBVIOUS
<1>1. /\ lists \in [ListNames -> Seq(EmergencyNodes)]
      /\ \A l \in ListNames : lists[l] = <<>>
  BY DEF Init
<1>2. NewMemory \in Memory
  BY DEF NewMemory, Memory, Ends, Links, NodePointer
<1>3. ASSUME NEW l \in ListNames
      PROVE  IsInjective(lists[l]) /\ Represents(NewMemory, l, lists[l])
  <2>1. /\ NewMemory.node_amount[l] = 0
        /\ NewMemory.head[l] = NULL /\ NewMemory.tail[l] = NULL
    BY DEF NewMemory
  <2>2. Len(<<>>) = 0 /\ DOMAIN <<>> = {}
    OBVIOUS
  <2> QED  BY <1>1, <2>1, <2>2 DEF IsInjective, Represents
<1> QED  BY <1>1, <1>2, <1>3 DEF Holds

(* A list without its first node is its tail. *)
LEMMA FirstRemoved ==
    ASSUME NEW S, NEW s \in Seq(S), IsInjective(s), s # <<>>
    PROVE  s[1] \in ToSet(s) /\ RemoveFirst(s, s[1]) = Tail(s)
<1>1. Len(s) \in Nat /\ DOMAIN s = 1 .. Len(s) /\ 1 \in DOMAIN s
  OBVIOUS
<1>2. s[1] \in ToSet(s)
  BY <1>1 DEF ToSet
<1>r. PICK r : r = RemoveFirst(s, s[1])
  OBVIOUS
<1>3. /\ r \in Seq(S) /\ Len(r) = Len(s) - 1
      /\ \A i \in 1 .. Len(s) - 1 : r[i] = IF i < 1 THEN s[i] ELSE s[i + 1]
  BY <1>r, <1>1, RemovedAt
<1>t. PICK t : t = Tail(s)
  OBVIOUS
<1>4. /\ t \in Seq(S) /\ Len(t) = Len(s) - 1
      /\ \A i \in 1 .. Len(s) - 1 : t[i] = s[i + 1]
  BY <1>t, <1>1
<1>5. \A i \in 1 .. Len(r) : r[i] = t[i]
  BY <1>3, <1>4
<1>6. r = t
  BY <1>3, <1>4, <1>5, SeqEqual
<1> QED  BY <1>2, <1>r, <1>t, <1>6

(* decapitate_emergency_list gives the first node of the list. *)
LEMMA DecapitateHolds ==
    ASSUME NEW m, Holds(m, lists), NEW l \in ListNames, Decapitate(l)
    PROVE  m.head[l] = Head(lists[l]) /\ Holds(DecapitateList(m, l), lists')
<1>1. lists \in [ListNames -> Seq(EmergencyNodes)]
  BY DEF Holds
<1>s. PICK s \in Seq(EmergencyNodes) : s = lists[l]
  BY <1>1
<1>2. s # <<>> /\ lists' = [lists EXCEPT ![l] = Tail(s)]
  BY <1>s DEF Decapitate
<1>3. Len(s) # 0 /\ Head(s) = s[1]
  BY <1>2
<1>4. IsInjective(s) /\ m.node_amount[l] # 0 /\ m.head[l] = s[1]
  BY <1>s, <1>3, HeldList
<1>5. s[1] \in ToSet(lists[l]) /\ RemoveFirst(s, s[1]) = Tail(s)
  BY <1>s, <1>2, <1>4, FirstRemoved
<1>6. lists' = [lists EXCEPT ![l] = RemoveFirst(@, s[1])]
  BY <1>1, <1>s, <1>2, <1>5
<1>7. DecapitateList(m, l) = RemoveEmergencyNode(m, s[1])
  BY <1>4 DEF DecapitateList
<1>n. PICK n : n = s[1]
  OBVIOUS
<1>8. Holds(RemoveEmergencyNode(m, n), [lists EXCEPT ![l] = RemoveFirst(@, n)])
  BY <1>n, <1>5, RemoveHolds
<1>9. Holds(DecapitateList(m, l), lists')
  BY <1>n, <1>6, <1>7, <1>8
<1> QED  BY <1>s, <1>3, <1>4, <1>9

LEMMA MoveHolds ==
    ASSUME NEW m, Holds(m, lists), NEW from \in ListNames, NEW to \in ListNames,
           NEW n \in ToSet(lists[from])
    PROVE  /\ MoveToEnd(n, from, to) => Holds(ChangeListAppend(m, n, to), lists')
           /\ MoveToFront(n, from, to) => Holds(ChangeListPush(m, n, to), lists')
<1>o. PICK o : o = RemoveEmergencyNode(m, n)
  OBVIOUS
<1>g. PICK g : g = Without(n, from)
  OBVIOUS
<1>1. Holds(o, g) /\ Free(g, n)
  BY <1>o, <1>g, RemoveHolds DEF Without
<1>2. n \in EmergencyNodes
  <2>1. lists[from] \in Seq(EmergencyNodes)
    BY DEF Holds
  <2> QED  BY <2>1 DEF ToSet
<1>3. ASSUME MoveToEnd(n, from, to) PROVE Holds(ChangeListAppend(m, n, to), lists')
  <2>1. Holds(AppendEmergencyNode(o, to, n), [g EXCEPT ![to] = Append(@, n)])
    BY <1>1, <1>2, AppendHolds
  <2> QED  BY <1>o, <1>g, <1>3, <2>1 DEF MoveToEnd, ChangeListAppend
<1>4. ASSUME MoveToFront(n, from, to) PROVE Holds(ChangeListPush(m, n, to), lists')
  <2>1. Holds(PushEmergencyNode(o, to, n), [g EXCEPT ![to] = <<n>> \o @])
    BY <1>1, <1>2, PushHolds
  <2> QED  BY <1>o, <1>g, <1>4, <2>1 DEF MoveToFront, ChangeListPush
<1> QED  BY <1>3, <1>4

(* Whatever calls EmergencyLists allows, the pointers keep every list in its *)
(* order, from its head and from its tail, with its number of nodes, and no  *)
(* node is in two places (emergency_priority_queue.c:106-180).               *)
THEOREM PointersFollowLists == PointersSpec => []Holds(memory, lists)
<1>1. PointersInit => Holds(memory, lists)
  BY NewHolds DEF PointersInit
<1>2. Holds(memory, lists) /\ [PointersNext]_<<lists, memory>> => Holds(memory, lists)'
  <2> SUFFICES ASSUME Holds(memory, lists), [PointersNext]_<<lists, memory>>
               PROVE  Holds(memory', lists')
    OBVIOUS
  <2>1. CASE \E l \in ListNames : Decapitate(l) /\ memory' = DecapitateList(memory, l)
    BY <2>1, DecapitateHolds
  <2>2. CASE \E l \in ListNames : \E n \in EmergencyNodes :
                Link(n, l) /\ memory' = AppendEmergencyNode(memory, l, n)
    <3> PICK l \in ListNames, n \in EmergencyNodes :
                Link(n, l) /\ memory' = AppendEmergencyNode(memory, l, n)
      BY <2>2
    <3>1. Free(lists, n)
      <4> SUFFICES ASSUME NEW k \in ListNames PROVE n \notin ToSet(lists[k])
        BY DEF Free
      <4>1. ~Contains(lists[k], n)
        BY DEF Link, Linked
      <4> QED  BY <4>1 DEF Contains, ToSet
    <3>2. lists' = [lists EXCEPT ![l] = Append(@, n)]
      BY DEF Link
    <3>3. Holds(AppendEmergencyNode(memory, l, n), [lists EXCEPT ![l] = Append(@, n)])
      BY <3>1, AppendHolds
    <3>4. memory' = AppendEmergencyNode(memory, l, n)
      OBVIOUS
    <3> QED  BY <3>2, <3>3, <3>4
  <2>3. CASE \E from, to \in ListNames : \E n \in ToSet(lists[from]) :
                \/ MoveToEnd(n, from, to) /\ memory' = ChangeListAppend(memory, n, to)
                \/ MoveToFront(n, from, to) /\ memory' = ChangeListPush(memory, n, to)
    BY <2>3, MoveHolds
  <2>4. CASE UNCHANGED <<lists, memory>>
    BY <2>4
  <2> QED  BY <2>1, <2>2, <2>3, <2>4 DEF PointersNext
<1> QED  BY <1>1, <1>2, PTL DEF PointersSpec

(* and why they may be called in no other way: node->list stays when a node *)
(* leaves, so that removing it again cuts all the other nodes off the list. *)
THEOREM SecondRemovalCutsOff ==
    ASSUME NEW m, NEW f, Holds(m, f), NEW l \in ListNames, NEW n \in ToSet(f[l])
    PROVE  LET o == RemoveEmergencyNode(RemoveEmergencyNode(m, n), n)
           IN  /\ o.head[l] = NULL /\ o.tail[l] = NULL
               /\ o.node_amount[l] = Len(f[l]) - 2
<1>1. m \in Memory
  BY DEF Holds
<1>s. PICK s \in Seq(EmergencyNodes) : s = f[l]
  BY DEF Holds
<1>2. PICK c \in 1 .. Len(s) : s[c] = n
  BY <1>s DEF ToSet
<1>3. n \in EmergencyNodes
  BY <1>2
<1>4. m.list[n] = l
  BY <1>s, <1>2, HeldList
<1>5. m.node_amount[l] = Len(s)
  BY <1>s, HeldList
<1>o. PICK o : o = RemoveEmergencyNode(m, n)
  OBVIOUS
<1>6. /\ o \in Memory
      /\ o.list[n] = l
      /\ o.prev[n] = NULL /\ o.next[n] = NULL
      /\ o.node_amount[l] = Len(s) - 1
  BY <1>1, <1>o, <1>3, <1>4, <1>5, RemovePointers
<1>p. PICK p : p = RemoveEmergencyNode(o, n)
  OBVIOUS
<1>7. p.head[l] = NULL /\ p.tail[l] = NULL
  BY <1>p, <1>3, <1>6, RemovePointers
<1>8. p.node_amount[l] = o.node_amount[l] - 1
  BY <1>p, <1>3, <1>6, RemovePointers
<1>9. p.node_amount[l] = Len(s) - 2
  BY <1>6, <1>8
<1> QED  BY <1>s, <1>o, <1>p, <1>7, <1>9

=============================================================================
