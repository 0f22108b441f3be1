------------------------------- MODULE LogProofs -------------------------------
(***************************************************************************)
(* What is proved about the log facility, for every number of processes    *)
(* and threads, every capacity and every number of events:                 *)
(*   LogIsTyped            nothing outgrows its capacity                   *)
(*   CloserLeavesNothing   log_close waits for the lines of its thread     *)
(*   LogImplementsChannel  the circular buffers are bounded FIFOs          *)
(*   ThreadOrderIsKept     a thread's lines keep their order to the file   *)
(* the first three from one inductive invariant, LogInv, the last from     *)
(* OrderInv on top of it.                                                  *)
(***************************************************************************)
EXTENDS LogFacility, TLAPS

--------------------------------------------------------------------------------
(* Indices modulo the capacity. *)

(* A number below twice the capacity is wrapped at most once. *)
LEMMA ModOnce ==
    ASSUME NEW C \in Nat \ {0}, NEW k \in 0 .. 2 * C - 1
    PROVE  k % C = IF k < C THEN k ELSE k - C
  <1>1. CASE k < C
    BY <1>1
  <1>2. CASE k >= C
    BY <1>2
  <1> QED BY <1>1, <1>2

(* The tail after an enqueue is where the new count says. *)
LEMMA TailMoves ==
    ASSUME NEW C \in Nat \ {0}, NEW h \in 0 .. C - 1, NEW n \in 0 .. C - 1
    PROVE  (((h + n) % C) + 1) % C = (h + (n + 1)) % C
  <1> DEFINE Wrap(k) == IF k < C THEN k ELSE k - C
  <1>1. \A k \in 0 .. 2 * C - 1 : k % C = Wrap(k)
    BY ModOnce
  <1>2. h + n \in 0 .. 2 * C - 1 /\ h + (n + 1) \in 0 .. 2 * C - 1
    OBVIOUS
  <1>3. Wrap(h + n) + 1 \in 0 .. 2 * C - 1
    OBVIOUS
  <1>4. Wrap(Wrap(h + n) + 1) = Wrap(h + (n + 1))
    OBVIOUS
  <1> HIDE DEF Wrap
  <1> QED BY <1>1, <1>2, <1>3, <1>4, Zenon

(* A full slot is not the one the tail points to. *)
LEMMA OtherSlot ==
    ASSUME NEW C \in Nat \ {0}, NEW h \in 0 .. C - 1, NEW n \in 0 .. C - 1,
           NEW i \in 1 .. n
    PROVE  (h + i - 1) % C # (h + n) % C
  <1> DEFINE Wrap(k) == IF k < C THEN k ELSE k - C
  <1>1. \A k \in 0 .. 2 * C - 1 : k % C = Wrap(k)
    BY ModOnce
  <1>2. h + i - 1 \in 0 .. 2 * C - 1 /\ h + n \in 0 .. 2 * C - 1
    OBVIOUS
  <1>3. Wrap(h + i - 1) # Wrap(h + n)
    OBVIOUS
  <1> HIDE DEF Wrap
  <1> QED BY <1>1, <1>2, <1>3, Zenon

(* The tail stays where it is when a line leaves at the head. *)
LEMMA HeadMoves ==
    ASSUME NEW C \in Nat \ {0}, NEW h \in 0 .. C - 1, NEW n \in 1 .. C
    PROVE  (((h + 1) % C) + (n - 1)) % C = (h + n) % C
  <1> DEFINE Wrap(k) == IF k < C THEN k ELSE k - C
  <1>1. \A k \in 0 .. 2 * C - 1 : k % C = Wrap(k)
    BY ModOnce
  <1>2. h + 1 \in 0 .. 2 * C - 1 /\ h + n \in 0 .. 2 * C - 1
    OBVIOUS
  <1>3. Wrap(h + 1) + (n - 1) \in 0 .. 2 * C - 1
    OBVIOUS
  <1>4. Wrap(Wrap(h + 1) + (n - 1)) = Wrap(h + n)
    OBVIOUS
  <1> HIDE DEF Wrap
  <1> QED BY <1>1, <1>2, <1>3, <1>4, Zenon

--------------------------------------------------------------------------------
(* The ring. *)

(* The indices of a ring and its count tell the same, and there is a       *)
(* message in every slot between them.                                     *)
RingOK ==
    /\ RingsTypeOK
    /\ \A p \in Processes : tail[p] = (head[p] + count[p]) % Capacity
    /\ \A p \in Processes : Pending(p) \in Seq(Messages)

(* A sequence is a function on its positions. *)
LEMMA SeqIsFunction ==
    ASSUME NEW S, NEW s \in Seq(S)
    PROVE  s = [i \in 1 .. Len(s) |-> s[i]]
  OBVIOUS

LEMMA ToSetAppend ==
    ASSUME NEW S, NEW s \in Seq(S), NEW e \in S
    PROVE  ToSet(Append(s, e)) = ToSet(s) \cup {e}
  <1>1. /\ Len(s) \in Nat /\ DOMAIN s = 1 .. Len(s)
        /\ DOMAIN Append(s, e) = 1 .. Len(s) + 1
        /\ Append(s, e)[Len(s) + 1] = e
        /\ \A i \in 1 .. Len(s) : Append(s, e)[i] = s[i]
    OBVIOUS
  <1>2. \A i \in 1 .. Len(s) + 1 : i = Len(s) + 1 \/ i \in 1 .. Len(s)
    BY <1>1
  <1>3. Len(s) + 1 \in 1 .. Len(s) + 1 /\ 1 .. Len(s) \subseteq 1 .. Len(s) + 1
    BY <1>1
  <1> QED BY <1>1, <1>2, <1>3, Zenon DEF ToSet

LEMMA ToSetConcat ==
    ASSUME NEW S, NEW s \in Seq(S), NEW r \in Seq(S)
    PROVE  ToSet(s \o r) = ToSet(s) \cup ToSet(r)
  <1>1. /\ Len(s) \in Nat /\ DOMAIN s = 1 .. Len(s)
        /\ Len(r) \in Nat /\ DOMAIN r = 1 .. Len(r)
        /\ DOMAIN (s \o r) = 1 .. Len(s) + Len(r)
        /\ \A i \in 1 .. Len(s) : (s \o r)[i] = s[i]
        /\ \A i \in 1 .. Len(r) : (s \o r)[Len(s) + i] = r[i]
    OBVIOUS
  <1>2. \A i \in 1 .. Len(s) + Len(r) :
            i \in 1 .. Len(s) \/ \E j \in 1 .. Len(r) : i = Len(s) + j
    <2>1. \A i \in 1 .. Len(s) + Len(r) :
              i \in 1 .. Len(s) \/ (i - Len(s) \in 1 .. Len(r) /\ i = Len(s) + (i - Len(s)))
      BY <1>1
    <2> QED BY <2>1, Zenon
  <1>3. /\ \A i \in 1 .. Len(s) : i \in 1 .. Len(s) + Len(r)
        /\ \A j \in 1 .. Len(r) : Len(s) + j \in 1 .. Len(s) + Len(r)
    BY <1>1
  <1>4. ToSet(s \o r) \subseteq ToSet(s) \cup ToSet(r)
    <2> SUFFICES ASSUME NEW i \in 1 .. Len(s) + Len(r)
                 PROVE  (s \o r)[i] \in ToSet(s) \cup ToSet(r)
      BY <1>1, Zenon DEF ToSet
    <2>1. CASE i \in 1 .. Len(s)
      BY <1>1, <2>1, Zenon DEF ToSet
    <2>2. CASE \E j \in 1 .. Len(r) : i = Len(s) + j
      BY <1>1, <2>2, Zenon DEF ToSet
    <2> QED BY <1>2, <2>1, <2>2
  <1>5. ToSet(s) \subseteq ToSet(s \o r)
    BY <1>1, <1>3, Zenon DEF ToSet
  <1>6. ToSet(r) \subseteq ToSet(s \o r)
    BY <1>1, <1>3, Zenon DEF ToSet
  <1> QED BY <1>4, <1>5, <1>6

(* What is pending is as long as the count, and lies in the ring. *)
LEMMA PendingLen ==
    ASSUME RingOK, NEW p \in Processes
    PROVE  /\ Len(Pending(p)) = count[p]
           /\ \A i \in 1 .. count[p] :
                 Pending(p)[i] = buffer[p][(head[p] + i - 1) % Capacity]
  <1>1. DOMAIN Pending(p) = 1 .. count[p] /\ count[p] \in Nat
    BY DEF Pending, RingOK, RingsTypeOK
  <1>2. Len(Pending(p)) \in Nat /\ DOMAIN Pending(p) = 1 .. Len(Pending(p))
    BY DEF RingOK
  <1>3. Len(Pending(p)) = count[p]
    BY <1>1, <1>2
  <1> QED BY <1>3 DEF Pending

(* An enqueued message that finds room is appended to what is pending,     *)
(* whatever slot it lands in, and the indices stay in step.                *)
LEMMA PutAppends ==
    ASSUME RingOK, NEW p \in Processes, NEW m \in Messages, Put(p, m)
    PROVE  /\ RingOK'
           /\ \A q \in Processes :
                 Pending(q)' = IF q = p /\ HasRoom(p) THEN Append(Pending(p), m)
                               ELSE Pending(q)
  <1>1. CASE ~HasRoom(p)
    BY <1>1 DEF Put, ringVars, RingOK, RingsTypeOK, Pending
  <1>2. CASE HasRoom(p)
    <2>1. /\ buffer' = [buffer EXCEPT ![p][tail[p]] = m]
          /\ tail' = [tail EXCEPT ![p] = Succ(@)]
          /\ count' = [count EXCEPT ![p] = @ + 1]
          /\ head' = head
      BY <1>2 DEF Put
    <2>2. /\ Capacity \in Nat \ {0}
          /\ head[p] \in 0 .. Capacity - 1
          /\ count[p] \in 0 .. Capacity - 1
      BY <1>2, SizesAssumption DEF RingOK, RingsTypeOK, HasRoom, Slots
    <2>3. tail'[p] = (head'[p] + count'[p]) % Capacity
      <3>1. tail'[p] = (((head[p] + count[p]) % Capacity) + 1) % Capacity
        BY <2>1 DEF RingOK, RingsTypeOK, Succ
      <3>2. head'[p] + count'[p] = head[p] + (count[p] + 1)
        BY <2>1 DEF RingOK, RingsTypeOK
      <3> QED BY <2>2, <3>1, <3>2, TailMoves
    <2>4. tail'[p] \in Slots
      BY <2>1, <2>2 DEF RingOK, RingsTypeOK, Succ, Slots
    <2>5. RingsTypeOK'
      BY <2>1, <2>2, <2>4 DEF RingOK, RingsTypeOK
    <2>6. Append(Pending(p), m) \in Seq(Messages)
      BY DEF RingOK
    <2>7. Pending(p)' = Append(Pending(p), m)
      <3>1. /\ Len(Append(Pending(p), m)) = count'[p]
            /\ count'[p] = count[p] + 1 /\ count[p] \in Nat
            /\ Append(Pending(p), m)[count[p] + 1] = m
            /\ \A i \in 1 .. count[p] : Append(Pending(p), m)[i] = Pending(p)[i]
        BY <2>1, PendingLen DEF RingOK, RingsTypeOK
      <3>2. ASSUME NEW i \in 1 .. count'[p]
            PROVE  Append(Pending(p), m)[i]
                       = buffer'[p][(head'[p] + i - 1) % Capacity]
        <4> DEFINE slot == (head[p] + i - 1) % Capacity
        <4>1. slot \in Slots /\ head'[p] = head[p]
          BY <2>1, <2>2 DEF Slots, RingOK, RingsTypeOK
        <4>2. CASE i = count[p] + 1
          <5>1. slot = tail[p]
            BY <2>2, <4>2 DEF RingOK
          <5> QED BY <2>1, <3>1, <4>1, <4>2, <5>1 DEF RingOK, RingsTypeOK
        <4>3. CASE i # count[p] + 1
          <5>1. i \in 1 .. count[p]
            BY <3>1, <4>3
          <5>2. Append(Pending(p), m)[i] = buffer[p][slot]
            BY <3>1, <5>1, PendingLen
          <5>3. slot # tail[p]
            BY <2>2, <5>1, OtherSlot DEF RingOK
          <5> QED BY <2>1, <4>1, <5>2, <5>3 DEF RingOK, RingsTypeOK
        <4> QED BY <4>2, <4>3
      <3>3. Append(Pending(p), m) = [i \in 1 .. count'[p] |-> Append(Pending(p), m)[i]]
        BY <2>6, <3>1, SeqIsFunction
      <3>4. Pending(p)' = [i \in 1 .. count'[p] |-> Append(Pending(p), m)[i]]
        BY <3>2 DEF Pending
      <3> QED BY <3>3, <3>4
    <2>8. \A q \in Processes \ {p} : Pending(q)' = Pending(q)
      BY <2>1 DEF Pending, RingOK, RingsTypeOK
    <2>9. \A q \in Processes : tail'[q] = (head'[q] + count'[q]) % Capacity
      BY <2>1, <2>3 DEF RingOK, RingsTypeOK
    <2>10. RingOK'
      BY <2>5, <2>6, <2>7, <2>8, <2>9 DEF RingOK
    <2> QED BY <1>2, <2>7, <2>8, <2>10
  <1> QED BY <1>1, <1>2

(* The line that leaves at the head is the first of what is pending. *)
LEMMA SendTakesFirst ==
    ASSUME RingOK, NEW p \in Processes, count[p] > 0,
           head' = [head EXCEPT ![p] = Succ(@)],
           count' = [count EXCEPT ![p] = @ - 1],
           UNCHANGED <<buffer, tail>>
    PROVE  /\ RingOK'
           /\ Pending(p) # <<>> /\ Head(Pending(p)) = buffer[p][head[p]]
           /\ \A q \in Processes :
                 Pending(q)' = IF q = p THEN Tail(Pending(p)) ELSE Pending(q)
  <1>1. /\ Capacity \in Nat \ {0}
        /\ head[p] \in 0 .. Capacity - 1
        /\ count[p] \in 1 .. Capacity
    BY SizesAssumption DEF RingOK, RingsTypeOK, Slots
  <1>2. head'[p] = (head[p] + 1) % Capacity /\ count'[p] = count[p] - 1
    BY DEF Succ, RingOK, RingsTypeOK
  <1>3. \A q \in Processes : tail'[q] = (head'[q] + count'[q]) % Capacity
    <2>1. (head'[p] + count'[p]) % Capacity = (head[p] + count[p]) % Capacity
      BY <1>1, <1>2, HeadMoves
    <2> QED BY <2>1 DEF RingOK, RingsTypeOK
  <1>4. RingsTypeOK'
    <2>1. head'[p] \in Slots /\ count'[p] \in 0 .. Capacity
      BY <1>1, <1>2 DEF Slots
    <2> QED BY <2>1 DEF RingOK, RingsTypeOK
  <1>5. Pending(p) \in Seq(Messages) /\ Len(Pending(p)) = count[p]
    BY PendingLen DEF RingOK
  <1>6. Pending(p) # <<>>
    BY <1>1, <1>5
  <1>7. Head(Pending(p)) = buffer[p][head[p]]
    <2>1. (head[p] + 1 - 1) % Capacity = head[p]
      BY <1>1
    <2>2. Pending(p)[1] = buffer[p][(head[p] + 1 - 1) % Capacity]
      BY <1>1, PendingLen
    <2> QED BY <1>5, <1>6, <2>1, <2>2
  <1>8. Pending(p)' = Tail(Pending(p))
    <2>1. /\ Tail(Pending(p)) \in Seq(Messages)
          /\ Len(Tail(Pending(p))) = count'[p]
          /\ \A i \in 1 .. count'[p] : Tail(Pending(p))[i] = Pending(p)[i + 1]
      BY <1>1, <1>2, <1>5, <1>6
    <2>2. ASSUME NEW i \in 1 .. count'[p]
          PROVE  Tail(Pending(p))[i] = buffer'[p][(head'[p] + i - 1) % Capacity]
      <3>1. i + 1 \in 1 .. count[p]
        BY <1>1, <1>2
      <3>2. Tail(Pending(p))[i] = buffer[p][(head[p] + (i + 1) - 1) % Capacity]
        BY <2>1, <3>1, PendingLen
      <3>3. i \in 1 .. Capacity
        BY <1>1, <1>2
      <3>4. (((head[p] + 1) % Capacity) + (i - 1)) % Capacity = (head[p] + i) % Capacity
        BY <1>1, <3>3, HeadMoves
      <3>5. /\ head'[p] + i - 1 = ((head[p] + 1) % Capacity) + (i - 1)
            /\ head[p] + (i + 1) - 1 = head[p] + i
        BY <1>1, <1>2, <3>3
      <3> QED BY <3>2, <3>4, <3>5
    <2>3. Tail(Pending(p)) = [i \in 1 .. count'[p] |-> Tail(Pending(p))[i]]
      BY <2>1, SeqIsFunction
    <2>4. Pending(p)' = [i \in 1 .. count'[p] |-> Tail(Pending(p))[i]]
      BY <2>2 DEF Pending
    <2> QED BY <2>3, <2>4
  <1>9. \A q \in Processes \ {p} : Pending(q)' = Pending(q)
    BY DEF Pending, RingOK, RingsTypeOK
  <1>10. RingOK'
    <2>1. Tail(Pending(p)) \in Seq(Messages)
      BY <1>5, <1>6
    <2> QED BY <1>3, <1>4, <1>8, <1>9, <2>1 DEF RingOK
  <1> QED BY <1>6, <1>7, <1>8, <1>9, <1>10

--------------------------------------------------------------------------------
(* The inductive invariant. *)

(* What a thread is about to enqueue is a line of its own. *)
ThreadsOK ==
    /\ ThreadsTypeOK
    /\ \A t \in Threads :
          pc[t] \in {"put", "putFatal"} => line[t] \in Lines /\ line[t].by = t

(* A turn never exceeds the lines there are; a sender ends only after      *)
(* somebody asked for it, and who asked is still there.                    *)
SendersOK ==
    /\ SendersTypeOK
    /\ \A p \in Processes : sender[p] = "sending" => to_send[p] <= count[p]
    /\ \A p \in Processes : sender[p] = "done" => finished[p]
    /\ \A p \in Processes :
          finished[p] => \E t \in Threads : ProcessOf[t] = p /\ pc[t] = "join"

LogInv ==
    /\ running \subseteq Processes
    /\ RingOK /\ ThreadsOK /\ SendersOK /\ LoggerTypeOK
    /\ CloseSendsItsLines

LEMMA LogInit == Init => LogInv
  <1> SUFFICES ASSUME Init PROVE LogInv
    OBVIOUS
  <1> USE DEF Init
  <1>1. RingOK
    <2>1. 0 \in Slots /\ 0 \in 0 .. Capacity /\ (0 + 0) % Capacity = 0
      BY SizesAssumption DEF Slots
    <2>2. \A p \in Processes : Pending(p) = <<>>
      BY DEF Pending
    <2>3. RingsTypeOK
      BY <2>1 DEF RingsTypeOK
    <2>4. \A p \in Processes : tail[p] = (head[p] + count[p]) % Capacity
      BY <2>1
    <2>5. \A p \in Processes : Pending(p) \in Seq(Messages)
      <3>1. <<>> \in Seq(Messages)
        OBVIOUS
      <3> QED BY <2>2, <3>1, Zenon
    <2> QED BY <2>3, <2>4, <2>5, Zenon DEF RingOK
  <1>2. ThreadsOK
    BY SizesAssumption DEF ThreadsOK, ThreadsTypeOK
  <1>3. SendersOK
    BY SizesAssumption DEF SendersOK, SendersTypeOK
  <1>4. LoggerTypeOK
    BY SizesAssumption DEF LoggerTypeOK
  <1>5. CloseSendsItsLines
    BY DEF CloseSendsItsLines
  <1> QED BY <1>1, <1>2, <1>3, <1>4, <1>5 DEF LogInv

(* Whoever enqueues, the pending messages of the others are the same and   *)
(* his own are only more by his.                                           *)
LEMMA PutStepRings ==
    ASSUME LogInv, NEW p \in Processes, NEW m \in Messages, Put(p, m),
           BufferIsFree(p), UNCHANGED senderVars
    PROVE  /\ RingOK'
           /\ \A q \in Processes :
                 ToSet(Pending(q)') \subseteq
                     ToSet(Pending(q)) \cup (IF q = p THEN {m} ELSE {})
           /\ \A q \in Processes : sender[q] = "sending" => count'[q] = count[q]
  <1>1. ToSet(Append(Pending(p), m)) = ToSet(Pending(p)) \cup {m}
    BY ToSetAppend DEF LogInv, RingOK
  <1>2. /\ RingOK'
        /\ \A q \in Processes :
              Pending(q)' = IF q = p /\ HasRoom(p) THEN Append(Pending(p), m)
                            ELSE Pending(q)
    BY PutAppends DEF LogInv
  <1>3. \A q \in Processes : sender[q] = "sending" => count'[q] = count[q]
    BY DEF BufferIsFree, Put, ringVars, LogInv, RingOK, RingsTypeOK
  <1> QED BY <1>1, <1>2, <1>3

LEMMA PutLineStep ==
    ASSUME LogInv, NEW t \in Threads, PutLine(t)
    PROVE  LogInv'
  <1> DEFINE p == ProcessOf[t]
  <1>1. p \in Processes
    BY ProcessesAssumption
  <1>2. line[t] \in Lines /\ line[t].by = t
    BY DEF LogInv, ThreadsOK, ThreadsTypeOK, PutLine
  <1>3. Put(p, line[t]) /\ line[t] \in Messages
    BY <1>2 DEF PutLine, Messages
  <1>4. /\ RingOK'
        /\ \A q \in Processes :
              ToSet(Pending(q)') \subseteq
                  ToSet(Pending(q)) \cup (IF q = p THEN {line[t]} ELSE {})
        /\ \A q \in Processes : sender[q] = "sending" => count'[q] = count[q]
    <2>1. BufferIsFree(p) /\ UNCHANGED senderVars
      BY DEF PutLine
    <2> HIDE DEF p
    <2> QED BY <1>1, <1>3, <2>1, PutStepRings
  <1>5. ThreadsOK'
    BY DEF LogInv, ThreadsOK, ThreadsTypeOK, PutLine, Goes
  <1>6. SendersOK'
    <2>2. \A u \in Threads : pc[u] = "join" => pc'[u] = "join"
      BY DEF PutLine, Goes, LogInv, ThreadsOK, ThreadsTypeOK
    <2> QED BY <1>4, <2>2 DEF PutLine, senderVars, LogInv, SendersOK, SendersTypeOK
  <1>7. CloseSendsItsLines'
    <2> SUFFICES ASSUME NEW q \in Processes, NEW u \in Threads,
                        Closers(q)' = {u}, pc'[u] = "join", sender'[q] = "done",
                        NEW m \in ToSet(Pending(q)')
                 PROVE  m # Stop /\ m.by # u
      BY DEF CloseSendsItsLines
    <2>1. u # t /\ pc[u] = "join"
      BY DEF PutLine, Goes, LogInv, ThreadsOK, ThreadsTypeOK
    <2>2. Closers(q) = {u}
      <3>1. ~(q = p /\ pc'[t] = "putStop")
        BY <2>1 DEF Closers
      <3>2. \A v \in Threads \ {t} : pc'[v] = pc[v]
        BY DEF PutLine, Goes, LogInv, ThreadsOK, ThreadsTypeOK
      <3>3. pc[t] \in {"put", "putFatal"} /\ pc'[t] \in {"idle", "putStop"}
        BY DEF PutLine, Goes, LogInv, ThreadsOK, ThreadsTypeOK
      <3> QED BY <3>1, <3>2, <3>3 DEF Closers
    <2>3. m \in ToSet(Pending(q)) \/ m = line[t]
      BY <1>4
    <2>4. CASE m \in ToSet(Pending(q))
      BY <2>1, <2>2, <2>4 DEF LogInv, CloseSendsItsLines, PutLine, senderVars
    <2>5. CASE m = line[t]
      BY <1>2, <2>1, <2>5, MessagesAssumption
    <2> QED BY <2>3, <2>4, <2>5
  <1>8. running' \subseteq Processes /\ LoggerTypeOK'
    BY DEF PutLine, loggerVars, LogInv, LoggerTypeOK
  <1> QED BY <1>4, <1>5, <1>6, <1>7, <1>8 DEF LogInv

LEMMA PutStopStep ==
    ASSUME LogInv, NEW t \in Threads, PutStop(t)
    PROVE  LogInv'
  <1> DEFINE p == ProcessOf[t]
  <1>1. p \in Processes
    BY ProcessesAssumption
  <1>2. Put(p, Stop) /\ Stop \in Messages
    BY DEF PutStop, Messages
  <1>3. /\ RingOK'
        /\ \A q \in Processes :
              ToSet(Pending(q)') \subseteq
                  ToSet(Pending(q)) \cup (IF q = p THEN {Stop} ELSE {})
        /\ \A q \in Processes : sender[q] = "sending" => count'[q] = count[q]
    <2>1. BufferIsFree(p) /\ UNCHANGED senderVars
      BY DEF PutStop
    <2> HIDE DEF p
    <2> QED BY <1>1, <1>2, <2>1, PutStepRings
  <1>4. ThreadsOK'
    BY DEF LogInv, ThreadsOK, ThreadsTypeOK, PutStop, Goes
  <1>5. SendersOK'
    <2>2. \A u \in Threads : pc[u] = "join" => pc'[u] = "join"
      BY DEF PutStop, Goes, LogInv, ThreadsOK, ThreadsTypeOK
    <2> QED BY <1>3, <2>2 DEF PutStop, senderVars, LogInv, SendersOK, SendersTypeOK
  <1>6. CloseSendsItsLines'
    <2> SUFFICES ASSUME NEW q \in Processes, NEW u \in Threads,
                        Closers(q)' = {u}, pc'[u] = "join", sender'[q] = "done",
                        NEW m \in ToSet(Pending(q)')
                 PROVE  m # Stop /\ m.by # u
      BY DEF CloseSendsItsLines
    <2>1. u # t /\ pc[u] = "join"
      BY DEF PutStop, Goes, LogInv, ThreadsOK, ThreadsTypeOK
    <2>2. q # p
      BY <2>1 DEF Closers, PutStop, Goes, LogInv, ThreadsOK, ThreadsTypeOK
    <2>3. Closers(q) = {u}
      BY <2>2 DEF Closers, PutStop, Goes, LogInv, ThreadsOK, ThreadsTypeOK
    <2>4. m \in ToSet(Pending(q))
      BY <1>3, <2>2
    <2> QED BY <2>1, <2>3, <2>4 DEF LogInv, CloseSendsItsLines, PutStop, senderVars
  <1>7. running' \subseteq Processes /\ LoggerTypeOK'
    BY DEF PutStop, loggerVars, LogInv, LoggerTypeOK
  <1> QED BY <1>3, <1>4, <1>5, <1>6, <1>7 DEF LogInv

(* A thread that changes its own place only, or says that logging is       *)
(* finished, leaves the ring alone.                                        *)
LEMMA OtherThreadStep ==
    ASSUME LogInv, NEW t \in Threads,
           BeginEvent(t) \/ EndClient(t) \/ BeginClose(t) \/ EndClose(t)
    PROVE  LogInv'
  <1> USE DEF LogInv, ThreadsTypeOK, SendersTypeOK, ringVars, senderVars, threadVars, loggerVars, Goes
  <1>1. RingOK' /\ (\A q \in Processes : Pending(q)' = Pending(q))
    <2>1. UNCHANGED ringVars
      BY DEF BeginEvent, EndClient, BeginClose, EndClose
    <2> QED BY <2>1 DEF RingOK, RingsTypeOK, Pending
  <1>a. running' \subseteq Processes /\ LoggerTypeOK'
    BY DEF BeginEvent, EndClient, BeginClose, EndClose, LoggerTypeOK
  <1>2. CASE BeginEvent(t)
    <2>1. ThreadsOK'
      <3>1. line'[t] = [by |-> t, timestamp |-> events'] /\ events' \in 1 .. MaxEvents
        BY <1>2, SizesAssumption DEF BeginEvent, ThreadsOK
      <3>2. line'[t] \in Lines /\ line'[t].by = t
        BY <3>1 DEF Lines
      <3>3. \A u \in Threads \ {t} : line'[u] = line[u] /\ pc'[u] = pc[u]
        BY <1>2 DEF BeginEvent, ThreadsOK
      <3>4. /\ line' \in [Threads -> Lines \cup {Empty}]
            /\ pc' \in [Threads -> {"idle", "put", "putFatal", "putStop", "close", "join"}]
        BY <1>2, <3>2 DEF BeginEvent, ThreadsOK
      <3> QED BY <3>1, <3>2, <3>3, <3>4 DEF ThreadsOK
    <2>2. SendersOK'
      BY <1>2 DEF BeginEvent, SendersOK, ThreadsOK
    <2>3. \A q \in Processes : Closers(q)' = Closers(q)
      BY <1>2 DEF BeginEvent, Closers, ThreadsOK
    <2>4. \A u \in Threads : pc'[u] = "join" => pc[u] = "join"
      BY <1>2 DEF BeginEvent, ThreadsOK
    <2>5. CloseSendsItsLines'
      BY <1>1, <1>2, <2>3, <2>4 DEF CloseSendsItsLines, BeginEvent
    <2> QED BY <1>1, <1>a, <2>1, <2>2, <2>5
  <1>3. CASE EndClient(t)
    <2>1. ThreadsOK'
      BY <1>3 DEF EndClient, ThreadsOK
    <2>2. SendersOK'
      BY <1>3 DEF EndClient, SendersOK, ThreadsOK
    <2>3. CloseSendsItsLines'
      <3>1. \A q \in Processes \ {ProcessOf[t]} : Closers(q)' = Closers(q)
        BY <1>3 DEF EndClient, Closers, ThreadsOK
      <3>2. t \in Closers(ProcessOf[t])' /\ pc'[t] = "close"
        BY <1>3 DEF EndClient, Closers, ThreadsOK
      <3>3. \A u \in Threads : pc'[u] = "join" => pc[u] = "join"
        BY <1>3 DEF EndClient, ThreadsOK
      <3> QED BY <1>1, <1>3, <3>1, <3>2, <3>3 DEF CloseSendsItsLines, EndClient
    <2> QED BY <1>1, <1>a, <2>1, <2>2, <2>3
  <1>4. CASE BeginClose(t)
    <2>1. ThreadsOK'
      BY <1>4 DEF BeginClose, ThreadsOK
    <2>2. SendersOK'
      BY <1>4, ProcessesAssumption DEF BeginClose, SendersOK, ThreadsOK
    <2>3. CloseSendsItsLines'
      <3>1. \A q \in Processes : Closers(q)' = Closers(q)
        BY <1>4 DEF BeginClose, Closers, ThreadsOK
      <3>2. \A u \in Threads \ {t} : pc'[u] = pc[u]
        BY <1>4 DEF BeginClose, ThreadsOK
      <3>3. t \in Closers(ProcessOf[t]) /\ pc[t] = "close"
        BY <1>4 DEF BeginClose, Closers
      <3>4. ~(sender[ProcessOf[t]] = "done" /\ Closers(ProcessOf[t]) = {t})
        BY <3>3, ProcessesAssumption DEF SendersOK, Closers
      <3>5. \A q \in Processes : t \in Closers(q) => q = ProcessOf[t]
        BY DEF Closers
      <3> QED BY <1>1, <1>4, <3>1, <3>2, <3>4, <3>5 DEF CloseSendsItsLines, BeginClose
    <2> QED BY <1>1, <1>a, <2>1, <2>2, <2>3
  <1>5. CASE EndClose(t)
    <2>1. ThreadsOK' /\ SendersOK'
      BY <1>5 DEF EndClose, ThreadsOK, SendersOK
    <2>2. CloseSendsItsLines'
      BY <1>1, <1>5 DEF EndClose, CloseSendsItsLines, Closers
    <2> QED BY <1>1, <1>a, <2>1, <2>2
  <1> QED BY <1>2, <1>3, <1>4, <1>5

LEMMA SenderStep ==
    ASSUME LogInv, NEW p \in Processes, Sender(p)
    PROVE  LogInv'
  <1> USE DEF LogInv, SendersTypeOK, ringVars, senderVars, threadVars, loggerVars
  <1>1. /\ ThreadsOK' /\ running' \subseteq Processes
        /\ \A q \in Processes : Closers(q)' = Closers(q)
    BY DEF Sender, BeginTurn, SendLine, EndTurn, ThreadsOK, ThreadsTypeOK, Closers
  <1>2. CASE BeginTurn(p)
    <2>1. RingOK' /\ (\A q \in Processes : Pending(q)' = Pending(q))
      BY <1>2 DEF BeginTurn, RingOK, RingsTypeOK, Pending
    <2>2. SendersOK'
      <3>1. TurnOf(p) \in 0 .. Batch /\ TurnOf(p) <= count[p]
        BY SizesAssumption DEF TurnOf, AtMost, RingOK, RingsTypeOK
      <3> QED BY <1>2, <3>1 DEF BeginTurn, SendersOK
    <2>3. LoggerTypeOK'
      BY <1>2 DEF BeginTurn, LoggerTypeOK
    <2>4. CloseSendsItsLines'
      BY <1>1, <1>2, <2>1 DEF BeginTurn, CloseSendsItsLines, SendersOK
    <2> QED BY <1>1, <2>1, <2>2, <2>3, <2>4
  <1>3. CASE SendLine(p)
    <2>1. count[p] > 0 /\ count[p] \in Nat /\ to_send[p] - 1 \in 0 .. Batch
      BY <1>3, SizesAssumption DEF SendLine, RingOK, RingsTypeOK, SendersOK
    <2>2. /\ RingOK'
          /\ Pending(p) # <<>> /\ Head(Pending(p)) = buffer[p][head[p]]
          /\ \A q \in Processes :
                Pending(q)' = IF q = p THEN Tail(Pending(p)) ELSE Pending(q)
      BY <1>3, <2>1, SendTakesFirst DEF SendLine
    <2>3. SendersOK'
      BY <1>3, <2>1 DEF SendLine, SendersOK, RingOK, RingsTypeOK
    <2>4. LoggerTypeOK'
      <3>1. buffer[p][head[p]] \in Messages
        BY <2>2 DEF RingOK
      <3> QED BY <1>3, <3>1, SizesAssumption DEF SendLine, LoggerTypeOK
    <2>5. CloseSendsItsLines'
      BY <1>1, <1>3, <2>2 DEF SendLine, CloseSendsItsLines
    <2> QED BY <1>1, <2>2, <2>3, <2>4, <2>5
  <1>4. CASE EndTurn(p)
    <2>1. RingOK' /\ (\A q \in Processes : Pending(q)' = Pending(q))
      BY <1>4 DEF EndTurn, RingOK, RingsTypeOK, Pending
    <2>2. SendersOK'
      BY <1>4 DEF EndTurn, SendersOK, IsFinished
    <2>3. LoggerTypeOK'
      BY <1>4 DEF EndTurn, LoggerTypeOK
    <2>4. CloseSendsItsLines'
      <3>1. sender'[p] = "done" => Pending(p) = <<>>
        BY <1>4 DEF EndTurn, IsFinished, Pending, SendersOK
      <3>2. \A q \in Processes \ {p} : sender'[q] = sender[q]
        BY <1>4 DEF EndTurn, SendersOK
      <3> QED BY <1>1, <1>4, <2>1, <3>1, <3>2 DEF EndTurn, CloseSendsItsLines, ToSet
    <2> QED BY <1>1, <2>1, <2>2, <2>3, <2>4
  <1> QED BY <1>2, <1>3, <1>4 DEF Sender

(* Sorting neither loses nor invents a line. *)
LEMMA SortKeeps ==
    ASSUME NEW lines \in Seq(Lines), NEW sorted \in Sorted(lines)
    PROVE  sorted \in Seq(Lines) /\ ToSet(sorted) = ToSet(lines)
  <1>1. PICK order \in Bijection(DOMAIN lines, DOMAIN lines) :
            sorted = [i \in DOMAIN lines |-> lines[order[i]]]
    BY DEF Sorted
  <1>2. /\ order \in [DOMAIN lines -> DOMAIN lines]
        /\ \A i \in DOMAIN lines : \E j \in DOMAIN lines : order[j] = i
    BY <1>1 DEF Bijection, Injection, Surjection
  <1>3. DOMAIN lines = 1 .. Len(lines) /\ Len(lines) \in Nat
    OBVIOUS
  <1>4. \A i \in DOMAIN lines : lines[i] \in Lines
    OBVIOUS
  <1>5. sorted \in [1 .. Len(lines) -> Lines]
    BY <1>1, <1>2, <1>3, <1>4
  <1>6. sorted \in Seq(Lines)
    BY <1>3, <1>5
  <1>7. DOMAIN sorted = DOMAIN lines
    BY <1>1
  <1>8. ToSet(sorted) = ToSet(lines)
    BY <1>1, <1>2, <1>7, Zenon DEF ToSet
  <1> QED BY <1>6, <1>8

(* The logger writes and keeps lines only, and never more than it can.     *)
LEMMA LoggerStep ==
    ASSUME LogInv, Logger
    PROVE  LoggerTypeOK'
  <1> USE DEF LogInv
  <1>1. /\ queue \in Seq(Messages) /\ queue # <<>> /\ Len(queue) <= QueueCapacity
        /\ queue' = Tail(queue)
    BY DEF Logger, ReceiveLine, ReceiveStop, LoggerTypeOK
  <1>2. queue' \in Seq(Messages) /\ Len(queue') <= QueueCapacity
    BY <1>1, SizesAssumption
  <1>3. ASSUME NEW lines \in Seq(Lines), Write(lines) PROVE file' \in Seq(Lines)
    BY <1>3, SortKeeps DEF Write, LoggerTypeOK
  <1>4. CASE ReceiveStop
    <2>1. file' \in Seq(Lines)
      BY <1>3, <1>4 DEF ReceiveStop, LoggerTypeOK
    <2> QED BY <1>2, <1>4, <2>1, SizesAssumption DEF ReceiveStop, LoggerTypeOK
  <1>5. CASE ReceiveLine
    <2> DEFINE lines == Append(log_buffer, Head(queue))
    <2>1. Head(queue) \in Lines
      BY <1>1, <1>5 DEF ReceiveLine, Messages
    <2>2. lines \in Seq(Lines) /\ Len(lines) \in Nat
      BY <2>1 DEF LoggerTypeOK
    <2>3. LoggedNow \in 0 .. FlushEvery - 1
      BY SizesAssumption DEF LoggedNow, LoggerTypeOK
    <2>4. logger' = logger /\ logs_so_far' = LoggedNow
      BY <1>5 DEF ReceiveLine
    <2>5. CASE Len(lines) >= LoggerCapacity \/ LoggedNow = 0
      <3>1. Write(lines) /\ log_buffer' = <<>>
        BY <1>5, <2>5 DEF ReceiveLine
      <3>2. file' \in Seq(Lines)
        BY <1>3, <2>2, <3>1
      <3> QED BY <1>2, <2>3, <2>4, <3>1, <3>2, SizesAssumption DEF LoggerTypeOK
    <2>6. CASE ~(Len(lines) >= LoggerCapacity \/ LoggedNow = 0)
      <3>1. log_buffer' = lines /\ file' = file
        BY <1>5, <2>6 DEF ReceiveLine
      <3>2. Len(lines) < LoggerCapacity
        BY <2>2, <2>6, SizesAssumption
      <3> HIDE DEF lines
      <3> QED BY <1>2, <2>2, <2>3, <2>4, <3>1, <3>2 DEF LoggerTypeOK
    <2> QED BY <2>5, <2>6
  <1> QED BY <1>4, <1>5 DEF Logger

(* The logger, an exit and a stutter leave rings, threads and senders alone. *)
LEMMA ElsewhereStep ==
    ASSUME LogInv, Logger \/ (\E p \in Processes : Exit(p)) \/ UNCHANGED vars
    PROVE  LogInv'
  <1>1. UNCHANGED <<threadVars, ringVars, finished, senderVars>>
    BY DEF Logger, ReceiveLine, ReceiveStop, Exit, vars
  <1>2. \A q \in Processes : Pending(q)' = Pending(q) /\ Closers(q)' = Closers(q)
    BY <1>1 DEF Pending, Closers, ringVars, threadVars
  <1>3. RingOK' /\ ThreadsOK' /\ SendersOK'
    BY <1>1, <1>2 DEF LogInv, RingOK, RingsTypeOK, ThreadsOK, ThreadsTypeOK, SendersOK,
                      SendersTypeOK, threadVars, ringVars, senderVars
  <1>4. CloseSendsItsLines'
    BY <1>1, <1>2 DEF LogInv, CloseSendsItsLines, threadVars, senderVars
  <1>5. running' \subseteq Processes
    BY DEF LogInv, Logger, ReceiveLine, ReceiveStop, Exit, vars
  <1>6. LoggerTypeOK'
    <2>1. CASE Logger
      BY <2>1, LoggerStep
    <2>2. CASE UNCHANGED <<queue, loggerVars>>
      BY <2>2 DEF LogInv, LoggerTypeOK, loggerVars
    <2> QED BY <2>1, <2>2 DEF Exit, vars
  <1> QED BY <1>3, <1>4, <1>5, <1>6 DEF LogInv

--------------------------------------------------------------------------------
(* The theorems. *)

LEMMA LogInvariant == Spec => []LogInv
  <1>1. LogInv /\ [Next]_vars => LogInv'
    <2> SUFFICES ASSUME LogInv, [Next]_vars PROVE LogInv'
      OBVIOUS
    <2>1. ASSUME NEW t \in Threads, Thread(t) PROVE LogInv'
      BY <2>1, PutLineStep, PutStopStep, OtherThreadStep DEF Thread
    <2>2. ASSUME NEW p \in Processes, Sender(p) PROVE LogInv'
      BY <2>2, SenderStep
    <2>3. CASE Logger \/ (\E p \in Processes : Exit(p)) \/ UNCHANGED vars
      BY <2>3, ElsewhereStep
    <2> QED BY <2>1, <2>2, <2>3 DEF Next
  <1> QED BY LogInit, <1>1, PTL DEF Spec

(* Nothing in the log facility outgrows its capacity and no index leaves   *)
(* its ring (log.c:117-149, logger.c:51-57).                               *)
THEOREM LogIsTyped == Spec => []LogTypeOK
  <1>1. LogInv => LogTypeOK
    BY DEF LogInv, LogTypeOK, RingOK, ThreadsOK, SendersOK
  <1> QED BY LogInvariant, <1>1, PTL

(* A thread that closes the log alone and has joined the sender leaves     *)
(* neither lines of its own nor its stop message in the buffer             *)
(* (log.c:103-149).                                                        *)
THEOREM CloserLeavesNothing == Spec => []CloseSendsItsLines
  <1>1. LogInv => CloseSendsItsLines
    BY DEF LogInv
  <1> QED BY LogInvariant, <1>1, PTL

--------------------------------------------------------------------------------
(* The refinement. *)

(* The state of the channel, as LogFacility's INSTANCE maps it *)
Waiting(p) == IF p \in running THEN Pending(p) ELSE <<>>
AllWaiting == [p \in Processes |-> Waiting(p)]
Delivered  == ToSet(file) \cup ToSet(log_buffer)

LEMMA ChannelInit == Init => Channel!Init
  <1> SUFFICES ASSUME Init PROVE Channel!Init
    OBVIOUS
  <1>1. \A p \in Processes : Pending(p) = <<>>
    BY DEF Init, Pending
  <1>2. ToSet(<<>>) = {}
    BY DEF ToSet
  <1> QED BY <1>1, <1>2 DEF Init, Channel!Init

(* A step that changes neither what is pending nor what the logger has is  *)
(* none of the channel's.                                                  *)
LEMMA ChannelStutter ==
    ASSUME UNCHANGED <<running, ringVars, queue, loggerVars>>
    PROVE  UNCHANGED Channel!vars
  BY DEF Channel!vars, ringVars, loggerVars, Pending

LEMMA ChannelPut ==
    ASSUME LogInv, NEW p \in running, NEW m \in Messages, Put(p, m),
           UNCHANGED <<running, queue, loggerVars>>
    PROVE  Channel!Next \/ UNCHANGED Channel!vars
  <1> USE DEF LogInv, loggerVars
  <1>1. CASE ~HasRoom(p)
    <2>1. UNCHANGED ringVars
      BY <1>1 DEF Put
    <2> QED BY <2>1, ChannelStutter
  <1>2. CASE HasRoom(p)
    <2>1. \A q \in Processes :
              Pending(q)' = IF q = p THEN Append(Pending(p), m) ELSE Pending(q)
      BY <1>2, PutAppends
    <2>2. AllWaiting' = [AllWaiting EXCEPT ![p] = Append(@, m)]
      BY <2>1 DEF AllWaiting, Waiting
    <2>3. p \in Processes /\ Len(AllWaiting[p]) < Capacity
      BY <1>2, PendingLen DEF HasRoom, AllWaiting, Waiting
    <2>4. Channel!Put(p, m)
      BY <2>2, <2>3 DEF Channel!Put, AllWaiting, Waiting
    <2> QED BY <2>3, <2>4 DEF Channel!Next, Messages
  <1> QED BY <1>1, <1>2

LEMMA ChannelSend ==
    ASSUME LogInv, NEW p \in Processes, SendLine(p)
    PROVE  Channel!Next
  <1> USE DEF LogInv
  <1>1. count[p] > 0
    BY SizesAssumption DEF SendLine, RingOK, RingsTypeOK, SendersOK, SendersTypeOK
  <1>2. /\ Pending(p) # <<>> /\ Head(Pending(p)) = buffer[p][head[p]]
        /\ \A q \in Processes :
              Pending(q)' = IF q = p THEN Tail(Pending(p)) ELSE Pending(q)
    BY <1>1, SendTakesFirst DEF SendLine
  <1>3. AllWaiting' = [AllWaiting EXCEPT ![p] = Tail(@)]
    BY <1>2 DEF SendLine, AllWaiting, Waiting
  <1>4. AllWaiting[p] = Pending(p)
    BY DEF SendLine, AllWaiting, Waiting
  <1>5. Channel!Send(p)
    BY <1>2, <1>3, <1>4 DEF SendLine, Channel!Send, AllWaiting, Waiting, loggerVars
  <1> QED BY <1>5 DEF Channel!Next

(* What the logger received it has, in its buffer or in the file. *)
LEMMA ChannelReceive ==
    ASSUME LogInv, Logger
    PROVE  Channel!Next
  <1> USE DEF LogInv, LoggerTypeOK
  <1>1. queue # <<>> /\ queue' = Tail(queue) /\ logger = "reading" /\ running' = running
    BY DEF Logger, ReceiveLine, ReceiveStop
  <1>2. AllWaiting' = AllWaiting
    BY DEF Logger, ReceiveLine, ReceiveStop, ringVars, AllWaiting, Waiting, Pending
  <1>3. ASSUME NEW lines \in Seq(Lines), Write(lines), log_buffer' = <<>>
        PROVE  Delivered' = ToSet(file) \cup ToSet(lines)
    <2>1. PICK sorted \in Sorted(lines) : file' = file \o sorted
      BY <1>3 DEF Write
    <2>2. sorted \in Seq(Lines) /\ ToSet(sorted) = ToSet(lines)
      BY SortKeeps
    <2>3. ToSet(file') = ToSet(file) \cup ToSet(sorted)
      BY <2>1, <2>2, ToSetConcat
    <2>4. ToSet(log_buffer') = {}
      BY <1>3 DEF ToSet
    <2> QED BY <2>2, <2>3, <2>4 DEF Delivered
  <1>4. CASE ReceiveStop
    <2>1. Delivered' = Delivered
      BY <1>3, <1>4 DEF ReceiveStop, Delivered
    <2> QED BY <1>1, <1>2, <1>4, <2>1
            DEF ReceiveStop, Channel!Next, Channel!Receive, AllWaiting, Waiting, Delivered
  <1>5. CASE ReceiveLine
    <2> DEFINE lines == Append(log_buffer, Head(queue))
    <2>1. Head(queue) \in Lines /\ Head(queue) # Stop
      BY <1>1, <1>5 DEF ReceiveLine, Messages
    <2>2. lines \in Seq(Lines) /\ ToSet(lines) = ToSet(log_buffer) \cup {Head(queue)}
      BY <2>1, ToSetAppend
    <2>3. \/ Write(lines) /\ log_buffer' = <<>>
          \/ log_buffer' = lines /\ file' = file
      BY <1>5 DEF ReceiveLine
    <2>4. Delivered' = Delivered \cup {Head(queue)}
      <3> HIDE DEF lines
      <3> QED BY <1>3, <2>2, <2>3 DEF Delivered
    <2> QED BY <1>1, <1>2, <1>5, <2>1, <2>4
            DEF ReceiveLine, Channel!Next, Channel!Receive, AllWaiting, Waiting, Delivered
  <1> QED BY <1>4, <1>5 DEF Logger

LEMMA ChannelLeave ==
    ASSUME LogInv, NEW p \in running, running' = running \ {p},
           UNCHANGED <<ringVars, queue, loggerVars>>
    PROVE  Channel!Next
  <1>1. \A q \in Processes : Pending(q)' = Pending(q)
    BY DEF ringVars, Pending
  <1>2. AllWaiting' = [AllWaiting EXCEPT ![p] = <<>>]
    BY <1>1 DEF AllWaiting, Waiting
  <1>3. p \in Processes
    BY DEF LogInv
  <1>4. Channel!Leave(p)
    BY <1>2 DEF Channel!Leave, AllWaiting, Waiting, loggerVars
  <1> QED BY <1>3, <1>4 DEF Channel!Next

LEMMA ChannelStep ==
    ASSUME LogInv, [Next]_vars
    PROVE  [Channel!Next]_(Channel!vars)
  <1>1. ASSUME NEW t \in Threads, PutLine(t)
        PROVE  Channel!Next \/ UNCHANGED Channel!vars
    <2>1. ProcessOf[t] \in running /\ line[t] \in Messages
      BY <1>1 DEF PutLine, Runs, LogInv, ThreadsOK, ThreadsTypeOK, Messages
    <2> QED BY <1>1, <2>1, ChannelPut DEF PutLine
  <1>2. ASSUME NEW t \in Threads, PutStop(t)
        PROVE  Channel!Next \/ UNCHANGED Channel!vars
    <2>1. ProcessOf[t] \in running /\ Stop \in Messages
      BY <1>2 DEF PutStop, Runs, Messages
    <2> QED BY <1>2, <2>1, ChannelPut DEF PutStop
  <1>3. ASSUME NEW t \in Threads, BeginEvent(t) \/ EndClient(t) \/ BeginClose(t)
        PROVE  UNCHANGED Channel!vars
    BY <1>3, ChannelStutter DEF BeginEvent, EndClient, BeginClose
  <1>4. ASSUME NEW t \in Threads, EndClose(t)
        PROVE  Channel!Next
    BY <1>4, ChannelLeave DEF EndClose, Runs
  <1>5. ASSUME NEW p \in Processes, SendLine(p)
        PROVE  Channel!Next
    BY <1>5, ChannelSend
  <1>6. ASSUME NEW p \in Processes, BeginTurn(p) \/ EndTurn(p)
        PROVE  UNCHANGED Channel!vars
    BY <1>6, ChannelStutter DEF BeginTurn, EndTurn
  <1>7. ASSUME NEW p \in Processes, Exit(p)
        PROVE  Channel!Next
    BY <1>7, ChannelLeave DEF Exit
  <1>8. CASE Logger
    BY <1>8, ChannelReceive
  <1>9. CASE UNCHANGED vars
    BY <1>9, ChannelStutter DEF vars
  <1> QED BY <1>1, <1>2, <1>3, <1>4, <1>5, <1>6, <1>7, <1>8, <1>9
          DEF Next, Thread, Sender

(* The circular buffers, the message queue and the logger are, for every   *)
(* capacity, a bounded FIFO per process and a shared bounded queue: what   *)
(* the buffer accepts is neither repeated nor reordered on its way to the  *)
(* logger, and lost only with its process (log.c:111-149, logger.c:39-59). *)
THEOREM LogImplementsChannel == Spec => ImplementsChannel
  <1> QED BY LogInvariant, ChannelInit, ChannelStep, PTL
          DEF Spec, ImplementsChannel, Channel!Spec

--------------------------------------------------------------------------------
(* The order of a thread's lines. *)

(* If x and y are lines of one thread, x is the earlier. *)
Less(x, y) == x # Stop /\ y # Stop /\ x.by = y.by => x.timestamp < y.timestamp

InOrder(s) == \A i, j \in DOMAIN s : i < j => Less(s[i], s[j])

Before(A, B) == \A x \in A, y \in B : Less(x, y)

LEMMA AppendInOrder ==
    ASSUME NEW S, NEW s \in Seq(S), NEW e \in S, InOrder(s), Before(ToSet(s), {e})
    PROVE  InOrder(Append(s, e))
  <1>1. /\ Len(s) \in Nat /\ DOMAIN s = 1 .. Len(s)
        /\ DOMAIN Append(s, e) = 1 .. Len(s) + 1
        /\ Append(s, e)[Len(s) + 1] = e
        /\ \A i \in 1 .. Len(s) : Append(s, e)[i] = s[i]
    OBVIOUS
  <1> SUFFICES ASSUME NEW i \in 1 .. Len(s) + 1, NEW j \in 1 .. Len(s) + 1, i < j
               PROVE  Less(Append(s, e)[i], Append(s, e)[j])
    BY <1>1 DEF InOrder
  <1>2. i \in 1 .. Len(s) /\ (j \in 1 .. Len(s) \/ j = Len(s) + 1)
    BY <1>1
  <1>3. CASE j \in 1 .. Len(s)
    BY <1>1, <1>2, <1>3 DEF InOrder
  <1>4. CASE j = Len(s) + 1
    <2>1. s[i] \in ToSet(s)
      BY <1>1, <1>2 DEF ToSet
    <2> QED BY <1>1, <1>2, <1>4, <2>1 DEF Before
  <1> QED BY <1>2, <1>3, <1>4

LEMMA TailInOrder ==
    ASSUME NEW S, NEW s \in Seq(S), s # <<>>, InOrder(s)
    PROVE  /\ InOrder(Tail(s)) /\ Before({Head(s)}, ToSet(Tail(s)))
           /\ Head(s) \in ToSet(s) /\ ToSet(Tail(s)) \subseteq ToSet(s)
  <1>1. /\ Len(s) \in Nat /\ Len(s) > 0 /\ DOMAIN s = 1 .. Len(s)
        /\ DOMAIN Tail(s) = 1 .. Len(s) - 1 /\ Head(s) = s[1]
        /\ \A i \in 1 .. Len(s) - 1 : Tail(s)[i] = s[i + 1]
    OBVIOUS
  <1>2. \A i \in 1 .. Len(s) - 1 : i + 1 \in 1 .. Len(s) /\ 1 < i + 1
    BY <1>1
  <1>3. InOrder(Tail(s))
    <2> SUFFICES ASSUME NEW i \in 1 .. Len(s) - 1, NEW j \in 1 .. Len(s) - 1, i < j
                 PROVE  Less(s[i + 1], s[j + 1])
      BY <1>1 DEF InOrder
    <2> QED BY <1>1, <1>2 DEF InOrder
  <1>4. \A x \in ToSet(Tail(s)) : \E i \in 1 .. Len(s) - 1 : x = s[i + 1]
    BY <1>1, Zenon DEF ToSet
  <1>5. 1 \in 1 .. Len(s)
    BY <1>1
  <1>6. Before({Head(s)}, ToSet(Tail(s)))
    BY <1>1, <1>2, <1>4, <1>5 DEF Before, InOrder
  <1>7. Head(s) \in ToSet(s)
    BY <1>1, <1>5, Zenon DEF ToSet
  <1>8. ToSet(Tail(s)) \subseteq ToSet(s)
    BY <1>1, <1>2, <1>4, Zenon DEF ToSet
  <1> QED BY <1>3, <1>6, <1>7, <1>8

LEMMA ConcatInOrder ==
    ASSUME NEW S, NEW s \in Seq(S), NEW r \in Seq(S),
           InOrder(s), InOrder(r), Before(ToSet(s), ToSet(r))
    PROVE  InOrder(s \o r)
  <1>1. /\ Len(s) \in Nat /\ DOMAIN s = 1 .. Len(s)
        /\ Len(r) \in Nat /\ DOMAIN r = 1 .. Len(r)
        /\ DOMAIN (s \o r) = 1 .. Len(s) + Len(r)
        /\ \A i \in 1 .. Len(s) : (s \o r)[i] = s[i]
        /\ \A i \in 1 .. Len(r) : (s \o r)[Len(s) + i] = r[i]
    OBVIOUS
  <1>2. \A i \in 1 .. Len(s) + Len(r) :
            i \in 1 .. Len(s)
            \/ (i - Len(s) \in 1 .. Len(r) /\ i = Len(s) + (i - Len(s)))
    BY <1>1
  <1> SUFFICES ASSUME NEW i \in 1 .. Len(s) + Len(r), NEW j \in 1 .. Len(s) + Len(r),
                      i < j
               PROVE  Less((s \o r)[i], (s \o r)[j])
    BY <1>1 DEF InOrder
  <1>3. CASE j \in 1 .. Len(s)
    <2>1. i \in 1 .. Len(s)
      BY <1>1, <1>3
    <2> QED BY <1>1, <1>3, <2>1 DEF InOrder
  <1>4. CASE i \in 1 .. Len(s) /\ j - Len(s) \in 1 .. Len(r)
    <2>1. (s \o r)[i] = s[i] /\ (s \o r)[j] = r[j - Len(s)]
      BY <1>1, <1>2, <1>4
    <2>2. s[i] \in ToSet(s) /\ r[j - Len(s)] \in ToSet(r)
      BY <1>1, <1>4, Zenon DEF ToSet
    <2> QED BY <2>1, <2>2 DEF Before
  <1>5. CASE i - Len(s) \in 1 .. Len(r) /\ j - Len(s) \in 1 .. Len(r)
    <2>1. (s \o r)[i] = r[i - Len(s)] /\ (s \o r)[j] = r[j - Len(s)]
      BY <1>1, <1>5
    <2>2. i - Len(s) < j - Len(s)
      BY <1>1
    <2> QED BY <1>1, <1>5, <2>1, <2>2 DEF InOrder
  <1>6. \/ j \in 1 .. Len(s)
        \/ i \in 1 .. Len(s) /\ j - Len(s) \in 1 .. Len(r)
        \/ i - Len(s) \in 1 .. Len(r) /\ j - Len(s) \in 1 .. Len(r)
    BY <1>2
  <1> QED BY <1>3, <1>4, <1>5, <1>6

(* The logger's sort cannot exchange two lines of one thread: their        *)
(* timestamps differ and were in order.                                    *)
LEMMA SortInOrder ==
    ASSUME NEW lines \in Seq(Lines), NEW sorted \in Sorted(lines), InOrder(lines)
    PROVE  InOrder(sorted)
  <1>1. PICK order \in Bijection(DOMAIN lines, DOMAIN lines) :
            sorted = [i \in DOMAIN lines |-> lines[order[i]]]
    BY DEF Sorted
  <1>2. \A i, j \in DOMAIN lines : i < j => sorted[i].timestamp <= sorted[j].timestamp
    BY DEF Sorted
  <1>3. /\ order \in [DOMAIN lines -> DOMAIN lines]
        /\ \A i, j \in DOMAIN lines : order[i] = order[j] => i = j
    BY <1>1 DEF Bijection, Injection, IsInjective
  <1>4. DOMAIN lines = 1 .. Len(lines) /\ Len(lines) \in Nat
    OBVIOUS
  <1>5. \A i \in DOMAIN lines : lines[i] \in Lines
    OBVIOUS
  <1>6. \A x \in Lines : x.timestamp \in Int /\ x # Stop
    BY SizesAssumption, MessagesAssumption DEF Lines
  <1> SUFFICES ASSUME NEW i \in DOMAIN lines, NEW j \in DOMAIN lines, i < j,
                      sorted[i].by = sorted[j].by
               PROVE  sorted[i].timestamp < sorted[j].timestamp
    BY <1>1 DEF InOrder, Less
  <1> DEFINE a == order[i]
             b == order[j]
  <1>7. a \in DOMAIN lines /\ b \in DOMAIN lines /\ a # b
    BY <1>3, <1>4
  <1>8. sorted[i] = lines[a] /\ sorted[j] = lines[b]
    BY <1>1
  <1> HIDE DEF a, b
  <1>9. a < b \/ b < a
    BY <1>4, <1>7
  <1>10. CASE a < b
    BY <1>5, <1>6, <1>7, <1>8, <1>10 DEF InOrder, Less
  <1>11. CASE b < a
    <2>1. lines[b].timestamp < lines[a].timestamp
      BY <1>5, <1>6, <1>7, <1>8, <1>11 DEF InOrder, Less
    <2>2. lines[a].timestamp <= lines[b].timestamp
      BY <1>2, <1>8
    <2>3. lines[a].timestamp \in Int /\ lines[b].timestamp \in Int
      BY <1>5, <1>6, <1>7
    <2> QED BY <2>1, <2>2, <2>3
  <1> QED BY <1>9, <1>10, <1>11

(* What left the circular buffers *)
Sent == ToSet(file) \cup ToSet(log_buffer) \cup ToSet(queue)

Known(p) == Sent \cup ToSet(Pending(p))

(* Each of the places a line goes through is in order, and so is one after *)
(* the other.                                                              *)
SentInOrder ==
    /\ InOrder(file) /\ InOrder(log_buffer) /\ InOrder(queue)
    /\ Before(ToSet(file), ToSet(log_buffer)) /\ Before(ToSet(file), ToSet(queue))
    /\ Before(ToSet(log_buffer), ToSet(queue))

PendingInOrder ==
    \A p \in Processes :
        /\ InOrder(Pending(p)) /\ Before(Sent, ToSet(Pending(p)))
        /\ \A x \in ToSet(Pending(p)) : x # Stop => ProcessOf[x.by] = p

(* The clock is ahead of every line, and who is about to put one has put   *)
(* only earlier ones.                                                      *)
StampsGrow ==
    /\ \A p \in Processes : \A x \in Known(p) : x # Stop => x.timestamp <= events
    /\ \A t \in Threads : pc[t] \in {"put", "putFatal"} =>
          line[t].timestamp <= events /\ Before(Known(ProcessOf[t]), {line[t]})

OrderInv == SentInOrder /\ PendingInOrder /\ StampsGrow

LEMMA OrderInit == Init => OrderInv
  <1> SUFFICES ASSUME Init PROVE OrderInv
    OBVIOUS
  <1>1. ToSet(<<>>) = {} /\ DOMAIN <<>> = {}
    BY DEF ToSet
  <1>2. /\ file = <<>> /\ log_buffer = <<>> /\ queue = <<>>
        /\ \A p \in Processes : Pending(p) = <<>>
    BY DEF Init, Pending
  <1>3. Sent = {} /\ \A p \in Processes : Known(p) = {}
    BY <1>1, <1>2 DEF Sent, Known
  <1>4. \A t \in Threads : pc[t] = "idle"
    BY DEF Init
  <1>5. SentInOrder /\ PendingInOrder
    BY <1>1, <1>2, <1>3 DEF SentInOrder, PendingInOrder, InOrder, Before
  <1> QED BY <1>3, <1>4, <1>5 DEF OrderInv, StampsGrow

(* Every message known is a message. *)
LEMMA KnownAreMessages ==
    ASSUME LogInv
    PROVE  /\ Sent \subseteq Messages
           /\ \A p \in Processes : Known(p) \subseteq Messages
           /\ \A x \in Lines : x.timestamp \in Int /\ x.by \in Threads /\ x # Stop
           /\ events \in Int
  <1>1. ASSUME NEW S, NEW s \in Seq(S) PROVE ToSet(s) \subseteq S
    BY <1>1 DEF ToSet
  <1>2. ToSet(file) \subseteq Lines /\ ToSet(log_buffer) \subseteq Lines
    BY <1>1 DEF LogInv, LoggerTypeOK
  <1>3. ToSet(queue) \subseteq Messages
    BY <1>1 DEF LogInv, LoggerTypeOK
  <1>4. \A p \in Processes : ToSet(Pending(p)) \subseteq Messages
    BY <1>1 DEF LogInv, RingOK
  <1>5. \A x \in Lines : x.timestamp \in Int /\ x.by \in Threads /\ x # Stop
    BY SizesAssumption, MessagesAssumption DEF Lines
  <1>6. events \in Int
    BY SizesAssumption DEF LogInv, ThreadsOK, ThreadsTypeOK
  <1> QED BY <1>2, <1>3, <1>4, <1>5, <1>6 DEF Sent, Known, Messages

(* Where nothing moves, only the clock and who is about to put matter. *)
LEMMA StillOrder ==
    ASSUME LogInv, OrderInv, UNCHANGED <<ringVars, queue, file, log_buffer>>
    PROVE  /\ SentInOrder' /\ PendingInOrder'
           /\ Sent' = Sent /\ \A p \in Processes : Known(p)' = Known(p)
  <1>1. \A p \in Processes : Pending(p)' = Pending(p)
    BY DEF ringVars, Pending
  <1>2. Sent' = Sent
    BY DEF Sent
  <1>3. \A p \in Processes : Known(p)' = Known(p)
    BY <1>1, <1>2 DEF Known
  <1>4. SentInOrder'
    BY DEF OrderInv, SentInOrder
  <1>5. PendingInOrder'
    BY <1>1, <1>2 DEF OrderInv, PendingInOrder
  <1> QED BY <1>2, <1>3, <1>4, <1>5

LEMMA OrderBegin ==
    ASSUME LogInv, OrderInv, NEW t \in Threads, BeginEvent(t)
    PROVE  OrderInv'
  <1>1. /\ SentInOrder' /\ PendingInOrder'
        /\ \A p \in Processes : Known(p)' = Known(p)
    BY StillOrder DEF BeginEvent, loggerVars
  <1>2. /\ events' = events + 1 /\ events \in Int
        /\ line'[t] = [by |-> t, timestamp |-> events']
        /\ \A u \in Threads \ {t} : line'[u] = line[u] /\ pc'[u] = pc[u]
    BY KnownAreMessages DEF BeginEvent, Goes, LogInv, ThreadsOK, ThreadsTypeOK
  <1>3. ASSUME NEW p \in Processes, NEW x \in Known(p)', x # Stop
        PROVE  x.timestamp \in Int /\ x.timestamp <= events /\ x.timestamp < events'
    BY <1>1, <1>2, <1>3, KnownAreMessages DEF OrderInv, StampsGrow, Messages
  <1>4. ASSUME NEW u \in Threads, pc'[u] \in {"put", "putFatal"}
        PROVE  line'[u].timestamp <= events' /\ Before(Known(ProcessOf[u])', {line'[u]})
    <2>1. ProcessOf[u] \in Processes
      BY ProcessesAssumption
    <2>2. CASE u = t
      BY <1>2, <1>3, <2>1, <2>2 DEF Before, Less
    <2>3. CASE u # t
      <3>1. line'[u] \in Lines /\ line'[u].timestamp \in Int
        BY <1>2, <1>4, <2>3, KnownAreMessages DEF LogInv, ThreadsOK
      <3> QED BY <1>1, <1>2, <1>4, <2>1, <2>3, <3>1 DEF OrderInv, StampsGrow
    <2> QED BY <2>2, <2>3
  <1>5. StampsGrow'
    BY <1>2, <1>3, <1>4 DEF StampsGrow
  <1> QED BY <1>1, <1>5 DEF OrderInv

(* Whoever puts a line puts one later than all of his known. *)
LEMMA OrderPut ==
    ASSUME LogInv, OrderInv, NEW t \in Threads, NEW m \in Messages,
           Put(ProcessOf[t], m), UNCHANGED <<events, queue, loggerVars>>,
           m # Stop => m.by = t /\ m.timestamp <= events,
           Before(Known(ProcessOf[t]), {m}),
           \A u \in Threads : pc'[u] \in {"put", "putFatal"} =>
              u # t /\ pc[u] \in {"put", "putFatal"} /\ line'[u] = line[u]
    PROVE  OrderInv'
  <1> DEFINE p == ProcessOf[t]
  <1>1. p \in Processes
    BY ProcessesAssumption
  <1>2. \A q \in Processes :
            Pending(q)' = IF q = p /\ HasRoom(p) THEN Append(Pending(p), m)
                          ELSE Pending(q)
    BY <1>1, PutAppends DEF LogInv
  <1>3. Before(Known(p), {m})
    OBVIOUS
  <1>4. m # Stop => m.by = t /\ m.timestamp <= events /\ ProcessOf[m.by] = p
    OBVIOUS
  <1> HIDE DEF p
  <1>5. Pending(p) \in Seq(Messages)
    BY <1>1 DEF LogInv, RingOK
  <1>6. ToSet(Append(Pending(p), m)) = ToSet(Pending(p)) \cup {m}
    BY <1>5, ToSetAppend
  <1>7. InOrder(Append(Pending(p), m))
    <2>1. Before(ToSet(Pending(p)), {m}) /\ InOrder(Pending(p))
      BY <1>1, <1>3 DEF Known, Before, OrderInv, PendingInOrder
    <2> QED BY <1>5, <2>1, AppendInOrder
  <1>8. Sent' = Sent /\ SentInOrder'
    BY DEF Sent, loggerVars, OrderInv, SentInOrder
  <1>9. \A q \in Processes :
            Known(q)' \subseteq Known(q) \cup (IF q = p THEN {m} ELSE {})
    BY <1>2, <1>6, <1>8 DEF Known
  <1>10. PendingInOrder'
    <2> SUFFICES ASSUME NEW q \in Processes
                 PROVE  /\ InOrder(Pending(q)') /\ Before(Sent, ToSet(Pending(q)'))
                        /\ \A x \in ToSet(Pending(q)') : x # Stop => ProcessOf[x.by] = q
      BY <1>8 DEF PendingInOrder
    <2>1. CASE q = p /\ HasRoom(p)
      <3>1. Pending(q)' = Append(Pending(p), m)
        BY <1>1, <1>2, <2>1
      <3>2. Before(Sent, ToSet(Pending(q)'))
        BY <1>1, <1>3, <1>6, <3>1 DEF Before, Known, OrderInv, PendingInOrder
      <3>3. \A x \in ToSet(Pending(q)') : x # Stop => ProcessOf[x.by] = q
        BY <1>1, <1>4, <1>6, <2>1, <3>1 DEF OrderInv, PendingInOrder
      <3> QED BY <1>7, <3>1, <3>2, <3>3
    <2>2. CASE ~(q = p /\ HasRoom(p))
      BY <1>2, <2>2 DEF OrderInv, PendingInOrder
    <2> QED BY <2>1, <2>2
  <1>11. StampsGrow'
    <2>1. ASSUME NEW q \in Processes, NEW x \in Known(q)', x # Stop
          PROVE  x.timestamp <= events'
      BY <1>4, <1>9, <2>1 DEF OrderInv, StampsGrow
    <2>2. ASSUME NEW u \in Threads, pc'[u] \in {"put", "putFatal"}
          PROVE  line'[u].timestamp <= events' /\ Before(Known(ProcessOf[u])', {line'[u]})
      <3>1. u # t /\ pc[u] \in {"put", "putFatal"} /\ line'[u] = line[u]
        BY <2>2
      <3>2. ProcessOf[u] \in Processes /\ line[u].by = u
        BY <3>1, ProcessesAssumption DEF LogInv, ThreadsOK
      <3>3. line[u].timestamp <= events /\ Before(Known(ProcessOf[u]), {line[u]})
        BY <3>1 DEF OrderInv, StampsGrow
      <3>4. Less(m, line[u])
        BY <1>4, <3>1, <3>2 DEF Less
      <3> QED BY <1>9, <3>1, <3>2, <3>3, <3>4 DEF Before
    <2> QED BY <2>1, <2>2 DEF StampsGrow
  <1> QED BY <1>8, <1>10, <1>11 DEF OrderInv

LEMMA OrderPutLine ==
    ASSUME LogInv, OrderInv, NEW t \in Threads, PutLine(t)
    PROVE  OrderInv'
  <1>1. line[t] \in Lines /\ line[t].by = t /\ line[t] \in Messages
    BY DEF PutLine, LogInv, ThreadsOK, Messages
  <1>2. line[t].timestamp <= events /\ Before(Known(ProcessOf[t]), {line[t]})
    BY DEF PutLine, OrderInv, StampsGrow
  <1>3. \A u \in Threads : pc'[u] \in {"put", "putFatal"} =>
            u # t /\ pc[u] \in {"put", "putFatal"} /\ line'[u] = line[u]
    BY DEF PutLine, Goes, LogInv, ThreadsOK, ThreadsTypeOK
  <1>4. Put(ProcessOf[t], line[t]) /\ UNCHANGED <<events, queue, loggerVars>>
    BY DEF PutLine
  <1> QED BY <1>1, <1>2, <1>3, <1>4, OrderPut

LEMMA OrderPutStop ==
    ASSUME LogInv, OrderInv, NEW t \in Threads, PutStop(t)
    PROVE  OrderInv'
  <1>1. Stop \in Messages
    BY DEF Messages
  <1>2. Before(Known(ProcessOf[t]), {Stop})
    BY DEF Before, Less
  <1>3. \A u \in Threads : pc'[u] \in {"put", "putFatal"} =>
            u # t /\ pc[u] \in {"put", "putFatal"} /\ line'[u] = line[u]
    BY DEF PutStop, Goes, LogInv, ThreadsOK, ThreadsTypeOK
  <1>4. Put(ProcessOf[t], Stop) /\ UNCHANGED <<events, queue, loggerVars>>
    BY DEF PutStop
  <1> QED BY <1>1, <1>2, <1>3, <1>4, OrderPut

LEMMA OrderSend ==
    ASSUME LogInv, OrderInv, NEW p \in Processes, SendLine(p)
    PROVE  OrderInv'
  <1>1. count[p] > 0
    BY SizesAssumption DEF SendLine, LogInv, RingOK, RingsTypeOK, SendersOK, SendersTypeOK
  <1>2. /\ Pending(p) # <<>> /\ Head(Pending(p)) = buffer[p][head[p]]
        /\ \A q \in Processes :
              Pending(q)' = IF q = p THEN Tail(Pending(p)) ELSE Pending(q)
    BY <1>1, SendTakesFirst DEF SendLine, LogInv
  <1> DEFINE m == Head(Pending(p))
  <1>3. Pending(p) \in Seq(Messages) /\ InOrder(Pending(p))
    BY DEF LogInv, RingOK, OrderInv, PendingInOrder
  <1>4. /\ InOrder(Tail(Pending(p))) /\ Before({m}, ToSet(Tail(Pending(p))))
        /\ m \in ToSet(Pending(p)) /\ ToSet(Tail(Pending(p))) \subseteq ToSet(Pending(p))
    BY <1>2, <1>3, TailInOrder
  <1>5. m \in Messages
    BY <1>2, <1>3
  <1>6. queue' = Append(queue, m) /\ queue \in Seq(Messages)
    BY <1>2 DEF SendLine, LogInv, LoggerTypeOK
  <1> HIDE DEF m
  <1>7. ToSet(queue') = ToSet(queue) \cup {m}
    BY <1>5, <1>6, ToSetAppend
  <1>8. UNCHANGED <<file, log_buffer, events, pc, line>>
    BY DEF SendLine, loggerVars, threadVars
  <1>9. Sent' = Sent \cup {m}
    BY <1>7, <1>8 DEF Sent
  <1>10. Before(Sent, {m}) /\ (m # Stop => ProcessOf[m.by] = p)
    BY <1>4 DEF OrderInv, PendingInOrder, Before
  <1>11. SentInOrder'
    <2>1. Before(ToSet(queue), {m}) /\ InOrder(queue)
      BY <1>10 DEF Before, Sent, OrderInv, SentInOrder
    <2>2. InOrder(queue')
      BY <1>5, <1>6, <2>1, AppendInOrder
    <2>3. Before(ToSet(file), ToSet(queue')) /\ Before(ToSet(log_buffer), ToSet(queue'))
      BY <1>7, <1>10 DEF Before, Sent, OrderInv, SentInOrder
    <2> QED BY <1>8, <2>2, <2>3 DEF OrderInv, SentInOrder
  <1>12. \A q \in Processes : ToSet(Pending(q)') \subseteq ToSet(Pending(q))
    BY <1>2, <1>4
  <1>13. PendingInOrder'
    <2> SUFFICES ASSUME NEW q \in Processes
                 PROVE  /\ InOrder(Pending(q)') /\ Before(Sent', ToSet(Pending(q)'))
                        /\ \A x \in ToSet(Pending(q)') : x # Stop => ProcessOf[x.by] = q
      BY DEF PendingInOrder
    <2>1. InOrder(Pending(q)')
      BY <1>2, <1>4 DEF OrderInv, PendingInOrder
    <2>2. \A x \in ToSet(Pending(q)) : x # Stop => ProcessOf[x.by] = q
      BY DEF OrderInv, PendingInOrder
    <2>3. Before({m}, ToSet(Pending(q)'))
      <3>1. CASE q = p
        BY <1>2, <1>4, <3>1
      <3>2. CASE q # p
        BY <1>10, <1>12, <2>2, <3>2 DEF Before, Less
      <3> QED BY <3>1, <3>2
    <2>4. Before(Sent', ToSet(Pending(q)'))
      BY <1>9, <1>12, <2>3 DEF OrderInv, PendingInOrder, Before
    <2> QED BY <1>12, <2>1, <2>2, <2>4
  <1>14. \A q \in Processes : Known(q)' \subseteq Known(q) \cup {m}
    BY <1>9, <1>12 DEF Known
  <1>15. m # Stop => m.timestamp <= events
    BY <1>4 DEF OrderInv, StampsGrow, Known
  <1>16. \A t \in Threads : pc[t] \in {"put", "putFatal"} => Less(m, line[t])
    <2> SUFFICES ASSUME NEW t \in Threads, pc[t] \in {"put", "putFatal"}, m # Stop
                 PROVE  Less(m, line[t])
      BY DEF Less
    <2>1. CASE ProcessOf[t] = p
      BY <1>4, <2>1 DEF Known, OrderInv, StampsGrow, Before
    <2>2. CASE ProcessOf[t] # p
      BY <1>10, <2>2 DEF Less, LogInv, ThreadsOK
    <2> QED BY <2>1, <2>2
  <1>17. StampsGrow'
    BY <1>8, <1>14, <1>15, <1>16, ProcessesAssumption DEF OrderInv, StampsGrow, Before
  <1> QED BY <1>11, <1>13, <1>17 DEF OrderInv

(* What the logger writes was all it had, in order after what it wrote. *)
LEMMA OrderWrite ==
    ASSUME LogInv, OrderInv, NEW lines \in Seq(Lines), Write(lines),
           InOrder(lines), Before(ToSet(file), ToSet(lines))
    PROVE  InOrder(file') /\ ToSet(file') = ToSet(file) \cup ToSet(lines)
  <1>1. PICK sorted \in Sorted(lines) : file' = file \o sorted
    BY DEF Write
  <1>2. sorted \in Seq(Lines) /\ ToSet(sorted) = ToSet(lines) /\ InOrder(sorted)
    BY SortKeeps, SortInOrder
  <1>3. file \in Seq(Lines) /\ InOrder(file)
    BY DEF LogInv, LoggerTypeOK, OrderInv, SentInOrder
  <1> QED BY <1>1, <1>2, <1>3, ToSetConcat, ConcatInOrder

(* The logger only moves lines on, the first of the queue before the rest. *)
LEMMA OrderLogger ==
    ASSUME LogInv, OrderInv, Logger
    PROVE  OrderInv'
  <1> DEFINE m == Head(queue)
  <1>1. /\ queue \in Seq(Messages) /\ queue # <<>> /\ queue' = Tail(queue)
        /\ UNCHANGED <<threadVars, ringVars>>
    BY DEF Logger, ReceiveLine, ReceiveStop, LogInv, LoggerTypeOK
  <1>2. /\ InOrder(queue') /\ Before({m}, ToSet(queue'))
        /\ m \in ToSet(queue) /\ ToSet(queue') \subseteq ToSet(queue)
    BY <1>1, TailInOrder DEF OrderInv, SentInOrder
  <1>3. m \in Messages
    BY <1>1
  <1>4. log_buffer \in Seq(Lines) /\ InOrder(log_buffer)
    BY DEF LogInv, LoggerTypeOK, OrderInv, SentInOrder
  <1> HIDE DEF m
  <1> DEFINE lines == Append(log_buffer, m)
  <1>5. ASSUME m \in Lines
        PROVE  /\ lines \in Seq(Lines) /\ InOrder(lines)
               /\ ToSet(lines) = ToSet(log_buffer) \cup {m}
    <2>1. Before(ToSet(log_buffer), {m})
      BY <1>2 DEF Before, OrderInv, SentInOrder
    <2> QED BY <1>4, <1>5, <2>1, ToSetAppend, AppendInOrder
  <1>6. \/ /\ m \in Lines
           /\ \/ Write(lines) /\ log_buffer' = <<>>
              \/ log_buffer' = lines /\ file' = file
        \/ Write(log_buffer) /\ log_buffer' = <<>>
    BY <1>3 DEF Logger, ReceiveLine, ReceiveStop, Messages, m
  <1>7. /\ Before(ToSet(file), ToSet(log_buffer)) /\ Before(ToSet(file), ToSet(queue))
        /\ Before(ToSet(log_buffer), ToSet(queue)) /\ InOrder(file)
    BY DEF OrderInv, SentInOrder
  <1>8. ToSet(<<>>) = {} /\ InOrder(<<>>)
    BY DEF ToSet, InOrder
  <1> HIDE DEF lines
  <1>9. SentInOrder' /\ Sent' \subseteq Sent
    <2>1. CASE m \in Lines /\ Write(lines) /\ log_buffer' = <<>>
      <3>1. Before(ToSet(file), ToSet(lines))
        BY <1>2, <1>5, <1>7, <2>1 DEF Before
      <3>2. InOrder(file') /\ ToSet(file') = ToSet(file) \cup ToSet(log_buffer) \cup {m}
        BY <1>5, <2>1, <3>1, OrderWrite
      <3>3. Before(ToSet(file'), ToSet(queue'))
        BY <1>2, <1>7, <3>2 DEF Before
      <3> QED BY <1>2, <1>8, <2>1, <3>2, <3>3 DEF SentInOrder, Sent, Before
    <2>2. CASE m \in Lines /\ log_buffer' = lines /\ file' = file
      <3>1. Before(ToSet(file), ToSet(log_buffer')) /\ Before(ToSet(file), ToSet(queue'))
        BY <1>2, <1>5, <1>7, <2>2 DEF Before
      <3>2. Before(ToSet(log_buffer'), ToSet(queue'))
        BY <1>2, <1>5, <1>7, <2>2 DEF Before
      <3> QED BY <1>2, <1>5, <1>7, <2>2, <3>1, <3>2 DEF SentInOrder, Sent
    <2>3. CASE Write(log_buffer) /\ log_buffer' = <<>>
      <3>1. InOrder(file') /\ ToSet(file') = ToSet(file) \cup ToSet(log_buffer)
        BY <1>4, <1>7, <2>3, OrderWrite
      <3>2. Before(ToSet(file'), ToSet(queue'))
        BY <1>2, <1>7, <3>1 DEF Before
      <3> QED BY <1>2, <1>8, <2>3, <3>1, <3>2 DEF SentInOrder, Sent, Before
    <2> QED BY <1>6, <2>1, <2>2, <2>3
  <1>10. \A p \in Processes : Pending(p)' = Pending(p)
    BY <1>1 DEF ringVars, Pending
  <1>11. PendingInOrder'
    BY <1>9, <1>10 DEF OrderInv, PendingInOrder, Before
  <1>12. \A p \in Processes : Known(p)' \subseteq Known(p)
    BY <1>9, <1>10 DEF Known
  <1>13. StampsGrow'
    BY <1>1, <1>12, ProcessesAssumption DEF threadVars, OrderInv, StampsGrow, Before
  <1> QED BY <1>9, <1>11, <1>13 DEF OrderInv

(* Who closes, leaves, sleeps or wakes moves no line. *)
LEMMA OrderElsewhere ==
    ASSUME LogInv, OrderInv, UNCHANGED <<ringVars, queue, file, log_buffer, events, line>>,
           \A t \in Threads : pc'[t] \in {"put", "putFatal"} => pc'[t] = pc[t]
    PROVE  OrderInv'
  <1>1. SentInOrder' /\ PendingInOrder' /\ (\A p \in Processes : Known(p)' = Known(p))
    BY StillOrder
  <1>2. StampsGrow'
    BY <1>1, ProcessesAssumption DEF OrderInv, StampsGrow
  <1> QED BY <1>1, <1>2 DEF OrderInv

LEMMA OrderStep ==
    ASSUME LogInv, OrderInv, [Next]_vars
    PROVE  OrderInv'
  <1>1. ASSUME NEW t \in Threads, Thread(t)
        PROVE  OrderInv'
    <2>1. CASE EndClient(t) \/ BeginClose(t) \/ EndClose(t)
      <3>1. \A u \in Threads : pc'[u] \in {"put", "putFatal"} => pc'[u] = pc[u]
        BY <2>1 DEF EndClient, BeginClose, EndClose, Goes, threadVars, LogInv, ThreadsOK,
                    ThreadsTypeOK
      <3> QED BY <2>1, <3>1, OrderElsewhere
              DEF EndClient, BeginClose, EndClose, threadVars, loggerVars
    <2> QED BY <1>1, <2>1, OrderBegin, OrderPutLine, OrderPutStop DEF Thread
  <1>2. ASSUME NEW p \in Processes, BeginTurn(p) \/ EndTurn(p) \/ Exit(p)
        PROVE  OrderInv'
    <2>1. UNCHANGED <<threadVars, ringVars, queue, loggerVars>>
      BY <1>2 DEF BeginTurn, EndTurn, Exit
    <2> QED BY <2>1, OrderElsewhere DEF threadVars, loggerVars
  <1>3. CASE UNCHANGED vars
    BY <1>3, OrderElsewhere DEF vars, threadVars, loggerVars
  <1> QED BY <1>1, <1>2, <1>3, OrderSend, OrderLogger DEF Next, Sender

(* Each place is in order and before the next, so the whole way is. *)
LEMMA WayInOrder ==
    ASSUME LogInv, OrderInv, NEW p \in Processes
    PROVE  InOrder(Way(p))
  <1>1. /\ file \in Seq(Messages) /\ log_buffer \in Seq(Messages)
        /\ queue \in Seq(Messages) /\ Pending(p) \in Seq(Messages)
    BY DEF LogInv, LoggerTypeOK, RingOK, Messages
  <1> DEFINE written == file \o log_buffer
             sent == written \o queue
  <1>2. /\ written \in Seq(Messages) /\ InOrder(written)
        /\ ToSet(written) = ToSet(file) \cup ToSet(log_buffer)
    BY <1>1, ToSetConcat, ConcatInOrder DEF OrderInv, SentInOrder
  <1> HIDE DEF written
  <1>3. Before(ToSet(written), ToSet(queue)) /\ InOrder(queue)
    BY <1>2 DEF Before, OrderInv, SentInOrder
  <1>4. sent \in Seq(Messages) /\ InOrder(sent) /\ ToSet(sent) = Sent
    <2>1. written \o queue \in Seq(Messages)
      BY <1>1, <1>2
    <2>2. InOrder(written \o queue)
      BY <1>1, <1>2, <1>3, ConcatInOrder
    <2>3. ToSet(written \o queue) = ToSet(written) \cup ToSet(queue)
      BY <1>1, <1>2, ToSetConcat
    <2> QED BY <1>2, <2>1, <2>2, <2>3 DEF Sent
  <1> HIDE DEF sent
  <1>5. InOrder(sent \o Pending(p))
    <2>1. Before(ToSet(sent), ToSet(Pending(p))) /\ InOrder(Pending(p))
      BY <1>4 DEF OrderInv, PendingInOrder
    <2> QED BY <1>1, <1>4, <2>1, ConcatInOrder
  <1> QED BY <1>5 DEF Way, sent, written

(* The lines of a thread are in the order of their timestamps wherever     *)
(* they are, in the circular buffer, on the queue, in the logger's buffer  *)
(* and in the file, and none is there twice (log.c:111-149, logger.c:39-59).*)
THEOREM ThreadOrderIsKept == Spec => []ThreadOrderKept
  <1>1. LogInv /\ OrderInv /\ [Next]_vars => OrderInv'
    BY OrderStep
  <1>2. LogInv /\ OrderInv => ThreadOrderKept
    <2> SUFFICES ASSUME LogInv, OrderInv PROVE ThreadOrderKept
      OBVIOUS
    <2>1. \A p \in Processes : InOrder(Way(p))
      BY WayInOrder
    <2> QED BY <2>1 DEF ThreadOrderKept, InOrder, Less
  <1> QED BY LogInvariant, OrderInit, <1>1, <1>2, PTL DEF Spec

=============================================================================
