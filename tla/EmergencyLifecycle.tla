-------------------------- MODULE EmergencyLifecycle --------------------------
(***************************************************************************)
(* What the emergency server promises for an emergency, whatever its       *)
(* threads, queues, mutexes and rescuers do: it is received once, waits    *)
(* its turn, is assigned to one worker of the pool, attended when all its  *)
(* rescuers are there, and archived as completed or as shelved, for ever.  *)
(***************************************************************************)
EXTENDS Integers, FiniteSets

CONSTANTS
    Emergencies,
    PoolSize,           \* the workers, each of which serves one emergency
    Urgencies,          \* the levels, from the lowest to the highest
    FirstUrgency        \* of an emergency: the one of its type

VARIABLES
    phase,              \* of an emergency: where it is in its life
    urgency             \* of an emergency: its level by now

lifeVars == <<phase, urgency>>

Lowest == CHOOSE u \in Urgencies : \A v \in Urgencies : u <= v

Init ==
    /\ phase = [e \in Emergencies |-> "unsent"]
    /\ urgency = FirstUrgency

Moves(e, from, to) ==
    /\ phase[e] = from
    /\ phase' = [phase EXCEPT ![e] = to]
    /\ UNCHANGED urgency

In(p) == {e \in Emergencies : phase[e] = p}

Receive(e) == Moves(e, "unsent", "waiting")

(* A worker without work takes one of the most urgent. *)
Assign(e) ==
    /\ \A other \in In("waiting") : urgency[other] <= urgency[e]
    /\ Cardinality(In("assigned") \cup In("attended")) < PoolSize
    /\ Moves(e, "waiting", "assigned")

(* The lowest level has no time limit of its own, and is not attended until *)
(* it rises.                                                               *)
Attend(e) == urgency[e] # Lowest /\ Moves(e, "assigned", "attended")

(* Robbed of a rescuer, too late, or canceled *)
Withdraw(e) == Moves(e, "attended", "assigned")

Complete(e) == Moves(e, "attended", "completed")

Shelve(e) == Moves(e, "assigned", "shelved")

(* An emergency that waited long rises one level, from the lowest, once.   *)
Promote(e) ==
    /\ phase[e] \in {"waiting", "assigned"}
    /\ urgency[e] = Lowest
    /\ urgency' = [urgency EXCEPT ![e] = Lowest + 1]
    /\ UNCHANGED phase

Next ==
    \E e \in Emergencies :
        \/ Receive(e) \/ Assign(e) \/ Attend(e) \/ Withdraw(e)
        \/ Complete(e) \/ Shelve(e) \/ Promote(e)

Spec == Init /\ [][Next]_lifeVars

=============================================================================
