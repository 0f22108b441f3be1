--------------------------- MODULE MCEmergencyServer ---------------------------
(* Instances of EmergencyServer for TLC: a row of the map, one rescuer type. *)
EXTENDS ServerProperties, TLC

CONSTANTS w1, w2, e1, e2, t1, t2, ambulance

MCWorkers     == {w1, w2}
MCEmergencies == {e1, e2}
MCTypes       == {ambulance}
OneTwin       == [r \in MCTypes |-> <<t1>>]
TwoTwins      == [r \in MCTypes |-> <<t1, t2>>]

At(x, y) == [x |-> x, y |-> y]

AtOrigin == [r \in MCTypes |-> At(0, 0)]
Walking  == [r \in MCTypes |-> 1]

NeedOne == [e \in MCEmergencies |-> <<ambulance>>]
TeamAndOne == [e \in MCEmergencies |-> IF e = e1 THEN <<ambulance, ambulance>>
                                                ELSE <<ambulance>>]

MediumThenHigh == [e \in MCEmergencies |-> IF e = e1 THEN 1 ELSE 2]
LowThenMedium  == [e \in MCEmergencies |-> IF e = e1 THEN 0 ELSE 1]
NextDoor       == [e \in MCEmergencies |-> At(1, 0)]
OnARow         == [e \in MCEmergencies |-> IF e = e1 THEN At(2, 0) ELSE At(1, 0)]
HomeOrNextDoor == [e \in MCEmergencies |-> IF e = e1 THEN At(0, 0) ELSE At(1, 0)]
OneTick        == [e \in MCEmergencies |-> [r \in MCTypes |-> 1]]

(* A fresh heap page *)
Zeroed == {[target |-> At(0, 0), dx |-> 0, dy |-> 0, sx |-> 0, sy |-> 0, err |-> 0]}

Identical == Permutations(MCWorkers)

=============================================================================
