----------------------------- MODULE RescuerWalk -----------------------------
(***************************************************************************)
(* One rescuer on the map: the updater moves it once a tick with           *)
(* compute_bresenham_step, and a worker may give it another destination    *)
(* between two ticks (change_rescuer_digital_twin_destination).            *)
(***************************************************************************)
EXTENDS Bresenham

CONSTANTS
    Width, Height,      \* of the map
    Speeds,             \* the speeds a rescuer may have
    Detours             \* how often its destination may change on the way

ASSUME WalkAssumption ==
    /\ Width \in Nat /\ Height \in Nat /\ Detours \in Nat
    /\ Speeds \subseteq Nat \ {0}

VARIABLES
    at,             \* x and y of the twin
    trajectory,     \* where it goes
    speed,          \* cells per tick
    arrived,        \* has_arrived
    detours         \* changes of destination so far (a bound, not code)

vars == <<at, trajectory, speed, arrived, detours>>

Map == [x : 0 .. Width, y : 0 .. Height]

Init ==
    \E from \in Map, to \in Map :
        /\ from # to
        /\ at = from /\ trajectory = NewTrajectory(from, to)
        /\ speed \in Speeds /\ arrived = FALSE /\ detours = 0

(* update_rescuer_digital_twin_state_and_position_logging, on the road *)
Tick ==
    /\ ~arrived
    /\ LET s == Step(at, trajectory, speed)
       IN  /\ at' = s.at
           /\ trajectory' = [trajectory EXCEPT !.err = s.err]
           /\ arrived' = s.arrived
    /\ UNCHANGED <<speed, detours>>

Detour(to) ==
    /\ ~arrived /\ to # at
    /\ detours < Detours /\ detours' = detours + 1
    /\ trajectory' = NewTrajectory(at, to)
    /\ UNCHANGED <<at, speed, arrived>>

Next == Tick \/ \E to \in Map : Detour(to)

Spec == Init /\ [][Next]_vars

--------------------------------------------------------------------------------

(* A rescuer on the road stays inside the rectangle between the cell it    *)
(* left and its target, so that no detour, however late, takes it off the  *)
(* map before its last stretch (the updater ends the process when one is). *)
StaysOnTheMap == ~arrived => at \in Map

(* Each tick on the road spends the whole budget towards the target: the   *)
(* running error kept between two ticks, and the break of the loop between *)
(* its two axes, never make a cell be walked away from it or lost.         *)
EachTickIsNearer ==
    [][detours' = detours /\ ~arrived' =>
          Manhattan(at', trajectory.target) =
              Manhattan(at, trajectory.target) - speed]_vars

(* bresenham.c:10-13, "calcola un passo lungo la linea", "ritorna se siamo *)
(* arrivati a destinazione o no": the rescuer that has arrived is at its   *)
(* target.                                                                 *)
ArrivesAtTarget == arrived => at = trajectory.target

=============================================================================
