------------------------------ MODULE WalkProofs ------------------------------
(***************************************************************************)
(* A rescuer on a map of any size, with any speed and any changes of       *)
(* destination, stays on the map and spends each tick's budget towards its *)
(* target, until its last stretch.                                         *)
(***************************************************************************)
EXTENDS RescuerWalk, BresenhamProofs

(* The trajectory began on the map, and the rescuer is still on it. *)
BeganOnMap(t) ==
    \E from \in Map : /\ Before(from.x, t.sx, t.dx, t.target.x)
                      /\ Before(from.y, t.sy, t.dy, t.target.y)

WalkInvariant ==
    /\ speed \in Nat \ {0} /\ arrived \in BOOLEAN /\ detours \in Nat
    /\ trajectory.target \in Map
    /\ ~arrived => OnRoad(at, trajectory) /\ BeganOnMap(trajectory)

LEMMA MapIsPoints == Map \subseteq Point
BY WalkAssumption DEF Map, Point

LEMMA Between ==
    ASSUME NEW n \in Nat, NEW a \in Int, NEW b \in 0 .. n, NEW c \in 0 .. n, NEW s,
           NEW r \in Nat, NEW d \in Nat, r <= d, Before(a, s, r, b), Before(c, s, d, b)
    PROVE  a \in 0 .. n
BY DEF Before

LEMMA RoadIsOnMap ==
    ASSUME NEW p, NEW t, OnRoad(p, t), BeganOnMap(t), t.target \in Map
    PROVE  p \in Map
<1>1. PICK from \in Map : /\ Before(from.x, t.sx, t.dx, t.target.x)
                          /\ Before(from.y, t.sy, t.dy, t.target.y)
  BY DEF BeganOnMap
<1>2. PICK ra, rb \in Nat : Along(p, t.err, t, ra, rb)
  BY DEF OnRoad
<1>3. /\ from.x \in 0 .. Width /\ from.y \in 0 .. Height
      /\ t.target.x \in 0 .. Width /\ t.target.y \in 0 .. Height
  BY <1>1 DEF Map
<1>4. /\ p \in Point /\ p.x \in Int /\ p.y \in Int /\ t.dx \in Nat /\ t.dy \in Nat
      /\ p = [x |-> p.x, y |-> p.y]
  BY DEF OnRoad, Point
<1>5. /\ ra <= t.dx /\ rb <= t.dy
      /\ Before(p.x, t.sx, ra, t.target.x) /\ Before(p.y, t.sy, rb, t.target.y)
  BY <1>2 DEF Along
<1>6. p.x \in 0 .. Width
  BY <1>1, <1>3, <1>4, <1>5, Between, WalkAssumption
<1>7. p.y \in 0 .. Height
  BY <1>1, <1>3, <1>4, <1>5, Between, WalkAssumption
<1> QED  BY <1>4, <1>6, <1>7 DEF Map

(* A new destination, from where the rescuer is. *)
LEMMA NewRoad ==
    ASSUME NEW from \in Map, NEW to \in Map
    PROVE  LET t == NewTrajectory(from, to)
           IN  t.target \in Map /\ OnRoad(from, t) /\ BeganOnMap(t)
<1> DEFINE t == NewTrajectory(from, to)
<1>1. from \in Point /\ to \in Point
  BY MapIsPoints
<1>2. Along(from, t.err, t, t.dx, t.dy) /\ OnRoad(from, t)
  BY <1>1, RoadBegins
<1>3. t.target = to
  BY DEF NewTrajectory
<1> HIDE DEF t
<1>4. BeganOnMap(t)
  BY <1>2 DEF Along, BeganOnMap
<1> QED  BY <1>2, <1>3, <1>4 DEF t

LEMMA InitWalk == Init => WalkInvariant
<1> SUFFICES ASSUME Init PROVE WalkInvariant
  OBVIOUS
<1>1. PICK from \in Map, to \in Map :
          /\ at = from /\ trajectory = NewTrajectory(from, to)
          /\ speed \in Speeds /\ arrived = FALSE /\ detours = 0
  BY DEF Init
<1>2. trajectory.target \in Map /\ OnRoad(at, trajectory) /\ BeganOnMap(trajectory)
  BY <1>1, NewRoad
<1> QED  BY <1>1, <1>2, WalkAssumption DEF WalkInvariant

(* A tick changes only the error of the trajectory. *)
LEMMA TickOnRoad ==
    ASSUME WalkInvariant, Tick
    PROVE  /\ WalkInvariant'
           /\ ~arrived' => Manhattan(at', trajectory.target) =
                               Manhattan(at, trajectory.target) - speed
<1> DEFINE s == Step(at, trajectory, speed)
<1>1. /\ speed \in Nat /\ trajectory.target \in Map
      /\ OnRoad(at, trajectory) /\ BeganOnMap(trajectory)
  BY DEF Tick, WalkInvariant
<1>2. /\ at' = s.at /\ trajectory' = [trajectory EXCEPT !.err = s.err]
      /\ arrived' = s.arrived /\ speed' = speed /\ detours' = detours
  BY DEF Tick
<1>3. at \in Point /\ trajectory \in Trajectory
  BY <1>1 DEF OnRoad
<1>4. s.arrived \in BOOLEAN
  BY <1>1, <1>3, StepIsTyped
<1> HIDE DEF s
<1>5. /\ trajectory'.target = trajectory.target
      /\ trajectory'.dx = trajectory.dx /\ trajectory'.dy = trajectory.dy
      /\ trajectory'.sx = trajectory.sx /\ trajectory'.sy = trajectory.sy
  BY <1>2, <1>3 DEF Trajectory
<1>6. BeganOnMap(trajectory')
  BY <1>1, <1>5 DEF BeganOnMap
<1>7. Manhattan(at, trajectory.target) \in Int
  BY <1>3 DEF Manhattan, Magnitude, Point, Trajectory
<1>8. CASE Manhattan(at, trajectory.target) <= speed
  <2>1. arrived' = TRUE
    BY <1>2, <1>8 DEF s, Step
  <2> QED  BY <1>1, <1>2, <1>5, <2>1 DEF WalkInvariant
<1>9. CASE Manhattan(at, trajectory.target) > speed
  <2>1. /\ OnRoad(s.at, [trajectory EXCEPT !.err = s.err])
        /\ Manhattan(s.at, trajectory.target) = Manhattan(at, trajectory.target) - speed
    BY <1>1, <1>9, StepIsNearer DEF s
  <2>2. OnRoad(at', trajectory')
    BY <1>2, <2>1
  <2> QED  BY <1>1, <1>2, <1>4, <1>5, <1>6, <2>1, <2>2 DEF WalkInvariant
<1> QED  BY <1>1, <1>7, <1>8, <1>9

LEMMA DetourOnRoad ==
    ASSUME WalkInvariant, NEW to \in Map, Detour(to)
    PROVE  WalkInvariant' /\ detours' # detours
<1>1. at \in Map
  BY RoadIsOnMap DEF Detour, WalkInvariant
<1>2. /\ trajectory' = NewTrajectory(at, to) /\ at' = at /\ speed' = speed /\ arrived' = arrived
  BY DEF Detour
<1>3. trajectory'.target \in Map /\ OnRoad(at', trajectory') /\ BeganOnMap(trajectory')
  BY <1>1, <1>2, NewRoad
<1>4. detours' \in Nat /\ detours' # detours
  BY DEF Detour, WalkInvariant
<1> QED  BY <1>2, <1>3, <1>4 DEF WalkInvariant

LEMMA WalkStep ==
    ASSUME WalkInvariant, [Next]_vars
    PROVE  WalkInvariant'
<1>1. CASE Tick
  BY <1>1, TickOnRoad
<1>2. CASE \E to \in Map : Detour(to)
  BY <1>2, DetourOnRoad
<1>3. CASE UNCHANGED vars
  BY <1>3 DEF vars, WalkInvariant
<1> QED  BY <1>1, <1>2, <1>3 DEF Next

LEMMA WalkInvariantHolds == Spec => []WalkInvariant
<1>1. WalkInvariant /\ [Next]_vars => WalkInvariant'
  BY WalkStep
<1> QED  BY <1>1, InitWalk, PTL DEF Spec

--------------------------------------------------------------------------------

(* A rescuer that has not begun its last stretch is on the map, however    *)
(* often it was sent elsewhere on the way (bresenham.c:14-60).             *)
THEOREM AlwaysOnTheMap == Spec => []StaysOnTheMap
<1>1. WalkInvariant => StaysOnTheMap
  BY RoadIsOnMap DEF WalkInvariant, StaysOnTheMap
<1> QED  BY <1>1, WalkInvariantHolds, PTL

(* Each tick before the last stretch spends the whole budget towards the   *)
(* target, for the error of any tick before (bresenham.c:40-59).           *)
THEOREM EachTickGoesNearer == Spec => EachTickIsNearer
<1> DEFINE Nearer == detours' = detours /\ ~arrived' =>
                         Manhattan(at', trajectory.target) =
                             Manhattan(at, trajectory.target) - speed
<1>1. ASSUME WalkInvariant, Next PROVE Nearer
  <2>1. CASE Tick
    BY <1>1, <2>1, TickOnRoad
  <2>2. CASE \E to \in Map : Detour(to)
    BY <1>1, <2>2, DetourOnRoad
  <2> QED  BY <1>1, <2>1, <2>2 DEF Next
<1>2. WalkInvariant /\ [Next]_vars => [Nearer]_vars
  BY <1>1
<1> QED  BY <1>2, WalkInvariantHolds, PTL DEF Spec, EachTickIsNearer

=============================================================================
