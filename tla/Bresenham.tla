------------------------------ MODULE Bresenham ------------------------------
(***************************************************************************)
(* How a rescuer walks the map: dependencies/bresenham.c and the distance  *)
(* macros of include/utils.h, as operators over points and trajectories.   *)
(*                                                                         *)
(* A point is a record [x, y].  A trajectory holds the target, the two     *)
(* absolute distances and directions computed when the target was chosen,  *)
(* and the running error, the only field a step changes.                   *)
(***************************************************************************)
EXTENDS Integers

Point == [x : Int, y : Int]

Trajectory == [target : Point, dx : Int, dy : Int, sx : Int, sy : Int, err : Int]

Magnitude(n) == IF n < 0 THEN -n ELSE n

Manhattan(p, q) == Magnitude(p.x - q.x) + Magnitude(p.y - q.y)

(* MUTANT of NewTrajectory: the directions are read off the absolute distances *)
ForwardTrajectory(from, to) ==
    LET dx == Magnitude(to.x - from.x)
        dy == Magnitude(to.y - from.y)
    IN  [target |-> to, dx |-> dx, dy |-> dy,
         sx |-> IF dx > 0 THEN 1 ELSE -1,
         sy |-> IF dy > 0 THEN 1 ELSE -1,
         err |-> dx - dy]

(* change_bresenham_trajectory *)
NewTrajectory(from, to) ==
    LET dx == Magnitude(to.x - from.x)
        dy == Magnitude(to.y - from.y)
    IN  [target |-> to, dx |-> dx, dy |-> dy,
         sx |-> IF from.x < to.x THEN 1 ELSE -1,
         sy |-> IF from.y < to.y THEN 1 ELSE -1,
         err |-> dx - dy]

(* MUTANT of WalkOnce: no test of the budget between the two axes *)
WalkBoth(w, t, cells) ==
    LET twice == 2 * w.err
        half == IF twice >= -t.dy THEN [at |-> [w.at EXCEPT !.x = @ + t.sx],
                                     err |-> w.err - t.dy, i |-> w.i + 1]
                               ELSE w
    IN  IF twice <= t.dx
        THEN [at |-> [half.at EXCEPT !.y = @ + t.sy],
              err |-> half.err + t.dx, i |-> half.i + 1]
        ELSE half

(***************************************************************************)
(* The loop of compute_bresenham_step.  Its state is the point reached,    *)
(* the error and the number i of cells walked; one iteration walks a cell  *)
(* on the x axis, on the y axis, or one on each when the budget allows.    *)
(***************************************************************************)
WalkOnce(w, t, cells) ==
    LET twice == 2 * w.err
        onX  == twice >= -t.dy
        half == IF onX THEN [at |-> [w.at EXCEPT !.x = @ + t.sx],
                             err |-> w.err - t.dy, i |-> w.i + 1]
                       ELSE w
    IN  IF half.i < cells /\ twice <= t.dx
        THEN [at |-> [half.at EXCEPT !.y = @ + t.sy],
              err |-> half.err + t.dx, i |-> half.i + 1]
        ELSE half

Walk(from, t, cells) ==
    LET loop[k \in 0 .. cells] ==
            IF k = 0 THEN [at |-> from, err |-> t.err, i |-> 0]
            ELSE LET w == loop[k - 1]
                 IN  IF w.i >= cells \/ w.at = t.target THEN w
                     ELSE WalkOnce(w, t, cells)
    IN  loop[cells]

(* The last stretch as the code walks it: the two distances are absolute. *)
FinalJump(from, target) ==
    [x |-> from.x + Magnitude(from.x - target.x),
     y |-> from.y + Magnitude(from.y - target.y)]

(***************************************************************************)
(* compute_bresenham_step: the point reached from `from` in one tick, the  *)
(* new error and what the function returns.  The early exits for a missing *)
(* trajectory and a negative speed are not modelled: every twin has a      *)
(* trajectory and MIN_RESCUER_SPEED is 1.                                  *)
(***************************************************************************)
Step(from, t, cells) ==
    IF Manhattan(from, t.target) <= cells
    THEN [at |-> FinalJump(from, t.target), err |-> t.err, arrived |-> TRUE]
    ELSE LET w == Walk(from, t, cells)
         IN  [at |-> w.at, err |-> w.err, arrived |-> w.at = t.target]

=============================================================================
