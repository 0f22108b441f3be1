--------------------------- MODULE BresenhamProofs ---------------------------
(***************************************************************************)
(* What the loop of compute_bresenham_step computes, for every trajectory  *)
(* and every speed.  Walk is a recursive function of the number of         *)
(* iterations: induction on numbers comes from the well-foundedness of <.  *)
(***************************************************************************)
EXTENDS Bresenham, NaturalsInduction, WellFoundedInduction, TLAPS

--------------------------------------------------------------------------------
(* Induction and recursion, with sets for predicates *)

LessThan == {p \in Nat \X Nat : p[1] < p[2]}

LEMMA LessThanIsWellFounded == IsWellFoundedOn(LessThan, Nat)
<1>1. OpToRel(<, Nat) = LessThan
  BY DEF OpToRel, LessThan
<1> QED  BY <1>1, NatLessThanWellFounded

(* A set of numbers has a least one. *)
LEMMA LeastNumber ==
    ASSUME NEW T \in SUBSET Nat, T # {}
    PROVE  \E x \in T : \A y \in T : x <= y
<1>1. PICK x \in T : \A y \in T : <<y, x>> \notin LessThan
  BY LessThanIsWellFounded, WFMin
<1>2. ASSUME NEW y \in T PROVE x <= y
  <2>1. <<y, x>> \notin LessThan
    BY <1>1
  <2> QED  BY <2>1 DEF LessThan
<1> QED  BY <1>2

(* T holds the numbers up to n if it holds 0 and with a number the next. *)
LEMMA UpTo ==
    ASSUME NEW n \in Nat, NEW T, 0 \in T,
           \A k \in 0 .. n : k < n /\ k \in T => k + 1 \in T
    PROVE  0 .. n \subseteq T
<1> DEFINE missing == (0 .. n) \ T
<1> SUFFICES ASSUME missing # {} PROVE FALSE
  OBVIOUS
<1>1. missing \in SUBSET Nat
  OBVIOUS
<1>2. PICK x \in missing : \A y \in missing : x <= y
  BY <1>1, LeastNumber
<1>3. x \in 1 .. n /\ x - 1 \in 0 .. n /\ x - 1 < n /\ x - 1 \notin missing
  BY <1>2
<1>4. (x - 1) + 1 \in T
  BY <1>3
<1> QED  BY <1>2, <1>3, <1>4

(* f follows G from first for n steps. *)
Follow(f, first, G, n) ==
    f[0] = first /\ \A k \in 1 .. n : f[k] = G[<<k, f[k - 1]>>]

(* A recursion on numbers has a solution. *)
LEMMA Recursion ==
    ASSUME NEW n \in Nat, NEW S, NEW first \in S, NEW G \in [(1 .. n) \X S -> S]
    PROVE  \E f \in [0 .. n -> S] : Follow(f, first, G, n)
<1> DEFINE T == {m \in 0 .. n : \E f \in [0 .. m -> S] : Follow(f, first, G, m)}
<1>1. 0 \in T
  <2> DEFINE f == [k \in 0 .. 0 |-> first]
  <2>1. f \in [0 .. 0 -> S] /\ Follow(f, first, G, 0)
    BY DEF Follow
  <2> QED  BY <2>1
<1>2. ASSUME NEW m \in 0 .. n, m < n, m \in T PROVE m + 1 \in T
  <2>1. PICK f \in [0 .. m -> S] : Follow(f, first, G, m)
    BY <1>2
  <2> DEFINE g == [k \in 0 .. m + 1 |-> IF k <= m THEN f[k] ELSE G[<<m + 1, f[m]>>]]
  <2>2. m \in Nat /\ m + 1 \in 1 .. n /\ f[m] \in S
    BY <1>2
  <2>3. G[<<m + 1, f[m]>>] \in S
    BY <2>2
  <2>4. g \in [0 .. m + 1 -> S]
    BY <2>3
  <2>5. \A k \in 0 .. m : g[k] = f[k]
    BY <2>2
  <2>6. g[m + 1] = G[<<m + 1, f[m]>>]
    BY <2>2
  <2> HIDE DEF g
  <2>7. ASSUME NEW k \in 1 .. m + 1 PROVE g[k] = G[<<k, g[k - 1]>>]
    <3>1. CASE k <= m
      BY <2>1, <2>2, <2>5, <3>1 DEF Follow
    <3>2. CASE k = m + 1
      BY <2>2, <2>5, <2>6, <3>2
    <3> QED  BY <2>2, <3>1, <3>2
  <2>8. g[0] = first
    BY <2>1, <2>2, <2>5 DEF Follow
  <2>9. Follow(g, first, G, m + 1)
    BY <2>7, <2>8 DEF Follow
  <2> QED  BY <1>2, <2>4, <2>9
<1>3. 0 .. n \subseteq T
  <2> HIDE DEF T
  <2> QED  BY <1>1, <1>2, UpTo
<1> QED  BY <1>3

--------------------------------------------------------------------------------
(* The loop of compute_bresenham_step *)

WalkState == [at : Point, err : Int, i : Nat]

Setting(from, t) == [at |-> from, err |-> t.err, i |-> 0]

(* one iteration, with the conditions of the loop *)
Turn(w, t, cells) ==
    IF w.i >= cells \/ w.at = t.target THEN w ELSE WalkOnce(w, t, cells)

Loop(from, t, cells) ==
    CHOOSE f : f = [k \in 0 .. cells |->
                       IF k = 0 THEN Setting(from, t) ELSE Turn(f[k - 1], t, cells)]

LEMMA WalkIsLoop ==
    ASSUME NEW from, NEW t, NEW cells
    PROVE  Walk(from, t, cells) = Loop(from, t, cells)[cells]
BY DEF Walk, Loop, Turn, Setting

LEMMA TurnIsTyped ==
    ASSUME NEW w \in WalkState, NEW t \in Trajectory, NEW cells \in Nat
    PROVE  Turn(w, t, cells) \in WalkState
BY DEF Turn, WalkOnce, WalkState, Point, Trajectory

(* The recursion is well-founded: the loop's states are what the           *)
(* definition says they are.                                               *)
LEMMA LoopUnfolds ==
    ASSUME NEW from \in Point, NEW t \in Trajectory, NEW cells \in Nat
    PROVE  LET f == Loop(from, t, cells)
           IN  /\ f \in [0 .. cells -> WalkState]
               /\ f[0] = Setting(from, t)
               /\ \A k \in 1 .. cells : f[k] = Turn(f[k - 1], t, cells)
<1> DEFINE first == Setting(from, t)
           G == [p \in (1 .. cells) \X WalkState |-> Turn(p[2], t, cells)]
           Body(f) == [k \in 0 .. cells |->
                          IF k = 0 THEN Setting(from, t) ELSE Turn(f[k - 1], t, cells)]
<1>1. first \in WalkState
  BY DEF WalkState, Setting, Trajectory
<1>2. G \in [(1 .. cells) \X WalkState -> WalkState]
  BY TurnIsTyped
<1>3. PICK g \in [0 .. cells -> WalkState] : Follow(g, first, G, cells)
  <2> HIDE DEF first, G
  <2> QED  BY <1>1, <1>2, Recursion
<1>4. ASSUME NEW k \in 1 .. cells PROVE g[k] = Turn(g[k - 1], t, cells)
  <2>1. k - 1 \in 0 .. cells /\ <<k, g[k - 1]>> \in (1 .. cells) \X WalkState
    BY <1>3
  <2> QED  BY <1>3, <2>1 DEF Follow
<1>5. g[0] = Setting(from, t)
  BY <1>3 DEF Follow
<1>6. ASSUME NEW k \in 0 .. cells
      PROVE g[k] = IF k = 0 THEN Setting(from, t) ELSE Turn(g[k - 1], t, cells)
  BY <1>4, <1>5
<1>7. g = Body(g)
  BY <1>3, <1>6
<1> DEFINE f == Loop(from, t, cells)
<1>8. f = Body(f)
  BY <1>7 DEF Loop
<1> HIDE DEF f
<1>9. f[0] = Setting(from, t) /\ \A k \in 1 .. cells : f[k] = Turn(f[k - 1], t, cells)
  BY <1>8
<1>10. \A k \in 0 .. cells : f[k] \in WalkState
  <2> DEFINE T == {k \in 0 .. cells : f[k] \in WalkState}
  <2>1. 0 \in T
    BY <1>1, <1>9
  <2>2. ASSUME NEW k \in 0 .. cells, k < cells, k \in T PROVE k + 1 \in T
    <3>1. k + 1 \in 1 .. cells /\ f[k + 1] = Turn(f[k], t, cells)
      BY <1>9, <2>2
    <3> QED  BY <2>2, <3>1, TurnIsTyped
  <2> HIDE DEF T
  <2>3. 0 .. cells \subseteq T
    BY <2>1, <2>2, UpTo
  <2> QED  BY <2>3 DEF T
<1>11. DOMAIN f = 0 .. cells /\ f = [k \in 0 .. cells |-> f[k]]
  BY <1>8
<1>12. f \in [0 .. cells -> WalkState]
  BY <1>10, <1>11
<1> QED  BY <1>9, <1>12 DEF f

(* What compute_bresenham_step reaches from a point and leaves as error    *)
(* are integers, for all integers in the trajectory.                       *)
LEMMA WalkIsTyped ==
    ASSUME NEW from \in Point, NEW t \in Trajectory, NEW cells \in Nat
    PROVE  Walk(from, t, cells) \in WalkState
BY LoopUnfolds, WalkIsLoop

LEMMA StepIsTyped ==
    ASSUME NEW from \in Point, NEW t \in Trajectory, NEW cells \in Nat
    PROVE  LET s == Step(from, t, cells)
           IN  s.at \in Point /\ s.err \in Int /\ s.arrived \in BOOLEAN
<1>1. FinalJump(from, t.target) \in Point
  BY DEF FinalJump, Magnitude, Point, Trajectory
<1>2. Walk(from, t, cells) \in WalkState
  BY WalkIsTyped
<1>3. t.err \in Int
  BY DEF Trajectory
<1> QED  BY <1>1, <1>2, <1>3 DEF Step, WalkState

--------------------------------------------------------------------------------
(* The road *)

(* a is r cells before b in the direction s *)
Before(a, s, r, b) == (s = 1 /\ a + r = b) \/ (s = -1 /\ a - r = b)

(* The point p, with ra and rb cells left on the two axes, and the error e *)
(* are those of Bresenham's walk along t.                                  *)
Along(p, e, t, ra, rb) ==
    /\ ra \in Nat /\ rb \in Nat /\ ra <= t.dx /\ rb <= t.dy
    /\ Before(p.x, t.sx, ra, t.target.x) /\ Before(p.y, t.sy, rb, t.target.y)
    /\ e = (1 - rb) * t.dx + (ra - 1) * t.dy

OnRoad(p, t) ==
    /\ p \in Point /\ t \in Trajectory /\ t.dx \in Nat /\ t.dy \in Nat
    /\ \E ra, rb \in Nat : Along(p, t.err, t, ra, rb)

LEMMA CellsLeft ==
    ASSUME NEW p \in Point, NEW e, NEW t, t.target \in Point, NEW ra \in Nat, NEW rb \in Nat,
           Along(p, e, t, ra, rb)
    PROVE  /\ Manhattan(p, t.target) = ra + rb
           /\ p = t.target <=> ra = 0 /\ rb = 0
<1>1. p.x \in Int /\ p.y \in Int /\ t.target.x \in Int /\ t.target.y \in Int
  BY DEF Point
<1>2. Magnitude(p.x - t.target.x) = ra /\ (p.x = t.target.x <=> ra = 0)
  BY <1>1 DEF Along, Before, Magnitude
<1>3. Magnitude(p.y - t.target.y) = rb /\ (p.y = t.target.y <=> rb = 0)
  BY <1>1 DEF Along, Before, Magnitude
<1>4. p = t.target <=> p.x = t.target.x /\ p.y = t.target.y
  BY DEF Point
<1> QED  BY <1>2, <1>3, <1>4 DEF Manhattan

(* A trajectory begins on its road. *)
LEMMA RoadBegins ==
    ASSUME NEW from \in Point, NEW to \in Point
    PROVE  LET t == NewTrajectory(from, to)
           IN  Along(from, t.err, t, t.dx, t.dy) /\ OnRoad(from, t)
<1> DEFINE t == NewTrajectory(from, to)
<1>1. from.x \in Int /\ from.y \in Int /\ to.x \in Int /\ to.y \in Int
  BY DEF Point
<1>2. /\ t.target = to /\ t.dx = Magnitude(to.x - from.x) /\ t.dy = Magnitude(to.y - from.y)
      /\ t.sx = (IF from.x < to.x THEN 1 ELSE -1) /\ t.sy = (IF from.y < to.y THEN 1 ELSE -1)
      /\ t.err = t.dx - t.dy
  BY DEF NewTrajectory
<1> HIDE DEF t
<1>3. t.dx \in Nat /\ t.dy \in Nat
  BY <1>1, <1>2 DEF Magnitude
<1>4. Before(from.x, t.sx, t.dx, to.x) /\ Before(from.y, t.sy, t.dy, to.y)
  BY <1>1, <1>2 DEF Before, Magnitude
<1>5. t.err = (1 - t.dy) * t.dx + (t.dx - 1) * t.dy
  BY <1>2, <1>3
<1>6. Along(from, t.err, t, t.dx, t.dy)
  BY <1>2, <1>3, <1>4, <1>5 DEF Along
<1>7. t \in Trajectory
  BY <1>1 DEF t, NewTrajectory, Trajectory, Magnitude
<1>8. OnRoad(from, t)
  BY <1>3, <1>6, <1>7 DEF OnRoad
<1> QED  BY <1>6, <1>8 DEF t

LEMMA OneMore ==
    \A r, d \in Nat : /\ (1 - (r - 1)) * d = (1 - r) * d + d
                      /\ ((r - 1) - 1) * d = (r - 1) * d - d
OBVIOUS

(* One iteration goes one or two cells, each towards the target.           *)
LEMMA WalkOnceIsNearer ==
    ASSUME NEW w \in WalkState, NEW t \in Trajectory, t.dx \in Nat, t.dy \in Nat,
           NEW cells \in Nat, w.i < cells,
           NEW ra \in Nat, NEW rb \in Nat, Along(w.at, w.err, t, ra, rb), ra + rb > 0
    PROVE  LET v == WalkOnce(w, t, cells)
           IN  /\ w.i < v.i /\ v.i <= cells
               /\ \E qa, qb \in Nat : /\ Along(v.at, v.err, t, qa, qb)
                                      /\ qa + qb + v.i = ra + rb + w.i
<1> DEFINE onX == 2 * w.err >= -t.dy
           half == IF onX THEN [at |-> [w.at EXCEPT !.x = @ + t.sx],
                                err |-> w.err - t.dy, i |-> w.i + 1]
                          ELSE w
           onY == half.i < cells /\ 2 * w.err <= t.dx
           v == WalkOnce(w, t, cells)
           ha == IF onX THEN ra - 1 ELSE ra
           qb == IF onY THEN rb - 1 ELSE rb
<1>1. /\ w.at \in Point /\ w.err \in Int /\ w.i \in Nat
      /\ w.at.x \in Int /\ w.at.y \in Int
      /\ t.sx \in Int /\ t.sy \in Int /\ t.target.x \in Int /\ t.target.y \in Int
  BY DEF WalkState, Trajectory, Point
<1>2. /\ ra <= t.dx /\ rb <= t.dy /\ w.err = (1 - rb) * t.dx + (ra - 1) * t.dy
      /\ Before(w.at.x, t.sx, ra, t.target.x) /\ Before(w.at.y, t.sy, rb, t.target.y)
  BY DEF Along
(* no axis is walked on that has no cell left *)
<1>3. ASSUME onX, ra = 0 PROVE FALSE
  <2>1. rb >= 1 /\ t.dy >= 1
    BY <1>2, <1>3
  <2>2. (1 - rb) * t.dx <= 0
    BY <2>1
  <2>3. w.err = (1 - rb) * t.dx - t.dy
    BY <1>2, <1>3
  <2> QED  BY <1>1, <1>3, <2>1, <2>2, <2>3
<1>4. ASSUME onY, rb = 0 PROVE FALSE
  <2>1. ra >= 1 /\ t.dx >= 1
    BY <1>2, <1>4
  <2>2. (ra - 1) * t.dy >= 0
    BY <2>1
  <2>3. w.err = t.dx + (ra - 1) * t.dy
    BY <1>2, <1>4
  <2> QED  BY <1>1, <1>4, <2>1, <2>2, <2>3
<1>5. ha \in Nat /\ qb \in Nat /\ ha <= t.dx /\ qb <= t.dy
  <2> HIDE DEF onX, onY
  <2> QED  BY <1>2, <1>3, <1>4
(* half way *)
<1>6. /\ half.at.x = (IF onX THEN w.at.x + t.sx ELSE w.at.x) /\ half.at.y = w.at.y
      /\ half.err = (IF onX THEN w.err - t.dy ELSE w.err)
      /\ half.i = (IF onX THEN w.i + 1 ELSE w.i)
  BY DEF WalkState, Point
<1>7. v = IF onY THEN [at |-> [half.at EXCEPT !.y = @ + t.sy],
                       err |-> half.err + t.dx, i |-> half.i + 1]
                 ELSE half
  BY DEF WalkOnce
<1>8. half.at \in Point /\ half.at = [x |-> half.at.x, y |-> half.at.y]
  BY <1>1 DEF Point
<1> HIDE DEF half
<1>9. /\ v.at.x = half.at.x /\ v.at.y = (IF onY THEN w.at.y + t.sy ELSE w.at.y)
      /\ v.err = (IF onY THEN half.err + t.dx ELSE half.err)
      /\ v.i = (IF onY THEN half.i + 1 ELSE half.i)
  BY <1>6, <1>7, <1>8
<1> HIDE DEF v
<1>10. Before(v.at.x, t.sx, ha, t.target.x) /\ Before(v.at.y, t.sy, qb, t.target.y)
  <2> HIDE DEF onX, onY
  <2>1. Before(v.at.x, t.sx, ha, t.target.x)
    BY <1>1, <1>2, <1>6, <1>9 DEF Before
  <2>2. Before(v.at.y, t.sy, qb, t.target.y)
    <3>1. CASE onY
      BY <1>1, <1>2, <1>9, <3>1 DEF Before
    <3>2. CASE ~onY
      BY <1>2, <1>9, <3>2
    <3> QED  BY <3>1, <3>2
  <2> QED  BY <2>1, <2>2
<1>11. v.err = (1 - qb) * t.dx + (ha - 1) * t.dy
  <2> HIDE DEF onX, onY
  <2>1. (1 - (rb - 1)) * t.dx = (1 - rb) * t.dx + t.dx
    BY OneMore
  <2>2. ((ra - 1) - 1) * t.dy = (ra - 1) * t.dy - t.dy
    BY OneMore
  <2> QED  BY <1>1, <1>2, <1>6, <1>9, <2>1, <2>2
<1>12. Along(v.at, v.err, t, ha, qb)
  BY <1>5, <1>10, <1>11 DEF Along
<1>13. w.i < v.i /\ v.i <= cells
  BY <1>1, <1>6, <1>9
<1>14. ha + qb + v.i = ra + rb + w.i
  <2> HIDE DEF onX, onY
  <2> QED  BY <1>1, <1>6, <1>9
<1> QED  BY <1>5, <1>12, <1>13, <1>14 DEF v

(* w is a point of the walk along t with n cells left *)
OnTheWay(w, t, n) ==
    \E ra, rb \in Nat : Along(w.at, w.err, t, ra, rb) /\ ra + rb = n

(* A tick that does not reach the target walks its whole budget, whatever  *)
(* error the ticks before it left.                                         *)
LEMMA WalkIsNearer ==
    ASSUME NEW from \in Point, NEW t \in Trajectory, t.dx \in Nat, t.dy \in Nat,
           NEW cells \in Nat, NEW ra \in Nat, NEW rb \in Nat,
           Along(from, t.err, t, ra, rb), ra + rb > cells
    PROVE  OnTheWay(Walk(from, t, cells), t, ra + rb - cells)
<1> DEFINE f == Loop(from, t, cells)
           Fine(w, k) == /\ k <= w.i /\ w.i <= cells
                         /\ \E qa, qb \in Nat : /\ Along(w.at, w.err, t, qa, qb)
                                                /\ qa + qb + w.i = ra + rb
           T == {k \in 0 .. cells : Fine(f[k], k)}
<1>1. /\ f \in [0 .. cells -> WalkState]
      /\ f[0] = Setting(from, t)
      /\ \A k \in 1 .. cells : f[k] = Turn(f[k - 1], t, cells)
  BY LoopUnfolds
<1> HIDE DEF f
<1>2. 0 \in T
  <2>1. f[0].at = from /\ f[0].err = t.err /\ f[0].i = 0
    BY <1>1 DEF Setting
  <2>2. Along(f[0].at, f[0].err, t, ra, rb) /\ ra + rb + f[0].i = ra + rb
    BY <2>1
  <2> QED  BY <2>1, <2>2
<1>3. ASSUME NEW k \in 0 .. cells, k < cells, k \in T PROVE k + 1 \in T
  <2> DEFINE w == f[k]
  <2>1. w \in WalkState /\ f[k + 1] = Turn(w, t, cells) /\ k + 1 \in 0 .. cells
    BY <1>1, <1>3
  <2>2. w.i \in Nat /\ w.at \in Point
    BY <2>1 DEF WalkState
  <2>3. PICK qa, qb \in Nat : /\ Along(w.at, w.err, t, qa, qb)
                              /\ qa + qb + w.i = ra + rb
    BY <1>3
  <2>4. k <= w.i /\ w.i <= cells
    BY <1>3
  <2>5. qa + qb > 0 /\ t.target \in Point
    BY <2>2, <2>3, <2>4 DEF Trajectory
  <2>6. w.at # t.target
    BY <2>2, <2>3, <2>5, CellsLeft
  <2> HIDE DEF w
  <2>7. CASE w.i >= cells
    <3>1. f[k + 1] = w
      BY <2>1, <2>7 DEF Turn
    <3>2. Fine(w, k + 1)
      BY <1>3, <2>2, <2>3, <2>4, <2>7
    <3> QED  BY <2>1, <3>1, <3>2
  <2>8. CASE w.i < cells
    <3>1. f[k + 1] = WalkOnce(w, t, cells)
      BY <2>1, <2>2, <2>6, <2>8 DEF Turn
    <3> DEFINE v == WalkOnce(w, t, cells)
    <3>2. v \in WalkState
      BY <1>1, <2>1, <3>1
    <3>3. v.i \in Nat
      BY <3>2 DEF WalkState
    <3>4. /\ w.i < v.i /\ v.i <= cells
          /\ \E ja, jb \in Nat : /\ Along(v.at, v.err, t, ja, jb)
                                 /\ ja + jb + v.i = qa + qb + w.i
      BY <2>1, <2>3, <2>5, <2>8, WalkOnceIsNearer
    <3> HIDE DEF v
    <3>5. Fine(v, k + 1)
      BY <2>2, <2>3, <2>4, <3>3, <3>4
    <3>6. f[k + 1] = v
      BY <3>1 DEF v
    <3> QED  BY <2>1, <3>5, <3>6
  <2> QED  BY <2>2, <2>7, <2>8
<1>4. 0 .. cells \subseteq T
  <2> HIDE DEF T
  <2> QED  BY <1>2, <1>3, UpTo
<1>5. Fine(f[cells], cells) /\ f[cells] \in WalkState
  BY <1>1, <1>4
<1>6. f[cells].i = cells
  BY <1>5 DEF WalkState
<1>7. OnTheWay(f[cells], t, ra + rb - cells)
  BY <1>5, <1>6 DEF OnTheWay
<1>8. Walk(from, t, cells) = f[cells]
  BY WalkIsLoop DEF f
<1> QED  BY <1>7, <1>8

(* So does a tick: before the last one the rescuer stays on its road.      *)
LEMMA StepIsNearer ==
    ASSUME NEW from, NEW t, OnRoad(from, t), NEW cells \in Nat,
           Manhattan(from, t.target) > cells
    PROVE  LET s == Step(from, t, cells)
           IN  /\ OnRoad(s.at, [t EXCEPT !.err = s.err]) /\ ~s.arrived
               /\ Manhattan(s.at, t.target) = Manhattan(from, t.target) - cells
<1> DEFINE s == Step(from, t, cells)
           w == Walk(from, t, cells)
           u == [t EXCEPT !.err = s.err]
<1>1. from \in Point /\ t \in Trajectory /\ t.dx \in Nat /\ t.dy \in Nat /\ t.target \in Point
  BY DEF OnRoad, Trajectory
<1>2. PICK ra, rb \in Nat : Along(from, t.err, t, ra, rb)
  BY DEF OnRoad
<1>3. /\ Manhattan(from, t.target) = ra + rb /\ ra + rb > cells
      /\ ~(Manhattan(from, t.target) <= cells)
  <2>1. Manhattan(from, t.target) = ra + rb
    BY <1>1, <1>2, CellsLeft
  <2> QED  BY <2>1
<1>4. w \in WalkState
  BY <1>1, WalkIsTyped
<1>5. PICK qa, qb \in Nat : Along(w.at, w.err, t, qa, qb) /\ qa + qb = ra + rb - cells
  <2>1. ra + rb > cells
    BY <1>3
  <2>2. OnTheWay(w, t, ra + rb - cells)
    BY <1>1, <1>2, <2>1, WalkIsNearer
  <2> QED  BY <2>2 DEF OnTheWay
<1>6. w.at \in Point /\ w.err \in Int
  BY <1>4 DEF WalkState
<1> HIDE DEF w
<1>7. Manhattan(w.at, t.target) = qa + qb /\ w.at # t.target
  BY <1>1, <1>3, <1>5, <1>6, CellsLeft
<1>8. s = [at |-> w.at, err |-> w.err, arrived |-> FALSE]
  <2>1. s = [at |-> w.at, err |-> w.err, arrived |-> w.at = t.target]
    BY <1>3 DEF Step, w
  <2>2. (w.at = t.target) = FALSE
    BY <1>7
  <2> HIDE DEF s
  <2> QED  BY <2>1, <2>2
<1>9. s.at = w.at /\ s.err = w.err /\ s.arrived = FALSE
  BY <1>8
<1> HIDE DEF s
<1>10. /\ u \in Trajectory /\ u.err = w.err /\ u.target = t.target
       /\ u.dx = t.dx /\ u.dy = t.dy /\ u.sx = t.sx /\ u.sy = t.sy
  BY <1>1, <1>6, <1>9 DEF Trajectory
<1> HIDE DEF u
<1>11. Along(w.at, u.err, u, qa, qb)
  BY <1>5, <1>10 DEF Along
<1>12. OnRoad(s.at, u)
  BY <1>1, <1>6, <1>9, <1>10, <1>11 DEF OnRoad
<1> QED  BY <1>3, <1>5, <1>7, <1>9, <1>12 DEF s, u

=============================================================================
