---------------------------- MODULE SpritesProofs -----------------------------
(***************************************************************************)
(* The sprites, for every maze.  Lemmas about how a sprite that looks      *)
(* before it moves stays in a corridor, whatever the walls are; then       *)
(* Pac-Man, whatever keys are pressed and whatever the FSM does; then the  *)
(* ghosts, wherever Pac-Man is: none gets into a wall, and the ones that   *)
(* patrol keep to the middle of the corridors.                             *)
(***************************************************************************)
EXTENDS Pacman, Ghosts, TLAPS

\* A pixel less than 16 away from another is in its row or in the next one.
LEMMA CellsOfSpan ==
  ASSUME NEW a \in Int, NEW r \in 0..7, NEW e \in Int, -r <= e, e <= r
  PROVE  (a + e) \div 16 = (a - r) \div 16 \/ (a + e) \div 16 = (a + r) \div 16
OBVIOUS

\* Cells beside a corridor cell are in the corridor or walls.
LEMMA CorridorStep ==
  ASSUME NEW r1 \in Int, NEW c1 \in Int, NEW r2 \in Int, NEW c2 \in Int,
         <<r1, c1>> \in Corridor, <<r2, c2>> \notin grid_wall,
         \/ r1 = r2 /\ (c2 = c1 + 1 \/ c2 = c1 - 1)
         \/ c1 = c2 /\ (r2 = r1 + 1 \/ r2 = r1 - 1)
  PROVE  <<r2, c2>> \in Corridor
<1> DEFINE c == <<r1, c1>>
           near == { <<c[1] - 1, c[2]>>, <<c[1] + 1, c[2]>>,
                     <<c[1], c[2] - 1>>, <<c[1], c[2] + 1>> }
<1>1. \A n \in near : n \in Corridor \/ n \in grid_wall
  BY MazeIsEnclosed DEF CorridorAssumption
<1>2. <<r2, c2>> \in near
  OBVIOUS
<1> QED BY <1>1, <1>2

\* A corridor is inside the outer frame of the grid.
LEMMA CorridorBounds ==
  ASSUME NEW r \in Int, NEW c \in Int, <<r, c>> \in Corridor
  PROVE  r \in 1..19 /\ c \in 1..18 /\ <<r, c>> \notin grid_wall
BY MazeIsEnclosed DEF CorridorAssumption

\* A sprite in a corridor is far from the ends of its 10-bit registers.
LEMMA WithinBounds ==
  ASSUME NEW x \in Int, NEW y \in Int, Within([x |-> x, y |-> y], 4)
  PROVE  x \in 188..467 /\ y \in 92..387
<1>1. Cell(x - 4, y - 4) \in Corridor /\ Cell(x + 4, y + 4) \in Corridor
  BY DEF Within
<1>2. /\ (y - 4 - 72) \div 16 \in 1..19 /\ (x - 4 - 168) \div 16 \in 1..18
      /\ (y + 4 - 72) \div 16 \in 1..19 /\ (x + 4 - 168) \div 16 \in 1..18
  BY <1>1, CorridorBounds DEF Cell
<1> QED BY <1>2

\* One pixel of motion does not wrap the registers of a sprite in a corridor.
LEMMA WithinRegisters ==
  ASSUME NEW x \in Int, NEW y \in Int, Within([x |-> x, y |-> y], 4)
  PROVE  x \in 0..1023 /\ y \in 0..1023
<1>1. x \in 188..467 /\ y \in 92..387
  BY WithinBounds
<1> QED BY <1>1

(***************************************************************************)
(* A sprite at (x, y) whose motion takes it to (a, b), with its inner half *)
(* in the corridor, and whose lookups on the side k (1 or -1) of the first *)
(* axis found no wall: one pixel further on that side it is still in it.   *)
(***************************************************************************)
LEMMA StepSideways ==
  ASSUME NEW x \in Int, NEW y \in Int, NEW a \in Int, NEW b \in Int,
         a - x \in -1..1, b - y \in -1..1,
         Within([x |-> a, y |-> b], 4),
         NEW k \in {-1, 1},
         Cell(x + 9 * k, y - 5) \notin grid_wall,
         Cell(x + 9 * k, y + 5) \notin grid_wall
  PROVE  Within([x |-> a + k, y |-> b], 4)
<1> SUFFICES ASSUME NEW dx \in {-4, 4}, NEW dy \in {-4, 4}
             PROVE  Cell(a + k + dx, b + dy) \in Corridor
  BY DEF Within
<1>1. Cell(a - 4, b + dy) \in Corridor /\ Cell(a + 4, b + dy) \in Corridor
  BY DEF Within
<1> DEFINE row == (b + dy - 72) \div 16
           col(u) == (u - 168) \div 16
<1>2. <<row, col(a - 4)>> \in Corridor /\ <<row, col(a + 4)>> \in Corridor
  BY <1>1 DEF Cell
<1>3. row = (y - 5 - 72) \div 16 \/ row = (y + 5 - 72) \div 16
  OBVIOUS
<1>4. <<row, col(x + 9 * k)>> \notin grid_wall
  BY <1>3 DEF Cell
<1>5. SUFFICES <<row, col(a + k + dx)>> \in Corridor
  BY DEF Cell
<1>6. CASE dx = -4 * k
  <2>1. col(a + k + dx) = col(a - 4) \/ col(a + k + dx) = col(a + 4)
    BY <1>6
  <2> QED BY <2>1, <1>2
<1>7. CASE dx = 4 * k
  <2>1. col(a + k + dx) = col(a + dx) \/ col(a + k + dx) = col(a + dx) + k
    BY <1>7
  <2>2. CASE col(a + k + dx) = col(a + dx)
    BY <2>2, <1>2
  <2>3. CASE col(a + k + dx) = col(a + dx) + k
    <3>1. col(x + 9 * k) = col(a + dx) + k
      BY <2>3, <1>7
    <3>2. <<row, col(a + dx) + k>> \notin grid_wall
      BY <3>1, <1>4
    <3>3. <<row, col(a + dx)>> \in Corridor
      BY <1>2
    <3>4. <<row, col(a + dx) + k>> \in Corridor
      <4>1. row \in Int /\ col(a + dx) \in Int
        OBVIOUS
      <4> HIDE DEF row, col
      <4> QED BY <3>2, <3>3, <4>1, CorridorStep
    <3> QED BY <3>4, <2>3
  <2> QED BY <2>1, <2>2, <2>3
<1> QED BY <1>6, <1>7

\* The same for the lookups above (k = -1) and below (k = 1).
LEMMA StepUpDown ==
  ASSUME NEW x \in Int, NEW y \in Int, NEW a \in Int, NEW b \in Int,
         a - x \in -1..1, b - y \in -1..1,
         Within([x |-> a, y |-> b], 4),
         NEW k \in {-1, 1},
         Cell(x - 6, y + 9 * k) \notin grid_wall,
         Cell(x + 6, y + 9 * k) \notin grid_wall
  PROVE  Within([x |-> a, y |-> b + k], 4)
<1> SUFFICES ASSUME NEW dx \in {-4, 4}, NEW dy \in {-4, 4}
             PROVE  Cell(a + dx, b + k + dy) \in Corridor
  BY DEF Within
<1>1. Cell(a + dx, b - 4) \in Corridor /\ Cell(a + dx, b + 4) \in Corridor
  BY DEF Within
<1> DEFINE col == (a + dx - 168) \div 16
           row(v) == (v - 72) \div 16
<1>2. <<row(b - 4), col>> \in Corridor /\ <<row(b + 4), col>> \in Corridor
  BY <1>1 DEF Cell
<1>3. col = (x - 6 - 168) \div 16 \/ col = (x + 6 - 168) \div 16
  OBVIOUS
<1>4. <<row(y + 9 * k), col>> \notin grid_wall
  BY <1>3 DEF Cell
<1>5. SUFFICES <<row(b + k + dy), col>> \in Corridor
  BY DEF Cell
<1>6. CASE dy = -4 * k
  <2>1. row(b + k + dy) = row(b - 4) \/ row(b + k + dy) = row(b + 4)
    BY <1>6
  <2> QED BY <2>1, <1>2
<1>7. CASE dy = 4 * k
  <2>1. row(b + k + dy) = row(b + dy) \/ row(b + k + dy) = row(b + dy) + k
    BY <1>7
  <2>2. CASE row(b + k + dy) = row(b + dy)
    BY <2>2, <1>2
  <2>3. CASE row(b + k + dy) = row(b + dy) + k
    <3>1. row(y + 9 * k) = row(b + dy) + k
      BY <2>3, <1>7
    <3>2. <<row(b + dy) + k, col>> \notin grid_wall
      BY <3>1, <1>4
    <3>3. <<row(b + dy), col>> \in Corridor
      BY <1>2
    <3>4. <<row(b + dy) + k, col>> \in Corridor
      <4>1. col \in Int /\ row(b + dy) \in Int
        OBVIOUS
      <4> HIDE DEF row, col
      <4> QED BY <3>2, <3>3, <4>1, CorridorStep
    <3> QED BY <3>4, <2>3
  <2> QED BY <2>1, <2>2, <2>3
<1> QED BY <1>6, <1>7

(***************************************************************************)
(* A sprite that looks in direction d from where it is, still makes the    *)
(* move it had decided before, and only then moves in direction d, stays   *)
(* in the corridor: the lookups reach far enough for the extra pixel.      *)
(***************************************************************************)
LEMMA LookThenMove ==
  ASSUME NEW x \in Int, NEW y \in Int, NEW mx \in -1..1, NEW my \in -1..1,
         NEW s, s.x = x, s.y = y,
         Within([x |-> x + mx, y |-> y + my], 4),
         NEW d \in Dirs,
         Clear(s, d, IF d \in Sideways THEN {-5, 5} ELSE {-6, 6})
  PROVE  Within([x |-> x + mx + DX(d), y |-> y + my + DY(d)], 4)
<1> DEFINE a == x + mx
           b == y + my
<1>a. a \in Int /\ b \in Int /\ a - x \in -1..1 /\ b - y \in -1..1
  OBVIOUS
<1>b. Within([x |-> a, y |-> b], 4)
  OBVIOUS
<1>1. CASE d \in Sideways
  <2>1. DX(d) \in {-1, 1} /\ DY(d) = 0
    BY <1>1 DEF Sideways, DX, DY
  <2>2. /\ Cell(x + 9 * DX(d), y - 5) \notin grid_wall
        /\ Cell(x + 9 * DX(d), y + 5) \notin grid_wall
    BY <1>1 DEF Clear, Probe, HalfSize
  <2> HIDE DEF a, b
  <2>3. Within([x |-> a + DX(d), y |-> b], 4)
    BY <1>a, <1>b, <2>1, <2>2, StepSideways
  <2>4. b + DY(d) = b
    BY <1>a, <2>1
  <2>5. Within([x |-> a + DX(d), y |-> b + DY(d)], 4)
    BY <2>3, <2>4
  <2> QED BY <2>5 DEF a, b
<1>2. CASE d \notin Sideways
  <2>1. DX(d) = 0 /\ DY(d) \in {-1, 1}
    BY <1>2 DEF Dirs, Sideways, DX, DY
  <2>2. /\ Cell(x - 6, y + 9 * DY(d)) \notin grid_wall
        /\ Cell(x + 6, y + 9 * DY(d)) \notin grid_wall
    BY <1>2 DEF Clear, Probe, HalfSize
  <2> HIDE DEF a, b
  <2>3. Within([x |-> a, y |-> b + DY(d)], 4)
    BY <1>a, <1>b, <2>1, <2>2, StepUpDown
  <2>4. a + DX(d) = a
    BY <1>a, <2>1
  <2>5. Within([x |-> a + DX(d), y |-> b + DY(d)], 4)
    BY <2>3, <2>4
  <2> QED BY <2>5 DEF a, b
<1> QED BY <1>1, <1>2

\* A lookup reaches at most one cell beyond the sprite, on each axis.
LEMMA NextCells ==
  ASSUME NEW v \in Int, NEW n \in Int,
         (v - 4) \div 16 \in 1..n, (v + 4) \div 16 \in 1..n,
         NEW e \in -9..9
  PROVE  (v + e) \div 16 \in 0..(n + 1)
OBVIOUS

\* Every lookup of a sprite in a corridor is one of a cell of the grid.
LEMMA LooksInside ==
  ASSUME NEW s, NEW x \in Int, NEW y \in Int, s.x = x, s.y = y,
         Within([x |-> x, y |-> y], 4),
         NEW d \in Dirs, NEW o \in -6..6
  PROVE  Probe(s, d, o) \in Rows \X Columns
<1> DEFINE u == x - 168
           v == y - 72
<1>1. Cell(x - 4, y - 4) \in Corridor /\ Cell(x + 4, y + 4) \in Corridor
  BY DEF Within
<1>2. /\ (v - 4) \div 16 \in 1..19 /\ (u - 4) \div 16 \in 1..18
      /\ (v + 4) \div 16 \in 1..19 /\ (u + 4) \div 16 \in 1..18
  <2>1. /\ <<(v - 4) \div 16, (u - 4) \div 16>> \in Corridor
        /\ <<(v + 4) \div 16, (u + 4) \div 16>> \in Corridor
    BY <1>1 DEF Cell
  <2>2. /\ (v - 4) \div 16 \in Int /\ (u - 4) \div 16 \in Int
        /\ (v + 4) \div 16 \in Int /\ (u + 4) \div 16 \in Int
    OBVIOUS
  <2> QED BY <2>1, <2>2, CorridorBounds
<1>3. DX(d) \in -1..1 /\ DY(d) \in -1..1
  BY DEF DX, DY
<1>4. 9 * DX(d) \in -9..9 /\ 9 * DY(d) \in -9..9 /\ o \in -9..9
  BY <1>3
<1>5. \A e \in -9..9 : (v + e) \div 16 \in 0..20 /\ (u + e) \div 16 \in 0..19
  <2> SUFFICES ASSUME NEW e \in -9..9
               PROVE  (v + e) \div 16 \in 0..20 /\ (u + e) \div 16 \in 0..19
    OBVIOUS
  <2>1. u \in Int /\ v \in Int
    OBVIOUS
  <2> HIDE DEF u, v
  <2> QED BY <1>2, <2>1, NextCells
<1>6. Probe(s, d, o) =
        IF d \in Sideways THEN <<(v + o) \div 16, (u + 9 * DX(d)) \div 16>>
                          ELSE <<(v + 9 * DY(d)) \div 16, (u + o) \div 16>>
  BY <1>3 DEF Probe, Cell, HalfSize
<1> HIDE DEF u, v
<1> QED BY <1>4, <1>5, <1>6 DEF Rows, Columns

-----------------------------------------------------------------------------
(***************************************************************************)
(* The same for a sprite that keeps to the middle of the corridors: one    *)
(* lookup per side is enough to keep 7 pixels around its centre clear.     *)
(***************************************************************************)
LEMMA MiddleSideways ==
  ASSUME NEW x \in Int, NEW y \in Int, NEW a \in Int, NEW b \in Int,
         a - x \in -1..1, b - y \in -1..1,
         Within([x |-> a, y |-> b], 7), (b - 72) % 16 \in {7, 8},
         NEW k \in {-1, 1}, Cell(x + 9 * k, y) \notin grid_wall
  PROVE  Within([x |-> a + k, y |-> b], 7)
<1> SUFFICES ASSUME NEW dx \in {-7, 7}, NEW dy \in {-7, 7}
             PROVE  Cell(a + k + dx, b + dy) \in Corridor
  BY DEF Within
<1>1. Cell(a - 7, b + dy) \in Corridor /\ Cell(a + 7, b + dy) \in Corridor
  BY DEF Within
<1> DEFINE row == (b + dy - 72) \div 16
           col(u) == (u - 168) \div 16
<1>2. <<row, col(a - 7)>> \in Corridor /\ <<row, col(a + 7)>> \in Corridor
  BY <1>1 DEF Cell
<1>3. row = (y - 72) \div 16
  OBVIOUS
<1>4. <<row, col(x + 9 * k)>> \notin grid_wall
  BY <1>3 DEF Cell
<1>5. SUFFICES <<row, col(a + k + dx)>> \in Corridor
  BY DEF Cell
<1>6. CASE dx = -7 * k
  <2>1. col(a + k + dx) = col(a - 7) \/ col(a + k + dx) = col(a + 7)
    BY <1>6
  <2> QED BY <2>1, <1>2
<1>7. CASE dx = 7 * k
  <2>1. \/ col(a + k + dx) = col(a + dx)
        \/ /\ col(a + k + dx) = col(a + dx) + k
           /\ col(x + 9 * k) = col(a + dx) + k
    BY <1>7
  <2>2. <<row, col(a + dx)>> \in Corridor
    BY <1>2
  <2>3. row \in Int /\ col(a + dx) \in Int
    OBVIOUS
  <2>4. CASE col(a + k + dx) = col(a + dx)
    BY <2>4, <2>2
  <2>5. CASE /\ col(a + k + dx) = col(a + dx) + k
             /\ col(x + 9 * k) = col(a + dx) + k
    <3>1. <<row, col(a + dx) + k>> \notin grid_wall
      BY <2>5, <1>4
    <3> HIDE DEF row, col
    <3>2. <<row, col(a + dx) + k>> \in Corridor
      BY <2>2, <2>3, <3>1, CorridorStep
    <3> QED BY <2>5, <3>2
  <2> QED BY <2>1, <2>4, <2>5
<1> QED BY <1>6, <1>7

\* The same above and below.
LEMMA MiddleUpDown ==
  ASSUME NEW x \in Int, NEW y \in Int, NEW a \in Int, NEW b \in Int,
         a - x \in -1..1, b - y \in -1..1,
         Within([x |-> a, y |-> b], 7), (a - 168) % 16 \in {7, 8},
         NEW k \in {-1, 1}, Cell(x, y + 9 * k) \notin grid_wall
  PROVE  Within([x |-> a, y |-> b + k], 7)
<1> SUFFICES ASSUME NEW dx \in {-7, 7}, NEW dy \in {-7, 7}
             PROVE  Cell(a + dx, b + k + dy) \in Corridor
  BY DEF Within
<1>1. Cell(a + dx, b - 7) \in Corridor /\ Cell(a + dx, b + 7) \in Corridor
  BY DEF Within
<1> DEFINE col == (a + dx - 168) \div 16
           row(v) == (v - 72) \div 16
<1>2. <<row(b - 7), col>> \in Corridor /\ <<row(b + 7), col>> \in Corridor
  BY <1>1 DEF Cell
<1>3. col = (x - 168) \div 16
  OBVIOUS
<1>4. <<row(y + 9 * k), col>> \notin grid_wall
  BY <1>3 DEF Cell
<1>5. SUFFICES <<row(b + k + dy), col>> \in Corridor
  BY DEF Cell
<1>6. CASE dy = -7 * k
  <2>1. row(b + k + dy) = row(b - 7) \/ row(b + k + dy) = row(b + 7)
    BY <1>6
  <2> QED BY <2>1, <1>2
<1>7. CASE dy = 7 * k
  <2>1. \/ row(b + k + dy) = row(b + dy)
        \/ /\ row(b + k + dy) = row(b + dy) + k
           /\ row(y + 9 * k) = row(b + dy) + k
    BY <1>7
  <2>2. <<row(b + dy), col>> \in Corridor
    BY <1>2
  <2>3. col \in Int /\ row(b + dy) \in Int
    OBVIOUS
  <2>4. CASE row(b + k + dy) = row(b + dy)
    BY <2>4, <2>2
  <2>5. CASE /\ row(b + k + dy) = row(b + dy) + k
             /\ row(y + 9 * k) = row(b + dy) + k
    <3>1. <<row(b + dy) + k, col>> \notin grid_wall
      BY <2>5, <1>4
    <3> HIDE DEF row, col
    <3>2. <<row(b + dy) + k, col>> \in Corridor
      BY <2>2, <2>3, <3>1, CorridorStep
    <3> QED BY <2>5, <3>2
  <2> QED BY <2>1, <2>4, <2>5
<1> QED BY <1>6, <1>7

\* Where such a sprite finds a wall ahead, its next place is mid-cell.
LEMMA BlockedMidColumn ==
  ASSUME NEW x \in Int, NEW y \in Int, NEW a \in Int, NEW b \in Int,
         NEW k \in {-1, 1}, a = x \/ a = x + k, b - y \in -1..1,
         Within([x |-> x, y |-> b], 7), Within([x |-> a, y |-> b], 7),
         (b - 72) % 16 \in {7, 8}, Cell(x + 9 * k, y) \in grid_wall
  PROVE  (a - 168) % 16 \in {7, 8}
<1> DEFINE row == (b + 7 - 72) \div 16
           col(u) == (u - 168) \div 16
<1>1. Cell(x + 7 * k, b + 7) \in Corridor /\ Cell(a + 7 * k, b + 7) \in Corridor
  BY DEF Within
<1>2. row = (y - 72) \div 16
  OBVIOUS
<1>3. <<row, col(x + 9 * k)>> \in grid_wall
  BY <1>2 DEF Cell
<1>4. /\ <<row, col(x + 7 * k)>> \notin grid_wall
      /\ <<row, col(a + 7 * k)>> \notin grid_wall
  BY <1>1, MazeIsEnclosed DEF Cell, CorridorAssumption
<1>5. col(x + 9 * k) # col(x + 7 * k) /\ col(x + 9 * k) # col(a + 7 * k)
  BY <1>3, <1>4
<1> QED BY <1>5

\* The same for the rows.
LEMMA BlockedMidRow ==
  ASSUME NEW x \in Int, NEW y \in Int, NEW a \in Int, NEW b \in Int,
         NEW k \in {-1, 1}, b = y \/ b = y + k, a - x \in -1..1,
         Within([x |-> a, y |-> y], 7), Within([x |-> a, y |-> b], 7),
         (a - 168) % 16 \in {7, 8}, Cell(x, y + 9 * k) \in grid_wall
  PROVE  (b - 72) % 16 \in {7, 8}
<1> DEFINE col == (a + 7 - 168) \div 16
           row(v) == (v - 72) \div 16
<1>1. Cell(a + 7, y + 7 * k) \in Corridor /\ Cell(a + 7, b + 7 * k) \in Corridor
  BY DEF Within
<1>2. col = (x - 168) \div 16
  OBVIOUS
<1>3. <<row(y + 9 * k), col>> \in grid_wall
  BY <1>2 DEF Cell
<1>4. /\ <<row(y + 7 * k), col>> \notin grid_wall
      /\ <<row(b + 7 * k), col>> \notin grid_wall
  BY <1>1, MazeIsEnclosed DEF Cell, CorridorAssumption
<1>5. row(y + 9 * k) # row(y + 7 * k) /\ row(y + 9 * k) # row(b + 7 * k)
  BY <1>3, <1>4
<1> QED BY <1>5

\* A sprite with 7 pixels clear has 4 pixels clear.
LEMMA WithinSmaller ==
  ASSUME NEW x \in Int, NEW y \in Int, Within([x |-> x, y |-> y], 7)
  PROVE  Within([x |-> x, y |-> y], 4)
<1> SUFFICES ASSUME NEW dx \in {-4, 4}, NEW dy \in {-4, 4}
             PROVE  Cell(x + dx, y + dy) \in Corridor
  BY DEF Within
<1> DEFINE row(v) == (v - 72) \div 16
           col(u) == (u - 168) \div 16
<1>1. \A ex \in {-7, 7}, ey \in {-7, 7} : <<row(y + ey), col(x + ex)>> \in Corridor
  BY DEF Within, Cell
<1>2. col(x + dx) = col(x - 7) \/ col(x + dx) = col(x + 7)
  OBVIOUS
<1>3. row(y + dy) = row(y - 7) \/ row(y + dy) = row(y + 7)
  OBVIOUS
<1>4. PICK ex \in {-7, 7} : col(x + dx) = col(x + ex)
  BY <1>2
<1>5. PICK ey \in {-7, 7} : row(y + dy) = row(y + ey)
  BY <1>3
<1>6. <<row(y + dy), col(x + dx)>> \in Corridor
  BY <1>1, <1>4, <1>5
<1> QED BY <1>6 DEF Cell

-----------------------------------------------------------------------------
\* Pac-Man.

\* The invariant: the place his motion takes him to is in the corridor too.
PacInv ==
  /\ pac \in PacType
  /\ Within([x |-> pac.x, y |-> pac.y], 4)
  /\ Within(Ahead(pac), 4)

\* Numbers from the ranges of the registers.
LEMMA PlaceIsInt == \A v \in 0..1023 : v \in Int
OBVIOUS

LEMMA MotionIsInt == ASSUME NEW v \in {-1, 0, 1} PROVE v \in Int /\ v \in -1..1
OBVIOUS

LEMMA PacFields ==
  ASSUME pac \in PacType
  PROVE  /\ pac.x \in Int /\ pac.y \in Int /\ pac.mx \in -1..1 /\ pac.my \in -1..1
         /\ pac = [x |-> pac.x, y |-> pac.y, mx |-> pac.mx, my |-> pac.my]
<1> DEFINE Places == 0..1023
<1>1. pac.x \in Places /\ pac.y \in Places
  BY DEF PacType
<1>2. pac.mx \in {-1, 0, 1} /\ pac.my \in {-1, 0, 1}
  BY DEF PacType
<1>3. pac = [x |-> pac.x, y |-> pac.y, mx |-> pac.mx, my |-> pac.my]
  BY DEF PacType
<1>4. \A v \in Places : v \in Int
  BY PlaceIsInt
<1> HIDE DEF Places
<1>5. pac.x \in Int /\ pac.y \in Int
  BY <1>1, <1>4
<1>6. pac.mx \in -1..1
  BY <1>2, MotionIsInt
<1>7. pac.my \in -1..1
  BY <1>2, MotionIsInt
<1> QED BY <1>3, <1>5, <1>6, <1>7

\* Pac-Man starts with all registers in the invariant.
LEMMA PacInitInv == ASSUME PacInit PROVE PacInv
<1>1. Ball_X_Center \in 188..467 /\ Ball_Y_Center \in 92..387
  BY PacStartsInCorridor, WithinBounds
<1> QED BY <1>1, PacStartsInCorridor
        DEF PacInit, PacInv, PacAtStart, PacType, Within, Ahead

\* A reset brings him back there, whatever he was doing.
LEMMA PacResetInv == ASSUME PacReset PROVE PacInv'
<1>1. Ball_X_Center \in 188..467 /\ Ball_Y_Center \in 92..387
  BY PacStartsInCorridor, WithinBounds
<1> QED BY <1>1, PacStartsInCorridor
        DEF PacReset, PacInv, PacAtStart, PacType, Within, Ahead

\* A frame keeps the invariant: he moves by the motion that an earlier lookup
\* allowed, and takes a new one only if the lookups of this frame allow it.
LEMMA PacFrameInv ==
  ASSUME PacInv, NEW st, NEW key, PacFrame(st, key)
  PROVE  PacInv'
<1>1. CASE PacHalt(st)
  <2>1. pac' = [pac EXCEPT !.mx = 0, !.my = 0]
    BY <1>1 DEF PacHalt
  <2>0. pac \in PacType
    BY DEF PacInv
  <2>b. pac = [x |-> pac.x, y |-> pac.y, mx |-> pac.mx, my |-> pac.my]
    BY <2>0, PacFields
  <2>2. pac' = [x |-> pac.x, y |-> pac.y, mx |-> 0, my |-> 0]
    BY <2>1, <2>b
  <2>c. pac.x + 0 = pac.x /\ pac.y + 0 = pac.y
    BY <2>0, PacFields
  <2>d. Ahead(pac)' = [x |-> pac'.x + pac'.mx, y |-> pac'.y + pac'.my]
    BY DEF Ahead
  <2>e. pac'.x = pac.x /\ pac'.y = pac.y /\ pac'.mx = 0 /\ pac'.my = 0
    BY <2>2
  <2>3. Ahead(pac)' = [x |-> pac.x, y |-> pac.y]
    BY <2>c, <2>d, <2>e
  <2>4. pac'.x = pac.x /\ pac'.y = pac.y
    BY <2>2
  <2>5. pac' \in PacType
    BY <2>0, <2>2 DEF PacType
  <2>6. Within([x |-> pac.x, y |-> pac.y], 4)
    BY DEF PacInv
  <2> QED BY <2>3, <2>4, <2>5, <2>6 DEF PacInv
<1>2. CASE PacSteer(st, key)
  <2> DEFINE a == pac.x + pac.mx
             b == pac.y + pac.my
  <2>1. key \in Dirs /\ Clear(pac, key, PacLooks(key))
    BY <1>2 DEF PacSteer, CanSteer
  <2>2. Clear(pac, key, IF key \in Sideways THEN {-5, 5} ELSE {-6, 6})
    BY <2>1 DEF Clear, PacLooks
  <2>3. /\ pac.x \in Int /\ pac.y \in Int
        /\ pac.mx \in -1..1 /\ pac.my \in -1..1
    BY PacFields DEF PacInv
  <2>4. Within([x |-> a, y |-> b], 4)
    BY DEF PacInv, Ahead
  <2>5. Within([x |-> a + DX(key), y |-> b + DY(key)], 4)
    BY <2>1, <2>2, <2>3, <2>4, LookThenMove
  <2>6. a \in 188..467 /\ b \in 92..387
    <3>1. a \in Int /\ b \in Int
      BY <2>3
    <3> HIDE DEF a, b
    <3> QED BY <3>1, <2>4, WithinBounds
  <2>7. pac' = [x |-> a, y |-> b, mx |-> DX(key), my |-> DY(key)]
    BY <1>2, <2>6 DEF PacSteer, Wrap
  <2>8. DX(key) \in {-1, 0, 1} /\ DY(key) \in {-1, 0, 1}
    BY DEF DX, DY
  <2> HIDE DEF a, b
  <2>9. /\ pac'.x = a /\ pac'.y = b
        /\ Ahead(pac)' = [x |-> a + DX(key), y |-> b + DY(key)]
    BY <2>7 DEF Ahead
  <2>10. pac' \in PacType
    <3>1. a \in 0..1023 /\ b \in 0..1023
      BY <2>6
    <3> QED BY <2>7, <2>8, <3>1 DEF PacType
  <2> QED BY <2>4, <2>5, <2>9, <2>10 DEF PacInv
<1>3. CASE PacHold(st, key)
  BY <1>3 DEF PacHold, PacInv, PacType, Within, Ahead
<1>4. CASE PacWait(st)
  BY <1>4 DEF PacWait, PacInv, Within, Ahead
<1> QED BY <1>1, <1>2, <1>3, <1>4 DEF PacFrame

\* The inductive invariant of Move_Ball: not only where Pac-Man is but also
\* where his motion takes him next stays in the corridor.
THEOREM PacSpecInv == PacSpec => []PacInv
<1>1. PacInit => PacInv
  BY PacInitInv
<1>2. PacInv /\ [PacNext]_pac => PacInv'
  <2> SUFFICES ASSUME PacInv, [PacNext]_pac PROVE PacInv'
    OBVIOUS
  <2>1. CASE PacReset
    BY <2>1, PacResetInv
  <2>2. CASE \E st \in {"Intro", "Start", "Game", "End"}, key \in Keys : PacFrame(st, key)
    BY <2>2, PacFrameInv
  <2>3. CASE UNCHANGED pac
    BY <2>3 DEF PacInv, Within, Ahead
  <2> QED BY <2>1, <2>2, <2>3 DEF PacNext
<1> QED BY <1>1, <1>2, PTL DEF PacSpec

\* The position never leaves the 10 bits of its registers.
THEOREM PacTypeCorrect == PacSpec => []PacTypeOK
<1>1. PacInv => PacTypeOK
  BY DEF PacInv, PacTypeOK
<1> QED BY <1>1, PacSpecInv, PTL

\* No sequence of keys, screens and resets gets Pac-Man into a wall.
THEOREM PacNeverInWall == PacSpec => []PacStaysInCorridor
<1>1. PacInv => PacStaysInCorridor
  BY DEF PacInv, PacStaysInCorridor, Within
<1> QED BY <1>1, PacSpecInv, PTL

\* No map_check_ lookup of ball.sv reads outside the array of walls.
THEOREM PacLooksDefined == PacSpec => []PacLooksInsideGrid
<1>1. PacInv => PacLooksInsideGrid
  <2> SUFFICES ASSUME PacInv, NEW d \in Dirs, NEW o \in {-6, -5, 0, 5, 6}
               PROVE  Probe(pac, d, o) \in Rows \X Columns
    BY DEF PacLooksInsideGrid
  <2>1. pac.x \in Int /\ pac.y \in Int /\ Within([x |-> pac.x, y |-> pac.y], 4)
    BY PacFields DEF PacInv
  <2>2. o \in -6..6
    OBVIOUS
  <2> QED BY <2>1, <2>2, LooksInside
<1> QED BY <1>1, PacSpecInv, PTL

-----------------------------------------------------------------------------
\* The ghosts.

Still(h) == h.mx = 0 /\ h.my = 0
OnCourse(h) == h.mx = DX(h.direction) /\ h.my = DY(h.direction)

\* What holds of a patrolling ghost: it is mid-cell across its direction.
PatrolInv(h) ==
  /\ Within([x |-> h.x, y |-> h.y], 7)
  /\ Within(Ahead(h), 7)
  /\ h.direction \in Dirs => Still(h) \/ OnCourse(h)
  /\ h.direction \in Sideways => (h.y - 72) % 16 \in {7, 8}
  /\ h.direction \in Dirs \ Sideways => (h.x - 168) % 16 \in {7, 8}

\* What holds of ghost g with the registers h.
GhostInv(g, h) ==
  /\ h \in GhostType
  /\ Within([x |-> h.x, y |-> h.y], 4)
  /\ Within(Ahead(h), 4)
  /\ h.direction = "idle" => Still(h) /\ Centred(h)
  /\ g \in Patrol => PatrolInv(h)

GhostsInv ==
  /\ ghost \in [Ghosts -> GhostType]
  /\ \A g \in Ghosts : GhostInv(g, ghost[g])

-----------------------------------------------------------------------------
\* The registers of one ghost, taken from the type of all of them.
LEMMA GhostFields ==
  ASSUME NEW h \in GhostType
  PROVE  /\ h.x \in Int /\ h.y \in Int /\ h.mx \in Int /\ h.my \in Int
         /\ h.mx \in -1..1 /\ h.my \in -1..1
         /\ h.direction \in Dirs \cup {"idle"}
         /\ h.X_Disp \in Int /\ h.Y_Disp \in Int
         /\ h = [x |-> h.x, y |-> h.y, mx |-> h.mx, my |-> h.my,
                 direction |-> h.direction, X_Disp |-> h.X_Disp, Y_Disp |-> h.Y_Disp]
<1>1. h = [x |-> h.x, y |-> h.y, mx |-> h.mx, my |-> h.my,
           direction |-> h.direction, X_Disp |-> h.X_Disp, Y_Disp |-> h.Y_Disp]
  BY DEF GhostType
<1> DEFINE Places == 0..1023
<1>2. h.x \in Places /\ h.y \in Places
  BY DEF GhostType
<1>3. h.mx \in {-1, 0, 1} /\ h.my \in {-1, 0, 1}
  BY DEF GhostType
<1>4. h.direction \in Dirs \cup {"idle"} /\ h.X_Disp \in Int /\ h.Y_Disp \in Int
  BY DEF GhostType
<1>5. \A v \in Places : v \in Int
  BY PlaceIsInt
<1> HIDE DEF Places
<1>6. h.x \in Int /\ h.y \in Int
  BY <1>2, <1>5
<1>7. h.mx \in Int /\ h.mx \in -1..1
  BY <1>3, MotionIsInt
<1>8. h.my \in Int /\ h.my \in -1..1
  BY <1>3, MotionIsInt
<1> QED BY <1>1, <1>4, <1>6, <1>7, <1>8

\* What the choice of the next direction guarantees.
LEMMA ChosenTakes ==
  ASSUME NEW g, NEW h, h.direction \in Dirs, Chosen(g, h) # "none"
  PROVE  /\ Chosen(g, h) \in Dirs
         /\ Takes(g, h, Chosen(g, h))
         /\ Chosen(g, h) # h.direction => ~ Takes(g, h, h.direction)
         /\ \/ Chosen(g, h) = h.direction
            \/ Chosen(g, h) = Opposite(h.direction)
            \/ Chosen(g, h) \in Sideways /\ h.direction \notin Sideways
            \/ Chosen(g, h) \notin Sideways /\ h.direction \in Sideways
<1> DEFINE order == Order(h.direction)
           open  == { i \in 1..4 : Takes(g, h, order[i]) }
           first == CHOOSE i \in open : \A j \in open : i <= j
<1>1. open # {} /\ Chosen(g, h) = order[first]
  BY DEF Chosen
<1>2. \E i \in open : \A j \in open : i <= j
  <2>1. CASE 1 \in open
    BY <2>1
  <2>2. CASE 1 \notin open /\ 2 \in open
    BY <2>2
  <2>3. CASE 1 \notin open /\ 2 \notin open /\ 3 \in open
    BY <2>3
  <2>4. CASE open = {4}
    BY <2>4
  <2> QED BY <1>1, <2>1, <2>2, <2>3, <2>4
<1>3. first \in open /\ \A j \in open : first <= j
  BY <1>2
<1>4. first \in 1..4 /\ Takes(g, h, order[first])
  BY <1>3
<1>5. order[1] = h.direction
  BY DEF Order
<1>6. first # 1 => ~ Takes(g, h, h.direction)
  BY <1>3, <1>5
<1>7. ASSUME NEW i \in 1..4
      PROVE  /\ order[i] \in Dirs
             /\ \/ order[i] = h.direction /\ i = 1
                \/ order[i] = Opposite(h.direction) /\ i # 1
                \/ order[i] \in Sideways /\ h.direction \notin Sideways /\ i # 1
                \/ order[i] \notin Sideways /\ h.direction \in Sideways /\ i # 1
  <2> USE DEF Dirs, Sideways
  <2>1. CASE h.direction \in Sideways
    <3>1. order = <<h.direction, "down", "up", Opposite(h.direction)>>
      BY <2>1 DEF Order
    <3>2. Opposite(h.direction) \in Dirs
      BY DEF Opposite
    <3> QED BY <2>1, <3>1, <3>2
  <2>2. CASE h.direction \notin Sideways
    <3>1. order = <<h.direction, "right", "left", Opposite(h.direction)>>
      BY <2>2 DEF Order
    <3>2. Opposite(h.direction) \in Dirs
      BY DEF Opposite
    <3> QED BY <2>2, <3>1, <3>2
  <2> QED BY <2>1, <2>2
<1> HIDE DEF first, order, open
<1> QED BY <1>1, <1>4, <1>6, <1>7

\* The registers after a frame of the game, without the bound of 10 bits.
LEMMA MovedRegisters ==
  ASSUME NEW g, NEW h, NEW key, NEW p, GhostInv(g, h)
  PROVE  LET s == Steered(g, h, key)
         IN  Moved(g, h, key, p) =
               [x |-> h.x + h.mx, y |-> h.y + h.my, mx |-> s.mx, my |-> s.my,
                direction |-> s.direction,
                X_Disp |-> h.x - p.x, Y_Disp |-> h.y - p.y]
<1>1. h \in GhostType
  BY DEF GhostInv
<1>2. h.x + h.mx \in 188..467 /\ h.y + h.my \in 92..387
  <2> DEFINE a == h.x + h.mx
             b == h.y + h.my
  <2>1. a \in Int /\ b \in Int
    <3>1. h.x \in Int /\ h.y \in Int /\ h.mx \in Int /\ h.my \in Int
      BY <1>1, GhostFields
    <3> QED BY <3>1
  <2>2. Within([x |-> a, y |-> b], 4)
    BY DEF GhostInv, Ahead
  <2> HIDE DEF a, b
  <2>3. a \in 188..467 /\ b \in 92..387
    BY <2>1, <2>2, WithinBounds
  <2> QED BY <2>3 DEF a, b
<1>3. Wrap(h.x + h.mx) = h.x + h.mx /\ Wrap(h.y + h.my) = h.y + h.my
  BY <1>2 DEF Wrap
<1> DEFINE s == Steered(g, h, key)
<1>4. s = [x |-> h.x, y |-> h.y, mx |-> s.mx, my |-> s.my,
           direction |-> s.direction, X_Disp |-> h.X_Disp, Y_Disp |-> h.Y_Disp]
  <2>1. h = [x |-> h.x, y |-> h.y, mx |-> h.mx, my |-> h.my,
             direction |-> h.direction, X_Disp |-> h.X_Disp, Y_Disp |-> h.Y_Disp]
    BY <1>1, GhostFields
  <2>2. CASE s = h
    BY <2>1, <2>2
  <2>3. CASE s = [h EXCEPT !.direction = start_direction[g]]
    <3> HIDE DEF s
    <3> QED BY <2>1, <2>3
  <2>4. CASE \E d, e : s = [h EXCEPT !.mx = DX(d), !.my = DY(d), !.direction = e]
    <3>1. PICK d, e : s = [h EXCEPT !.mx = DX(d), !.my = DY(d), !.direction = e]
      BY <2>4
    <3> HIDE DEF s
    <3> QED BY <2>1, <3>1
  <2> QED BY <2>2, <2>3, <2>4 DEF Steered
<1>5. Moved(g, h, key, p) =
        [s EXCEPT !.x = h.x + h.mx, !.y = h.y + h.my,
                  !.X_Disp = h.x - p.x, !.Y_Disp = h.y - p.y]
  BY <1>3 DEF Moved
<1> HIDE DEF s
<1>6. Moved(g, h, key, p) =
        [x |-> h.x + h.mx, y |-> h.y + h.my, mx |-> s.mx, my |-> s.my,
         direction |-> s.direction,
         X_Disp |-> h.x - p.x, Y_Disp |-> h.y - p.y]
  BY <1>4, <1>5
<1> QED BY <1>6 DEF s

\* A direction is one pixel on one axis.
LEMMA DirectionMotion ==
  ASSUME NEW d
  PROVE  /\ DX(d) \in {-1, 0, 1} /\ DY(d) \in {-1, 0, 1}
         /\ d \in Sideways => DX(d) \in {-1, 1} /\ DY(d) = 0
         /\ d \in Dirs \ Sideways => DX(d) = 0 /\ DY(d) \in {-1, 1}
         /\ d = "none" => DX(d) = 0 /\ DY(d) = 0
BY DEF DX, DY, Dirs, Sideways

\* The next motion and direction of a ghost that is under way.
LEMMA SteeredMotion ==
  ASSUME NEW g, NEW h \in GhostType, NEW key, h.direction \in Dirs
  PROVE  LET d == Chosen(g, h)
             s == Steered(g, h, key)
         IN  /\ s.mx = DX(d) /\ s.my = DY(d)
             /\ s.direction = IF d = "none" THEN h.direction ELSE d
<1>1. h.direction # "idle"
  BY DEF Dirs
<1>2. h = [x |-> h.x, y |-> h.y, mx |-> h.mx, my |-> h.my,
           direction |-> h.direction, X_Disp |-> h.X_Disp, Y_Disp |-> h.Y_Disp]
  BY GhostFields
<1> DEFINE d == Chosen(g, h)
<1>3. Steered(g, h, key) = [h EXCEPT !.mx = DX(d), !.my = DY(d),
                                     !.direction = IF d = "none" THEN h.direction ELSE d]
  BY <1>1 DEF Steered
<1> HIDE DEF d
<1>4. Steered(g, h, key) =
        [x |-> h.x, y |-> h.y, mx |-> DX(d), my |-> DY(d),
         direction |-> IF d = "none" THEN h.direction ELSE d,
         X_Disp |-> h.X_Disp, Y_Disp |-> h.Y_Disp]
  BY <1>2, <1>3
<1> QED BY <1>4 DEF d

\* An idle ghost stays where it is.
LEMMA SteeredIdle ==
  ASSUME NEW g \in Ghosts, NEW h \in GhostType, NEW key, h.direction = "idle"
  PROVE  LET s == Steered(g, h, key)
         IN  /\ s.mx = h.mx /\ s.my = h.my
             /\ s.direction \in Sideways \cup {"idle"}
<1>1. h = [x |-> h.x, y |-> h.y, mx |-> h.mx, my |-> h.my,
           direction |-> h.direction, X_Disp |-> h.X_Disp, Y_Disp |-> h.Y_Disp]
  BY GhostFields
<1>2. start_direction[g] \in Sideways
  BY GhostAssumption
<1>3. Steered(g, h, key) \in {h, [h EXCEPT !.direction = start_direction[g]]}
  BY DEF Steered
<1> QED BY <1>1, <1>2, <1>3

-----------------------------------------------------------------------------
\* A chasing ghost under way: the lookups of Takes are those of LookThenMove.
LEMMA ChaserMoves ==
  ASSUME NEW g \in Ghosts \ Patrol, NEW h, GhostInv(g, h), h.direction \in Dirs
  PROVE  LET d == Chosen(g, h)
         IN  Within([x |-> h.x + h.mx + DX(d), y |-> h.y + h.my + DY(d)], 4)
<1> DEFINE d == Chosen(g, h)
<1>1. /\ h.x \in Int /\ h.y \in Int /\ h.mx \in -1..1 /\ h.my \in -1..1
      /\ h.mx \in Int /\ h.my \in Int
  BY GhostFields DEF GhostInv
<1>2. Within([x |-> h.x + h.mx, y |-> h.y + h.my], 4)
  BY DEF GhostInv, Ahead
<1>3. CASE d = "none"
  <2>1. h.x + h.mx + DX(d) = h.x + h.mx /\ h.y + h.my + DY(d) = h.y + h.my
    BY <1>1, <1>3 DEF DX, DY
  <2> QED BY <1>2, <2>1
<1>4. CASE d # "none"
  <2>1. d \in Dirs /\ Takes(g, h, d)
    BY <1>4, ChosenTakes
  <2> HIDE DEF d
  <2>2. Clear(h, d, IF d \in Sideways THEN {-5, 5} ELSE {-6, 6})
    BY <2>1 DEF Takes, ChaseLooks
  <2>3. Within([x |-> h.x + h.mx + DX(d), y |-> h.y + h.my + DY(d)], 4)
    BY <1>1, <1>2, <2>1, <2>2, LookThenMove
  <2> QED BY <2>3 DEF d
<1> QED BY <1>3, <1>4

\* A patrolling ghost under way, in numbers: (a, b) is where it is next.
LEMMA PatrolMoves ==
  ASSUME NEW g \in Patrol, NEW h, GhostInv(g, h), h.direction \in Dirs,
         NEW x \in Int, NEW y \in Int, NEW a \in Int, NEW b \in Int,
         x = h.x, y = h.y, a = h.x + h.mx, b = h.y + h.my,
         NEW c, c = Chosen(g, h)
  PROVE  /\ Within([x |-> a + DX(c), y |-> b + DY(c)], 7)
         /\ LET e == IF c = "none" THEN h.direction ELSE c
            IN  /\ e \in Sideways => (b - 72) % 16 \in {7, 8}
                /\ e \in Dirs \ Sideways => (a - 168) % 16 \in {7, 8}
<1> DEFINE d == h.direction
<1>1. /\ h.x \in Int /\ h.y \in Int /\ h.mx \in Int /\ h.my \in Int
      /\ h.mx \in -1..1 /\ h.my \in -1..1
  BY GhostFields DEF GhostInv
<1>2. a - x \in -1..1 /\ b - y \in -1..1
  BY <1>1
<1>3. /\ Within([x |-> x, y |-> y], 7) /\ Within([x |-> a, y |-> b], 7)
      /\ Still(h) \/ OnCourse(h)
      /\ d \in Sideways => (y - 72) % 16 \in {7, 8}
      /\ d \in Dirs \ Sideways => (x - 168) % 16 \in {7, 8}
  BY DEF GhostInv, PatrolInv, Ahead
<1>4. \A n \in Dirs : Takes(g, h, n) <=> Clear(h, n, {0})
  BY DEF Takes
<1>5. \A n \in Dirs : Clear(h, n, {0}) <=>
        IF n \in Sideways THEN Cell(x + 9 * DX(n), y) \notin grid_wall
                          ELSE Cell(x, y + 9 * DY(n)) \notin grid_wall
  <2> SUFFICES ASSUME NEW n \in Dirs
               PROVE  Probe(h, n, 0) = IF n \in Sideways THEN Cell(x + 9 * DX(n), y)
                                                         ELSE Cell(x, y + 9 * DY(n))
    BY DEF Clear
  <2>1. x + 0 = x /\ y + 0 = y
    OBVIOUS
  <2> QED BY <2>1 DEF Probe, HalfSize
<1>6. c = "none" \/ (c \in Dirs /\ Takes(g, h, c) /\ (c # d => ~ Takes(g, h, d)))
  BY ChosenTakes
<1>7. c \in Dirs => \/ c = d \/ c = Opposite(d)
                    \/ c \in Sideways /\ d \notin Sideways
                    \/ c \notin Sideways /\ d \in Sideways
  <2>1. c \in Dirs => c # "none"
    BY DEF Dirs
  <2> QED BY <2>1, ChosenTakes
<1>8. c = "none" => DX(c) = 0 /\ DY(c) = 0
  BY DirectionMotion
<1>9. CASE d \in Sideways
  <2>1. DX(d) \in {-1, 1} /\ DY(d) = 0
    BY <1>9, DirectionMotion
  <2>2. b = y /\ (a = x \/ a = x + DX(d))
    BY <1>1, <1>3, <2>1 DEF Still, OnCourse
  <2>3. (b - 72) % 16 \in {7, 8}
    BY <1>3, <1>9, <2>2
  <2>4. CASE c = "none"
    <3>1. a + DX(c) = a /\ b + DY(c) = b
      BY <1>8, <2>4
    <3> QED BY <1>3, <1>9, <2>3, <2>4, <3>1
  <2>5. CASE c \in Sideways
    <3>1. DX(c) \in {-1, 1} /\ DY(c) = 0 /\ c \in Dirs /\ c # "none"
      BY <2>5, DirectionMotion DEF Sideways, Dirs
    <3>2. Cell(x + 9 * DX(c), y) \notin grid_wall
      BY <1>4, <1>5, <1>6, <2>5, <3>1
    <3>3. Within([x |-> a + DX(c), y |-> b], 7)
      BY ZenonT(60), <1>2, <1>3, <2>3, <3>1, <3>2, MiddleSideways
    <3>4. b + DY(c) = b
      BY <3>1
    <3> QED BY <2>3, <2>5, <3>1, <3>3, <3>4
  <2>6. CASE c \in Dirs \ Sideways
    <3>1. DX(c) = 0 /\ DY(c) \in {-1, 1} /\ c # "none" /\ c # d
      BY <1>9, <2>6, DirectionMotion DEF Dirs
    <3>2. Cell(x, y + 9 * DY(c)) \notin grid_wall
      BY <1>4, <1>5, <1>6, <2>6, <3>1
    <3>3. Cell(x + 9 * DX(d), y) \in grid_wall
      BY <1>4, <1>5, <1>6, <1>9, <2>6, <3>1
    <3>4. Within([x |-> x, y |-> b], 7)
      BY <1>3, <2>2
    <3>5. (a - 168) % 16 \in {7, 8}
      <4>1. PICK k \in {-1, 1} : k = DX(d)
        BY <2>1
      <4>2. (a = x \/ a = x + k) /\ Cell(x + 9 * k, y) \in grid_wall
        BY <2>2, <3>3, <4>1
      <4>3. b - y \in -1..1 /\ Within([x |-> a, y |-> b], 7)
        BY <1>2, <1>3
      <4>4. CASE a = x
        BY ONLY <2>3, <3>4, <4>2, <4>3, <4>4, BlockedMidColumn,
                x \in Int, y \in Int, a \in Int, b \in Int, k \in {-1, 1}
      <4>5. CASE a = x + k
        BY ONLY <2>3, <3>4, <4>2, <4>3, <4>5, BlockedMidColumn,
                x \in Int, y \in Int, a \in Int, b \in Int, k \in {-1, 1}
      <4> QED BY <4>2, <4>4, <4>5
    <3>6. Within([x |-> a, y |-> b + DY(c)], 7)
      BY ZenonT(60), <1>2, <1>3, <3>1, <3>2, <3>5, MiddleUpDown
    <3>7. a + DX(c) = a
      BY <3>1
    <3> QED BY <2>6, <3>1, <3>5, <3>6, <3>7
  <2> QED BY <1>6, <2>4, <2>5, <2>6
<1>10. CASE d \in Dirs \ Sideways
  <2>1. DX(d) = 0 /\ DY(d) \in {-1, 1}
    BY <1>10, DirectionMotion
  <2>2. a = x /\ (b = y \/ b = y + DY(d))
    BY <1>1, <1>3, <2>1 DEF Still, OnCourse
  <2>3. (a - 168) % 16 \in {7, 8}
    BY <1>3, <1>10, <2>2
  <2>4. CASE c = "none"
    <3>1. a + DX(c) = a /\ b + DY(c) = b
      BY <1>8, <2>4
    <3> QED BY <1>3, <1>10, <2>3, <2>4, <3>1
  <2>5. CASE c \in Dirs \ Sideways
    <3>1. DX(c) = 0 /\ DY(c) \in {-1, 1} /\ c # "none"
      BY <2>5, DirectionMotion DEF Dirs
    <3>2. Cell(x, y + 9 * DY(c)) \notin grid_wall
      BY <1>4, <1>5, <1>6, <2>5, <3>1
    <3>3. Within([x |-> a, y |-> b + DY(c)], 7)
      BY ZenonT(60), <1>2, <1>3, <2>3, <3>1, <3>2, MiddleUpDown
    <3>4. a + DX(c) = a
      BY <3>1
    <3> QED BY <2>3, <2>5, <3>1, <3>3, <3>4
  <2>6. CASE c \in Sideways
    <3>1. DX(c) \in {-1, 1} /\ DY(c) = 0 /\ c \in Dirs /\ c # "none" /\ c # d
      BY <1>10, <2>6, DirectionMotion DEF Dirs, Sideways
    <3>2. Cell(x + 9 * DX(c), y) \notin grid_wall
      BY <1>4, <1>5, <1>6, <2>6, <3>1
    <3>3. Cell(x, y + 9 * DY(d)) \in grid_wall
      BY <1>4, <1>5, <1>6, <1>10, <2>6, <3>1
    <3>4. Within([x |-> a, y |-> y], 7)
      BY <1>3, <2>2
    <3>5. (b - 72) % 16 \in {7, 8}
      <4>1. PICK k \in {-1, 1} : k = DY(d)
        BY <2>1
      <4>2. (b = y \/ b = y + k) /\ Cell(x, y + 9 * k) \in grid_wall
        BY <2>2, <3>3, <4>1
      <4> QED BY ONLY <1>2, <1>3, <2>3, <3>4, <4>2, BlockedMidRow,
                      x \in Int, y \in Int, a \in Int, b \in Int, k \in {-1, 1}
    <3>6. Within([x |-> a + DX(c), y |-> b], 7)
      BY ZenonT(60), <1>2, <1>3, <3>1, <3>2, <3>5, MiddleSideways
    <3>7. b + DY(c) = b
      BY <3>1
    <3> QED BY <2>6, <3>1, <3>5, <3>6, <3>7
  <2> QED BY <1>6, <2>4, <2>5, <2>6
<1> QED BY <1>9, <1>10

\* Where the motion takes a ghost is a place of the corridor.
LEMMA NextPlaceWithin ==
  ASSUME NEW g, NEW h, GhostInv(g, h)
  PROVE  /\ h.x + h.mx \in Int /\ h.y + h.my \in Int
         /\ Within([x |-> h.x + h.mx, y |-> h.y + h.my], 4)
<1>1. h.x \in Int /\ h.y \in Int /\ h.mx \in Int /\ h.my \in Int
  BY GhostFields DEF GhostInv
<1>2. Within([x |-> h.x + h.mx, y |-> h.y + h.my], 4)
  BY DEF GhostInv, Ahead
<1> QED BY <1>1, <1>2

\* A frame of the game keeps the invariant of each ghost.
LEMMA MovedInv ==
  ASSUME NEW g \in Ghosts, NEW h, GhostInv(g, h), NEW key,
         NEW p, p.x \in Int, p.y \in Int
  PROVE  GhostInv(g, Moved(g, h, key, p))
<1> DEFINE n == Moved(g, h, key, p)
           s == Steered(g, h, key)
           a == h.x + h.mx
           b == h.y + h.my
<1>1. n = [x |-> a, y |-> b, mx |-> s.mx, my |-> s.my, direction |-> s.direction,
           X_Disp |-> h.x - p.x, Y_Disp |-> h.y - p.y]
  BY MovedRegisters
<1>2. /\ h \in GhostType
      /\ h.x \in Int /\ h.y \in Int /\ h.mx \in Int /\ h.my \in Int
      /\ h.direction \in Dirs \cup {"idle"}
  BY GhostFields DEF GhostInv
<1>3. h.x - p.x \in Int /\ h.y - p.y \in Int
  BY <1>2
<1>4. /\ a \in Int /\ b \in Int /\ a \in 0..1023 /\ b \in 0..1023
      /\ Within([x |-> a, y |-> b], 4)
  <2>1. a \in Int /\ b \in Int /\ Within([x |-> a, y |-> b], 4)
    BY NextPlaceWithin
  <2> HIDE DEF a, b
  <2>2. a \in 0..1023 /\ b \in 0..1023
    BY ONLY <2>1, WithinRegisters
  <2> QED BY <2>1, <2>2
<1>5. ASSUME s.mx \in {-1, 0, 1}, s.my \in {-1, 0, 1}, s.direction \in Dirs \cup {"idle"}
      PROVE  n \in GhostType
  <2> HIDE DEF n, s, a, b
  <2> QED BY <1>1, <1>3, <1>4, <1>5 DEF GhostType
<1>6. Ahead(n) = [x |-> a + s.mx, y |-> b + s.my]
  <2> HIDE DEF n, s, a, b
  <2> QED BY <1>1 DEF Ahead
<1>7. CASE h.direction = "idle"
  <2>1. h.mx = 0 /\ h.my = 0 /\ Centred(h)
    BY <1>7 DEF GhostInv, Still
  <2>2. s.mx = 0 /\ s.my = 0 /\ s.direction \in Sideways \cup {"idle"}
    BY <1>2, <1>7, <2>1, SteeredIdle
  <2>3. a = h.x /\ b = h.y /\ a + s.mx = a /\ b + s.my = b
    BY <1>2, <2>1, <2>2
  <2>4. n \in GhostType
    BY <1>5, <2>2 DEF Sideways, Dirs
  <2>5. (b - 72) % 16 \in {7, 8} /\ (a - 168) % 16 \in {7, 8}
    BY <2>1, <2>3 DEF Centred
  <2>6. g \in Patrol => Within([x |-> a, y |-> b], 7)
    BY <2>3 DEF GhostInv, PatrolInv
  <2> HIDE DEF n, s, a, b
  <2>7. /\ n.x = a /\ n.y = b /\ n.mx = 0 /\ n.my = 0
        /\ n.direction \in Sideways \cup {"idle"}
    BY <1>1, <2>2
  <2>8. n.direction \notin Dirs \ Sideways
    BY <2>7 DEF Dirs, Sideways
  <2>9. Ahead(n) = [x |-> a, y |-> b]
    BY <1>6, <2>3
  <2>10. GhostInv(g, n)
    BY <1>4, <2>4, <2>5, <2>6, <2>7, <2>8, <2>9 DEF GhostInv, PatrolInv, Still, Centred
  <2> QED BY <2>10 DEF n
<1>8. CASE h.direction \in Dirs
  <2> DEFINE d == Chosen(g, h)
  <2>1. /\ s.mx = DX(d) /\ s.my = DY(d)
        /\ s.direction = IF d = "none" THEN h.direction ELSE d
    BY <1>2, <1>8, SteeredMotion
  <2>2. d = "none" \/ d \in Dirs
    BY <1>8, ChosenTakes
  <2>3. s.direction \in Dirs
    BY <1>8, <2>1, <2>2
  <2>4. s.mx \in {-1, 0, 1} /\ s.my \in {-1, 0, 1}
    BY <2>1, DirectionMotion
  <2>5. n \in GhostType
    BY <1>5, <2>3, <2>4
  <2>6. (s.mx = 0 /\ s.my = 0) \/ (s.mx = DX(s.direction) /\ s.my = DY(s.direction))
    BY <2>1, DirectionMotion
  <2>7. g \notin Patrol => Within([x |-> a + s.mx, y |-> b + s.my], 4)
    BY <1>8, <2>1, ChaserMoves
  <2>8. g \in Patrol =>
          /\ Within([x |-> a, y |-> b], 7)
          /\ Within([x |-> a + s.mx, y |-> b + s.my], 7)
          /\ s.direction \in Sideways => (b - 72) % 16 \in {7, 8}
          /\ s.direction \in Dirs \ Sideways => (a - 168) % 16 \in {7, 8}
    <3> SUFFICES ASSUME g \in Patrol
                 PROVE  /\ Within([x |-> a, y |-> b], 7)
                        /\ Within([x |-> a + s.mx, y |-> b + s.my], 7)
                        /\ s.direction \in Sideways => (b - 72) % 16 \in {7, 8}
                        /\ s.direction \in Dirs \ Sideways => (a - 168) % 16 \in {7, 8}
      OBVIOUS
    <3>1. Within([x |-> a, y |-> b], 7)
      BY DEF GhostInv, PatrolInv, Ahead
    <3>2. /\ Within([x |-> a + DX(d), y |-> b + DY(d)], 7)
          /\ LET e == IF d = "none" THEN h.direction ELSE d
             IN  /\ e \in Sideways => (b - 72) % 16 \in {7, 8}
                 /\ e \in Dirs \ Sideways => (a - 168) % 16 \in {7, 8}
      <4>1. PICK x \in Int, y \in Int, u \in Int, v \in Int, c \in {d} :
               x = h.x /\ y = h.y /\ u = a /\ v = b /\ c = d
        BY ZenonT(60), <1>2, <1>4
      <4>2. u = h.x + h.mx /\ v = h.y + h.my /\ c = Chosen(g, h)
        BY <4>1
      <4>3. /\ Within([x |-> u + DX(c), y |-> v + DY(c)], 7)
            /\ LET e == IF c = "none" THEN h.direction ELSE c
               IN  /\ e \in Sideways => (v - 72) % 16 \in {7, 8}
                   /\ e \in Dirs \ Sideways => (u - 168) % 16 \in {7, 8}
        BY ONLY <1>8, <4>1, <4>2, PatrolMoves, g \in Patrol, GhostInv(g, h),
                x \in Int, y \in Int, u \in Int, v \in Int
      <4> QED BY <4>1, <4>3
    <3> HIDE DEF s, a, b, d
    <3> QED BY <2>1, <3>1, <3>2
  <2>9. Within([x |-> a + s.mx, y |-> b + s.my], 4)
    <3>1. a + s.mx \in Int /\ b + s.my \in Int
      <4> HIDE DEF a, b, s
      <4> QED BY <1>4, <2>4
    <3> HIDE DEF a, b, s
    <3> QED BY <2>7, <2>8, <3>1, WithinSmaller
  <2> HIDE DEF n, s, a, b, d
  <2>10. /\ n.x = a /\ n.y = b /\ n.mx = s.mx /\ n.my = s.my
         /\ n.direction = s.direction
    BY <1>1
  <2>11. n.direction # "idle"
    BY <2>3, <2>10 DEF Dirs
  <2>12. g \in Patrol => PatrolInv(n)
    BY <1>6, <2>6, <2>8, <2>10 DEF PatrolInv, Still, OnCourse
  <2>13. GhostInv(g, n)
    BY <1>4, <1>6, <2>5, <2>9, <2>10, <2>11, <2>12 DEF GhostInv
  <2> QED BY <2>13 DEF n
<1> QED BY <1>2, <1>7, <1>8

-----------------------------------------------------------------------------
\* The registers a reset gives, whatever the displacements are left at.
LEMMA StartInv ==
  ASSUME NEW g \in Ghosts, NEW xd \in Int, NEW yd \in Int
  PROVE  GhostInv(g, GhostAtStart(g, xd, yd))
<1> DEFINE x == GhostCenter[g].x
           y == GhostCenter[g].y
           n == GhostAtStart(g, xd, yd)
<1>1. x \in Int /\ y \in Int
  BY GhostAssumption
<1>2. Within([x |-> x, y |-> y], 7) /\ Centred(GhostCenter[g])
  BY GhostAssumption DEF Within
<1> HIDE DEF x, y
<1>3. Within([x |-> x, y |-> y], 4)
  BY <1>1, <1>2, WithinSmaller
<1>4. x \in 0..1023 /\ y \in 0..1023
  BY <1>1, <1>3, WithinRegisters
<1>5. n = [x |-> x, y |-> y, mx |-> 0, my |-> 0, direction |-> "idle",
           X_Disp |-> xd, Y_Disp |-> yd]
  BY DEF GhostAtStart, x, y
<1>6. (x - 168) % 16 \in {7, 8} /\ (y - 72) % 16 \in {7, 8}
  BY <1>2 DEF Centred, x, y
<1> HIDE DEF n
<1>7. n \in GhostType
  BY <1>4, <1>5 DEF GhostType
<1>8. Ahead(n) = [x |-> x, y |-> y]
  BY <1>1, <1>5 DEF Ahead
<1>9. n.direction \notin Dirs /\ n.direction \notin Sideways
  BY <1>5 DEF Dirs, Sideways
<1>10. GhostInv(g, n)
  BY <1>2, <1>3, <1>5, <1>6, <1>7, <1>8, <1>9 DEF GhostInv, PatrolInv, Still, Centred
<1> QED BY <1>10 DEF n

\* Every ghost starts in the invariant.
LEMMA GhostInitInv == ASSUME GhostInit PROVE GhostsInv
<1>1. \A g \in Ghosts : ghost[g] = GhostAtStart(g, 0, 0)
  BY DEF GhostInit
<1>2. \A g \in Ghosts : GhostInv(g, ghost[g])
  BY <1>1, StartInv
<1>3. \A g \in Ghosts : ghost[g] \in GhostType
  BY <1>2 DEF GhostInv
<1> QED BY <1>2, <1>3 DEF GhostsInv, GhostInit

\* A reset gives all ghosts back their start, whatever the displacements are.
LEMMA GhostResetInv == ASSUME GhostsInv, GhostReset PROVE GhostsInv'
<1>1. \A g \in Ghosts : ghost[g].X_Disp \in Int /\ ghost[g].Y_Disp \in Int
  BY GhostFields DEF GhostsInv
<1>2. \A g \in Ghosts :
        ghost'[g] = GhostAtStart(g, ghost[g].X_Disp, ghost[g].Y_Disp)
  BY DEF GhostReset
<1>3. \A g \in Ghosts : GhostInv(g, ghost'[g])
  BY <1>1, <1>2, StartInv
<1>4. \A g \in Ghosts : ghost'[g] \in GhostType
  BY <1>3 DEF GhostInv
<1> QED BY <1>3, <1>4 DEF GhostsInv, GhostReset

\* Outside the game a ghost only loses its motion.
LEMMA HaltedInv ==
  ASSUME NEW g \in Ghosts, NEW h, GhostInv(g, h)
  PROVE  GhostInv(g, [h EXCEPT !.mx = 0, !.my = 0])
<1> DEFINE n == [h EXCEPT !.mx = 0, !.my = 0]
<1>1. h \in GhostType
  BY DEF GhostInv
<1> DEFINE Turns == Dirs \cup {"idle"}
           Motions == {-1, 0, 1}
           Places == 0..1023
           Registers == [x : Places, y : Places, mx : Motions, my : Motions,
                         direction : Turns, X_Disp : Int, Y_Disp : Int]
<1>0. 0 \in Motions
  OBVIOUS
<1> HIDE DEF Turns, Motions, Places
<1>2. h \in Registers
  BY <1>1 DEF GhostType, Turns, Motions, Places
<1>3. n \in Registers
  <2> DEFINE m == [h EXCEPT !.mx = 0]
  <2>1. m \in Registers
    BY <1>2, <1>0, Zenon
  <2>2. n = [m EXCEPT !.my = 0]
    OBVIOUS
  <2> HIDE DEF m, n
  <2> QED BY <2>1, <2>2, <1>0, Zenon
<1>4. n.x = h.x /\ n.y = h.y /\ n.mx = 0 /\ n.my = 0 /\ n.direction = h.direction
  BY <1>2
<1>5. n \in GhostType
  BY <1>3 DEF GhostType, Turns, Motions, Places
<1> HIDE DEF n
<1>6. Ahead(n) = [x |-> h.x, y |-> h.y]
  BY <1>1, <1>4, GhostFields DEF Ahead
<1>7. GhostInv(g, n)
  BY <1>4, <1>5, <1>6 DEF GhostInv, PatrolInv, Still, Centred
<1> QED BY <1>7 DEF n

\* A frame of any screen keeps the invariant of all the ghosts.
LEMMA GhostFrameInv ==
  ASSUME GhostsInv, NEW st, NEW key, NEW p, p.x \in Int, p.y \in Int,
         GhostFrame(st, key, p)
  PROVE  GhostsInv'
<1>1. CASE GhostHalt(st)
  <2>1. \A g \in Ghosts : ghost'[g] = [ghost[g] EXCEPT !.mx = 0, !.my = 0]
    BY <1>1 DEF GhostHalt
  <2>2. \A g \in Ghosts : GhostInv(g, ghost'[g])
    <3> SUFFICES ASSUME NEW g \in Ghosts PROVE GhostInv(g, ghost'[g])
      OBVIOUS
    <3>1. GhostInv(g, ghost[g])
      BY DEF GhostsInv
    <3>2. GhostInv(g, [ghost[g] EXCEPT !.mx = 0, !.my = 0])
      BY <3>1, HaltedInv
    <3> QED BY <2>1, <3>2
  <2>3. \A g \in Ghosts : ghost'[g] \in GhostType
    BY <2>2 DEF GhostInv
  <2> QED BY <1>1, <2>2, <2>3 DEF GhostsInv, GhostHalt
<1>2. CASE GhostMove(st, key, p)
  <2>1. \A g \in Ghosts : ghost'[g] = Moved(g, ghost[g], key, p)
    BY <1>2 DEF GhostMove
  <2>2. \A g \in Ghosts : GhostInv(g, ghost'[g])
    BY <2>1, MovedInv DEF GhostsInv
  <2>3. \A g \in Ghosts : ghost'[g] \in GhostType
    BY <2>2 DEF GhostInv
  <2> QED BY <1>2, <2>2, <2>3 DEF GhostsInv, GhostMove
<1>3. CASE GhostWait(st)
  BY <1>3 DEF GhostWait, GhostsInv
<1> QED BY <1>1, <1>2, <1>3 DEF GhostFrame

\* What the invariant says of all the ghosts.
LEMMA GhostsInvMeans ==
  ASSUME GhostsInv
  PROVE  GhostTypeOK /\ GhostsStayInCorridor /\ PatrolKeepsToTheMiddle
         /\ GhostsLookInsideGrid
<1>1. \A g \in Ghosts : Within(ghost[g], 4)
  BY DEF GhostsInv, GhostInv, Within
<1>2. \A g \in Patrol : Within(ghost[g], 7)
  BY GhostAssumption DEF GhostsInv, GhostInv, PatrolInv, Within
<1>3. GhostsLookInsideGrid
  <2> SUFFICES ASSUME NEW g \in Ghosts, NEW d \in Dirs, NEW o \in {-6, -5, 0, 5, 6}
               PROVE  Probe(ghost[g], d, o) \in Rows \X Columns
    BY DEF GhostsLookInsideGrid
  <2>1. /\ ghost[g].x \in Int /\ ghost[g].y \in Int
        /\ Within([x |-> ghost[g].x, y |-> ghost[g].y], 4)
    BY GhostFields DEF GhostsInv, GhostInv
  <2>2. o \in -6..6
    OBVIOUS
  <2> QED BY <2>1, <2>2, LooksInside
<1> QED BY <1>1, <1>2, <1>3
        DEF GhostsInv, GhostTypeOK, GhostsStayInCorridor, PatrolKeepsToTheMiddle

\* The inductive invariant of Move_Ghost: what a ghost has clear around it now
\* and around the place its motion takes it to.
THEOREM GhostSpecInv == GhostSpec => []GhostsInv
<1>1. GhostInit => GhostsInv
  BY GhostInitInv
<1>2. GhostsInv /\ [GhostNext]_ghost => GhostsInv'
  <2> SUFFICES ASSUME GhostsInv, [GhostNext]_ghost PROVE GhostsInv'
    OBVIOUS
  <2>1. CASE GhostReset
    BY <2>1, GhostResetInv
  <2>2. ASSUME NEW st, NEW key, NEW p \in [x : 0..1023, y : 0..1023],
               GhostFrame(st, key, p)
        PROVE  GhostsInv'
    <3>1. p.x \in Int /\ p.y \in Int
      BY SMTT(30)
    <3> QED BY <2>2, <3>1, GhostFrameInv
  <2>3. CASE UNCHANGED ghost
    BY <2>3 DEF GhostsInv
  <2> DEFINE Places == [x : 0..1023, y : 0..1023]
  <2>4. \/ GhostReset
        \/ \E st \in {"Intro", "Start", "Game", "End"}, key \in Dirs \cup {"none"},
              p \in Places : GhostFrame(st, key, p)
        \/ UNCHANGED ghost
    BY Zenon DEF GhostNext
  <2>5. \A st, key : \A p \in Places : GhostFrame(st, key, p) => GhostsInv'
    BY Zenon, <2>2
  <2> HIDE DEF Places
  <2> QED BY Zenon, <2>1, <2>3, <2>4, <2>5
<1> QED BY <1>1, <1>2, PTL DEF GhostSpec

\* The registers keep their types.
THEOREM GhostTypeCorrect == GhostSpec => []GhostTypeOK
BY GhostSpecInv, GhostsInvMeans, PTL

\* No ghost gets into a wall.
THEOREM GhostsNeverInWall == GhostSpec => []GhostsStayInCorridor
BY GhostSpecInv, GhostsInvMeans, PTL

\* Ghosts that patrol keep to the middle of the corridors.
THEOREM PatrolMidCorridor == GhostSpec => []PatrolKeepsToTheMiddle
BY GhostSpecInv, GhostsInvMeans, PTL

\* No ghost looks outside the array of walls.
THEOREM GhostLooksDefined == GhostSpec => []GhostsLookInsideGrid
BY GhostSpecInv, GhostsInvMeans, PTL
=============================================================================
