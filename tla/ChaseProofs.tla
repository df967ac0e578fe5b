----------------------------- MODULE ChaseProofs ------------------------------
(***************************************************************************)
(* The chase of a Pac-Man who stands still, for every maze whose dead ends *)
(* face the corridor: no chaser comes to a stop before it has caught him.  *)
(***************************************************************************)
EXTENDS Chase, SpritesProofs

\* The cell in row r and column c is open; the row and the column of a pixel.
W(r, c) == <<r, c>> \notin grid_wall
Row(y) == (y - 72) \div 16
Col(x) == (x - 168) \div 16
Open(x, y) == W(Row(y), Col(x))

\* The lookups at (x, y) in direction d: of a chaser, and at the centre.
LooksOpen(x, y, d) ==
  IF d \in Sideways
  THEN Open(x + 9 * DX(d), y - 5) /\ Open(x + 9 * DX(d), y + 5)
  ELSE Open(x - 6, y + 9 * DY(d)) /\ Open(x + 6, y + 9 * DY(d))

Crosses(x, y) ==
  Open(x - 9, y) /\ Open(x + 9, y) /\ Open(x, y - 9) /\ Open(x, y + 9)

WayOn(x, y, d) == W(Row(y) + DY(d), Col(x) + DX(d))
WayBack(x, y, d) == W(Row(y) - DY(d), Col(x) - DX(d))

\* The pixel of its cell a ghost is at, across direction d and along it.
Across(x, y, d) == IF d \in Sideways THEN (y - 72) % 16 ELSE (x - 168) % 16
Along(x, y, d)  == IF d \in Sideways THEN (x - 168) % 16 ELSE (y - 72) % 16

OnLane(x, y, d) == Across(x, y, d) \in {7, 8}

\* Not yet past the middle of the cell.
ComesIn(x, y, d) == IF d \in {"right", "down"} THEN Along(x, y, d) <= 7
                                               ELSE Along(x, y, d) >= 8

-----------------------------------------------------------------------------
(***************************************************************************)
(* What holds of a chaser under way at (x, y), in direction d, after a     *)
(* step e ("none" before the first), when Pac-Man stands at (p, q): it was *)
(* at (x - DX(e), y - DY(e)) when it chose d, and X and Y are how far from *)
(* Pac-Man that was.                                                       *)
(***************************************************************************)

\* It knows where he is, and chose d because of what it saw.
Informed(x, y, e, X, Y, p, q) == x - DX(e) = p + X /\ y - DY(e) = q + Y
Looked(x, y, d, e) == LooksOpen(x - DX(e), y - DY(e), d)

\* Direction d leads to him.
OnSide(d, X, Y) ==
  \/ d = "left"  /\ X > 0
  \/ d = "right" /\ X < 0
  \/ d = "up"    /\ Y > 0
  \/ d = "down"  /\ Y < 0

\* It turns to him only.
Straight(d, e) == d \in Sideways <=> e \in Sideways
TurnsToHim(d, e, X, Y) ==
  e # "none" /\ ~ Straight(d, e) =>
    OnSide(d, X, Y)

\* Its cell is open ahead or behind; but in a dead end, into which it turns to
\* get back on its lane, it is open to the side on which he is.
OpenToHim(x, y, d, p, q) ==
  IF d \in Sideways
  THEN \/ WayOn(x, y, "up")    /\ (q - 72) \div 16 < (y - 72) \div 16
       \/ WayOn(x, y, "down")  /\ (q - 72) \div 16 > (y - 72) \div 16
  ELSE \/ WayOn(x, y, "left")  /\ (p - 168) \div 16 < (x - 168) \div 16
       \/ WayOn(x, y, "right") /\ (p - 168) \div 16 > (x - 168) \div 16
HasWay(x, y, d, p, q) ==
  \/ WayOn(x, y, d)
  \/ WayBack(x, y, d)
  \/ ComesIn(x, y, d) /\ OnLane(x, y, d) /\ OpenToHim(x, y, d, p, q)

\* Off its lane it runs two pixels beside his, since it has turned a pixel late.
Aside(x, y, d, e, p, q) ==
  LET w == IF d \in Sideways THEN y - q ELSE x - p
  IN  \/ e = d /\ w \in {-2, 2}
      \/ e # "none" /\ ~ Straight(d, e) /\ w = 2 * (DX(e) + DY(e))

\* Or it is on its way sideways to his lane, across a column where it could
\* not go on to him, and where the next cell is open to him.
Regains(x, y, d, e, Y, p) ==
  /\ d \in Sideways /\ e # "none" /\ (e = d \/ ~ Straight(d, e))
  /\ LET a == (x - 168) % 16
     IN  IF d = "right" THEN a \in 5..8 /\ p - x = 7 - a ELSE a \in 7..10 /\ p - x = 8 - a
  /\ WayBack(x, y, d)
  /\ \/ (y - 72) % 16 = 6 /\ Y > 2  /\ WayOn(x, y, "up")
     \/ (y - 72) % 16 = 9 /\ Y < -2 /\ WayOn(x, y, "down")

KeepsLane(x, y, d, e, Y, p, q) ==
  OnLane(x, y, d) \/ Aside(x, y, d, e, p, q) \/ Regains(x, y, d, e, Y, p)

\* Between two columns, upwards or downwards, both are open beside it; if it has
\* only just turned, it has not left the crossing.
Fits(x, y, d, e) ==
  d \notin Sideways =>
    /\ Open(x - 6, y) /\ Open(x + 6, y)
    /\ e \in Sideways /\ (x - 168) % 16 \notin 6..9 =>
         IF d = "down" THEN (y - 72) % 16 <= 8 ELSE (y - 72) % 16 >= 7

\* Before its first step it is in the middle of a cell, and it leaves a crossing
\* in line with him only to him.
SetsOff(x, y, d, e, still, X, Y) ==
  e = "none" =>
    /\ (x - 168) % 16 \in {7, 8} /\ (y - 72) % 16 \in {7, 8}
    /\ ~ still /\ Crosses(x, y) =>
         IF d \in Sideways THEN X = 0 => Y = 0 ELSE Y = 0 => X = 0

Chasing(x, y, d, e, still, X, Y, p, q) ==
  /\ Informed(x, y, e, X, Y, p, q)
  /\ still \/ Looked(x, y, d, e)
  /\ still => e = "none"
  /\ TurnsToHim(d, e, X, Y)
  /\ HasWay(x, y, d, p, q)
  /\ KeepsLane(x, y, d, e, Y, p, q)
  /\ Fits(x, y, d, e)
  /\ SetsOff(x, y, d, e, still, X, Y)

-----------------------------------------------------------------------------
\* What the choice of direction c needs, in numbers.
Sight(x, y, d, X, Y, c) ==
  /\ LooksOpen(x, y, c)
  /\ c = d => ~ (Crosses(x, y) /\ IF d \in Sideways THEN X = 0 ELSE Y = 0)
  /\ ~ Straight(c, d) => OnSide(c, X, Y)

\* The assumption on dead ends, for the cell of (x, y) and Pac-Man at (p, q).
LeadsOn(x, y, p, q) ==
  LET l == WayOn(x, y, "left")
      r == WayOn(x, y, "right")
      u == WayOn(x, y, "up")
      o == WayOn(x, y, "down")
  IN  \/ l /\ (r \/ u \/ o \/ ~ (Row(q) = Row(y) /\ Col(p) > Col(x)))
      \/ r /\ (l \/ u \/ o \/ ~ (Row(q) = Row(y) /\ Col(p) < Col(x)))
      \/ u /\ (l \/ r \/ o \/ ~ (Col(p) = Col(x) /\ Row(q) > Row(y)))
      \/ o /\ (l \/ r \/ u \/ ~ (Col(p) = Col(x) /\ Row(q) < Row(y)))

\* One of the four ways is open to a chaser that has not caught him.
LEMMA FindsWay ==
  ASSUME NEW x \in Int, NEW y \in Int, NEW X \in Int, NEW Y \in Int,
         NEW p \in Int, NEW q \in Int,
         (p - 168) % 16 \in {7, 8}, (q - 72) % 16 \in {7, 8},
         NEW d \in Dirs, NEW e \in Dirs \cup {"none"}, NEW still,
         Open(x, y), LeadsOn(x, y, p, q),
         ~ (Abs(x - p) <= 13 /\ Abs(y - q) <= 13),
         Chasing(x, y, d, e, still, X, Y, p, q)
  PROVE  \/ Sight(x, y, d, X, Y, "left")
         \/ Sight(x, y, d, X, Y, "right")
         \/ Sight(x, y, d, X, Y, "up")
         \/ Sight(x, y, d, X, Y, "down")
<1> USE DEF Chasing, Informed, Looked, LooksOpen, Open, Crosses, WayOn, WayBack,
      Across, Along, OnLane, ComesIn, Straight, OnSide, TurnsToHim, OpenToHim,
      HasWay, Aside, Regains, KeepsLane, Fits, SetsOff, Sight, LeadsOn,
      Abs, Dirs, Sideways, DX, DY, Row, Col
<1>1. CASE d = "left"
  BY <1>1, SMTT(30)
<1>2. CASE d = "right"
  BY <1>2, SMTT(30)
<1>3. CASE d = "up"
  BY <1>3, SMTT(30)
<1>4. CASE d = "down"
  BY <1>4, SMTT(30)
<1> HIDE DEF Chasing, Informed, Looked, LooksOpen, Open, Crosses, WayOn, WayBack,
      Across, Along, OnLane, ComesIn, Straight, OnSide, TurnsToHim, OpenToHim,
      HasWay, Aside, Regains, KeepsLane, Fits, SetsOff, Sight, LeadsOn,
      Abs, Sideways, DX, DY, Row, Col
<1> QED BY <1>1, <1>2, <1>3, <1>4

\* What its next choice c leaves it with: when it was under way ...
LEMMA KeepsChasing ==
  ASSUME NEW x \in Int, NEW y \in Int, NEW X \in Int, NEW Y \in Int,
         NEW p \in Int, NEW q \in Int,
         (p - 168) % 16 \in {7, 8}, (q - 72) % 16 \in {7, 8},
         NEW d \in Dirs, NEW e \in Dirs \cup {"none"},
         Open(x, y), LeadsOn(x, y, p, q),
         ~ (Abs(x - p) <= 13 /\ Abs(y - q) <= 13),
         Chasing(x, y, d, e, FALSE, X, Y, p, q),
         Open(x + DX(d), y + DY(d)),
         NEW c \in Dirs, Sight(x, y, d, X, Y, c),
         c # d => ~ Sight(x, y, d, X, Y, d),
         Straight(c, d) /\ c # d =>
           \A n \in Dirs : Sight(x, y, d, X, Y, n) => n = c
  PROVE  Chasing(x + DX(d), y + DY(d), c, d, FALSE, x - p, y - q, p, q)
<1> USE DEF Chasing, Informed, Looked, LooksOpen, Open, Crosses, WayOn, WayBack,
      Across, Along, OnLane, ComesIn, Straight, OnSide, TurnsToHim, OpenToHim,
      HasWay, Aside, Regains, KeepsLane, Fits, SetsOff, Sight, LeadsOn,
      Abs, Dirs, Sideways, DX, DY, Row, Col
<1>1. CASE d = "left" /\ c = "left"
  BY <1>1, SMTT(30)
<1>2. CASE d = "left" /\ c = "right"
  BY <1>2, SMTT(30)
<1>3. CASE d = "left" /\ c = "up"
  BY <1>3, SMTT(30)
<1>4. CASE d = "left" /\ c = "down"
  BY <1>4, SMTT(30)
<1>5. CASE d = "right" /\ c = "left"
  BY <1>5, SMTT(30)
<1>6. CASE d = "right" /\ c = "right"
  BY <1>6, SMTT(30)
<1>7. CASE d = "right" /\ c = "up"
  BY <1>7, SMTT(30)
<1>8. CASE d = "right" /\ c = "down"
  BY <1>8, SMTT(30)
<1>9. CASE d = "up" /\ c = "left"
  BY <1>9, SMTT(30)
<1>10. CASE d = "up" /\ c = "right"
  BY <1>10, SMTT(30)
<1>11. CASE d = "up" /\ c = "up"
  BY <1>11, SMTT(30)
<1>12. CASE d = "up" /\ c = "down"
  BY <1>12, SMTT(30)
<1>13. CASE d = "down" /\ c = "left"
  BY <1>13, SMTT(30)
<1>14. CASE d = "down" /\ c = "right"
  BY <1>14, SMTT(30)
<1>15. CASE d = "down" /\ c = "up"
  BY <1>15, SMTT(30)
<1>16. CASE d = "down" /\ c = "down"
  BY <1>16, SMTT(30)
<1> HIDE DEF Chasing, Informed, Looked, LooksOpen, Open, Crosses, WayOn, WayBack,
      Across, Along, OnLane, ComesIn, Straight, OnSide, TurnsToHim, OpenToHim,
      HasWay, Aside, Regains, KeepsLane, Fits, SetsOff, Sight, LeadsOn,
      Abs, Sideways, DX, DY, Row, Col
<1> QED BY <1>1, <1>2, <1>3, <1>4, <1>5, <1>6, <1>7, <1>8, <1>9, <1>10,
          <1>11, <1>12, <1>13, <1>14, <1>15, <1>16

\* ... and when it sets off.
LEMMA StartsChasing ==
  ASSUME NEW x \in Int, NEW y \in Int, NEW X \in Int, NEW Y \in Int,
         NEW p \in Int, NEW q \in Int,
         (p - 168) % 16 \in {7, 8}, (q - 72) % 16 \in {7, 8},
         NEW d \in Dirs, NEW e \in Dirs \cup {"none"},
         Open(x, y), LeadsOn(x, y, p, q),
         ~ (Abs(x - p) <= 13 /\ Abs(y - q) <= 13),
         Chasing(x, y, d, e, TRUE, X, Y, p, q),
         NEW c \in Dirs, Sight(x, y, d, X, Y, c),
         c # d => ~ Sight(x, y, d, X, Y, d),
         Straight(c, d) /\ c # d =>
           \A n \in Dirs : Sight(x, y, d, X, Y, n) => n = c
  PROVE  Chasing(x, y, c, "none", FALSE, x - p, y - q, p, q)
<1> USE DEF Chasing, Informed, Looked, LooksOpen, Open, Crosses, WayOn, WayBack,
      Across, Along, OnLane, ComesIn, Straight, OnSide, TurnsToHim, OpenToHim,
      HasWay, Aside, Regains, KeepsLane, Fits, SetsOff, Sight, LeadsOn,
      Abs, Dirs, Sideways, DX, DY, Row, Col
<1>1. CASE d = "left"
  BY <1>1, SMTT(30)
<1>2. CASE d = "right"
  BY <1>2, SMTT(30)
<1>3. CASE d = "up"
  BY <1>3, SMTT(30)
<1>4. CASE d = "down"
  BY <1>4, SMTT(30)
<1> HIDE DEF Chasing, Informed, Looked, LooksOpen, Open, Crosses, WayOn, WayBack,
      Across, Along, OnLane, ComesIn, Straight, OnSide, TurnsToHim, OpenToHim,
      HasWay, Aside, Regains, KeepsLane, Fits, SetsOff, Sight, LeadsOn,
      Abs, Sideways, DX, DY, Row, Col
<1> QED BY <1>1, <1>2, <1>3, <1>4

-----------------------------------------------------------------------------
\* What holds of chaser g, with the registers h, when Pac-Man stands at p.
ChaserInv(g, h, p) ==
  IF h.direction = "idle"
  THEN h.x = GhostCenter[g].x /\ h.y = GhostCenter[g].y
  ELSE /\ \E e \in Dirs \cup {"none"} :
            Chasing(h.x, h.y, h.direction, e, Still(h), h.X_Disp, h.Y_Disp, p.x, p.y)
       /\ Still(h) \/ OnCourse(h)

\* Where Pac-Man may stand.
Stand(p) ==
  p.x \in Int /\ p.y \in Int /\ Centred(p) /\ Cell(p.x, p.y) \in Corridor

ChaseInv ==
  stands => Stand(place) /\ \A g \in Ghosts \ Patrol : ChaserInv(g, ghost[g], place)

-----------------------------------------------------------------------------
\* A way is what Beside says.
LEMMA WaysBeside ==
  ASSUME NEW x \in Int, NEW y \in Int, NEW d
  PROVE  WayOn(x, y, d) <=> Beside(Cell(x, y), d) \notin grid_wall
<1>1. Cell(x, y)[1] = Row(y) /\ Cell(x, y)[2] = Col(x)
  BY DEF Cell, Row, Col
<1> QED BY <1>1 DEF WayOn, W, Beside

\* The assumption on the maze, for two pixels of the corridor.
LEMMA CorridorLeadsOn ==
  ASSUME NEW x \in Int, NEW y \in Int, NEW p \in Int, NEW q \in Int,
         Cell(x, y) \in Corridor, Cell(p, q) \in Corridor
  PROVE  LeadsOn(x, y, p, q)
<1>1. PICK d \in Dirs :
        /\ Beside(Cell(x, y), d) \notin grid_wall
        /\ \/ \E e \in Dirs \ {d} : Beside(Cell(x, y), e) \notin grid_wall
           \/ ~ InLineBefore(Cell(p, q), Cell(x, y), d)
  BY ChaseAssumption DEF WaysLeadOn
<1>2. WayOn(x, y, d)
  BY <1>1, WaysBeside
<1>3. \/ \E e \in Dirs \ {d} : WayOn(x, y, e)
      \/ ~ InLineBefore(Cell(p, q), Cell(x, y), d)
  BY <1>1, WaysBeside
<1>4. /\ Cell(x, y)[1] = Row(y) /\ Cell(x, y)[2] = Col(x)
      /\ Cell(p, q)[1] = Row(q) /\ Cell(p, q)[2] = Col(p)
  BY DEF Cell, Row, Col
<1>5. /\ Row(y) \in Int /\ Col(x) \in Int /\ Row(q) \in Int /\ Col(p) \in Int
  BY DEF Row, Col
<1>6. InLineBefore(Cell(p, q), Cell(x, y), d) <=>
        IF d \in Sideways THEN Row(q) = Row(y) /\ (Col(x) - Col(p)) * DX(d) > 0
                          ELSE Col(p) = Col(x) /\ (Row(y) - Row(q)) * DY(d) > 0
  BY <1>4 DEF InLineBefore
<1>7. CASE d = "left"
  <2>1. InLineBefore(Cell(p, q), Cell(x, y), d) <=> Row(q) = Row(y) /\ Col(p) > Col(x)
    BY <1>5, <1>6, <1>7 DEF Sideways, DX
  <2> QED BY <1>2, <1>3, <1>7, <2>1 DEF LeadsOn, Dirs
<1>8. CASE d = "right"
  <2>1. InLineBefore(Cell(p, q), Cell(x, y), d) <=> Row(q) = Row(y) /\ Col(p) < Col(x)
    BY <1>5, <1>6, <1>8 DEF Sideways, DX
  <2> QED BY <1>2, <1>3, <1>8, <2>1 DEF LeadsOn, Dirs
<1>9. CASE d = "up"
  <2>1. InLineBefore(Cell(p, q), Cell(x, y), d) <=> Col(p) = Col(x) /\ Row(q) > Row(y)
    BY <1>5, <1>6, <1>9 DEF Sideways, DY
  <2> QED BY <1>2, <1>3, <1>9, <2>1 DEF LeadsOn, Dirs
<1>10. CASE d = "down"
  <2>1. InLineBefore(Cell(p, q), Cell(x, y), d) <=> Col(p) = Col(x) /\ Row(q) < Row(y)
    BY <1>5, <1>6, <1>10 DEF Sideways, DY
  <2> QED BY <1>2, <1>3, <1>10, <2>1 DEF LeadsOn, Dirs
<1> QED BY <1>7, <1>8, <1>9, <1>10 DEF Dirs

\* The centre of a sprite whose inner half is in a corridor is in it too.
LEMMA CentreWithin ==
  ASSUME NEW x \in Int, NEW y \in Int, Within([x |-> x, y |-> y], 4)
  PROVE  Cell(x, y) \in Corridor /\ Open(x, y)
<1>1. \A dx, dy \in {-4, 4} : <<Row(y + dy), Col(x + dx)>> \in Corridor
  BY DEF Within, Cell, Row, Col
<1>2. \/ Row(y) = Row(y + (-4))
      \/ Row(y) = Row(y + 4)
  BY DEF Row
<1>3. \/ Col(x) = Col(x + (-4))
      \/ Col(x) = Col(x + 4)
  BY DEF Col
<1>4. <<Row(y), Col(x)>> \in Corridor
  BY <1>1, <1>2, <1>3
<1>5. Corridor \cap grid_wall = {}
  BY MazeIsEnclosed DEF CorridorAssumption
<1> QED BY <1>4, <1>5 DEF Cell, Row, Col, Open, W

\* A chaser may take direction c exactly when it has it in sight.
LEMMA TakesInSight ==
  ASSUME NEW g \in Ghosts \ Patrol, NEW h,
         NEW x \in Int, NEW y \in Int, NEW X \in Int, NEW Y \in Int,
         NEW d \in Dirs, NEW c \in Dirs,
         x = h.x, y = h.y, X = h.X_Disp, Y = h.Y_Disp, d = h.direction
  PROVE  Takes(g, h, c) <=> Sight(x, y, d, X, Y, c)
<1>1. \A n \in Dirs, o \in Int : Probe(h, n, o) \notin grid_wall <=>
        IF n \in Sideways THEN Open(x + 9 * DX(n), y + o) ELSE Open(x + o, y + 9 * DY(n))
  BY DEF Probe, HalfSize, Cell, Open, W, Row, Col
<1>2. Clear(h, c, ChaseLooks(c)) <=> LooksOpen(x, y, c)
  <2>1. /\ y - 5 = y + (-5) /\ x - 6 = x + (-6)
        /\ {-5, 5} \subseteq Int /\ {-6, 6} \subseteq Int
    OBVIOUS
  <2>2. CASE c \in Sideways
    <3>1. LooksOpen(x, y, c) <=> \A o \in {-5, 5} : Open(x + 9 * DX(c), y + o)
      BY <2>1, <2>2, Zenon DEF LooksOpen
    <3>2. Clear(h, c, ChaseLooks(c)) <=> \A o \in {-5, 5} : Probe(h, c, o) \notin grid_wall
      BY <2>2 DEF Clear, ChaseLooks
    <3> QED BY <1>1, <2>1, <2>2, <3>1, <3>2, Zenon
  <2>3. CASE c \notin Sideways
    <3>1. LooksOpen(x, y, c) <=> \A o \in {-6, 6} : Open(x + o, y + 9 * DY(c))
      BY <2>1, <2>3, Zenon DEF LooksOpen
    <3>2. Clear(h, c, ChaseLooks(c)) <=> \A o \in {-6, 6} : Probe(h, c, o) \notin grid_wall
      BY <2>3 DEF Clear, ChaseLooks
    <3> QED BY <1>1, <2>1, <2>3, <3>1, <3>2, Zenon
  <2> QED BY <2>2, <2>3
<1>3. Crossing(h) <=> Crosses(x, y)
  <2>1. \A n \in Dirs : Clear(h, n, {0}) <=>
          IF n \in Sideways THEN Open(x + 9 * DX(n), y) ELSE Open(x, y + 9 * DY(n))
    <3>1. x + 0 = x /\ y + 0 = y /\ 0 \in Int
      OBVIOUS
    <3>2. \A n \in Dirs : Clear(h, n, {0}) <=> Probe(h, n, 0) \notin grid_wall
      BY DEF Clear
    <3> QED BY <1>1, <3>1, <3>2
  <2>2. /\ x + 9 * DX("left") = x - 9 /\ x + 9 * DX("right") = x + 9
        /\ y + 9 * DY("up") = y - 9 /\ y + 9 * DY("down") = y + 9
    BY DEF DX, DY
  <2>3. /\ Clear(h, "left", {0}) <=> Open(x - 9, y)
        /\ Clear(h, "right", {0}) <=> Open(x + 9, y)
        /\ Clear(h, "up", {0}) <=> Open(x, y - 9)
        /\ Clear(h, "down", {0}) <=> Open(x, y + 9)
    BY <2>1, <2>2 DEF Dirs, Sideways
  <2> QED BY <2>3 DEF Crossing, Crosses, Dirs
<1>4. PacIs(h, c) <=> OnSide(c, X, Y)
  BY DEF PacIs, OnSide, Dirs
<1>5. InLine(h, d) <=> IF d \in Sideways THEN X = 0 ELSE Y = 0
  BY DEF InLine
<1>6. Takes(g, h, c) <=>
        /\ LooksOpen(x, y, c)
        /\ c = d => ~ (Crosses(x, y) /\ IF d \in Sideways THEN X = 0 ELSE Y = 0)
        /\ c # d /\ c # Opposite(d) => OnSide(c, X, Y)
  <2>1. Takes(g, h, c) <=>
          /\ Clear(h, c, ChaseLooks(c))
          /\ CASE c = d           -> ~ InLine(h, d) \/ ~ Crossing(h)
               [] c = Opposite(d) -> TRUE
               [] OTHER           -> PacIs(h, c)
    BY DEF Takes
  <2>2. d # Opposite(d)
    BY DEF Opposite, Dirs
  <2>3. CASE c = d
    BY <1>2, <1>3, <1>5, <2>1, <2>2, <2>3
  <2>4. CASE c = Opposite(d)
    BY <1>2, <2>1, <2>2, <2>4
  <2>5. CASE c # d /\ c # Opposite(d)
    BY <1>2, <1>4, <2>1, <2>5
  <2> QED BY <2>3, <2>4, <2>5
<1>7. Straight(c, d) <=> c = d \/ c = Opposite(d)
  BY DEF Straight, Opposite, Dirs, Sideways
<1> QED BY <1>6, <1>7 DEF Sight

\* When a ghost turns back, or takes no direction, it could take no other.
LEMMA ChosenLast ==
  ASSUME NEW g, NEW h, h.direction \in Dirs, NEW c \in Dirs, Takes(g, h, c)
  PROVE  /\ Chosen(g, h) # "none"
         /\ Chosen(g, h) = Opposite(h.direction) => c = Chosen(g, h)
<1> DEFINE d == h.direction
           order == Order(d)
           open  == { i \in 1..4 : Takes(g, h, order[i]) }
           first == CHOOSE i \in open : \A j \in open : i <= j
<1>1. \E n \in 1..4 : order[n] = c
  BY DEF Order, Opposite, Dirs, Sideways
<1>2. PICK n \in 1..4 : order[n] = c
  BY <1>1
<1>3. n \in open
  BY <1>2
<1>4. Chosen(g, h) = order[first]
  BY <1>3 DEF Chosen
<1>5. \E i \in open : \A j \in open : i <= j
  <2>1. CASE 1 \in open
    BY <2>1
  <2>2. CASE 1 \notin open /\ 2 \in open
    BY <2>2
  <2>3. CASE 1 \notin open /\ 2 \notin open /\ 3 \in open
    BY <2>3
  <2>4. CASE open = {4}
    BY <2>4
  <2> QED BY <1>3, <2>1, <2>2, <2>3, <2>4
<1>6. first \in 1..4 /\ first <= n
  <2>1. first \in open /\ \A j \in open : first <= j
    BY <1>5
  <2> QED BY <1>3, <2>1
<1>7. \A i \in 1..4 : /\ order[i] # "none"
                      /\ order[i] = Opposite(d) => i = 4
  BY DEF Order, Opposite, Dirs, Sideways
<1> HIDE DEF order, open, first
<1>8. order[first] = Opposite(d) => first = n
  BY <1>6, <1>7
<1> QED BY <1>2, <1>4, <1>6, <1>7, <1>8

-----------------------------------------------------------------------------
\* What is known of a chaser under way when no ghost has caught Pac-Man, in numbers.
LEMMA UnderWay ==
  ASSUME NEW g \in Ghosts \ Patrol, NEW h, GhostInv(g, h), h.direction # "idle",
         NEW p, Stand(p), ChaserInv(g, h, p),
         ~ (Near(h.x, p.x) /\ Near(h.y, p.y))
  PROVE  /\ h.x \in Int /\ h.y \in Int /\ h.X_Disp \in Int /\ h.Y_Disp \in Int
         /\ h.direction \in Dirs
         /\ p.x \in Int /\ p.y \in Int
         /\ (p.x - 168) % 16 \in {7, 8} /\ (p.y - 72) % 16 \in {7, 8}
         /\ Open(h.x, h.y) /\ LeadsOn(h.x, h.y, p.x, p.y)
         /\ ~ (Abs(h.x - p.x) <= 13 /\ Abs(h.y - p.y) <= 13)
<1>1. h \in GhostType /\ Within([x |-> h.x, y |-> h.y], 4)
  BY DEF GhostInv
<1>2. /\ h.x \in Int /\ h.y \in Int /\ h.X_Disp \in Int /\ h.Y_Disp \in Int
      /\ h.direction \in Dirs
  BY <1>1, GhostFields
<1>3. Cell(h.x, h.y) \in Corridor /\ Open(h.x, h.y)
  BY <1>1, <1>2, CentreWithin
<1>4. LeadsOn(h.x, h.y, p.x, p.y)
  BY <1>2, <1>3, CorridorLeadsOn DEF Stand
<1> QED BY <1>2, <1>3, <1>4 DEF Stand, Centred, Near

\* A chaser that has not caught him takes one of the four ways.
LEMMA ChaserChooses ==
  ASSUME NEW g \in Ghosts \ Patrol, NEW h, GhostInv(g, h), h.direction # "idle",
         NEW p, Stand(p), ChaserInv(g, h, p),
         ~ (Near(h.x, p.x) /\ Near(h.y, p.y))
  PROVE  Chosen(g, h) # "none"
<1>1. PICK x \in Int, y \in Int, X \in Int, Y \in Int, px \in Int, py \in Int, d \in Dirs :
        /\ x = h.x /\ y = h.y /\ X = h.X_Disp /\ Y = h.Y_Disp /\ d = h.direction
        /\ px = p.x /\ py = p.y
  BY UnderWay
<1>2. /\ (px - 168) % 16 \in {7, 8} /\ (py - 72) % 16 \in {7, 8}
      /\ Open(x, y) /\ LeadsOn(x, y, px, py)
      /\ ~ (Abs(x - px) <= 13 /\ Abs(y - py) <= 13)
  BY <1>1, UnderWay
<1>3. PICK e \in Dirs \cup {"none"} : Chasing(x, y, d, e, Still(h), X, Y, px, py)
  BY <1>1 DEF ChaserInv
<1>4. \E c \in Dirs : Sight(x, y, d, X, Y, c)
  <2>1. \/ Sight(x, y, d, X, Y, "left") \/ Sight(x, y, d, X, Y, "right")
        \/ Sight(x, y, d, X, Y, "up") \/ Sight(x, y, d, X, Y, "down")
    BY <1>2, <1>3, FindsWay
  <2> QED BY <2>1 DEF Dirs
<1>5. \E c \in Dirs : Takes(g, h, c)
  BY <1>1, <1>4, TakesInSight
<1> QED BY <1>1, <1>5, ChosenLast

\* A frame keeps what is known of a chaser under way ...
LEMMA ChaserGoesOn ==
  ASSUME NEW g \in Ghosts \ Patrol, NEW h, GhostInv(g, h), h.direction # "idle",
         NEW p, Stand(p), ChaserInv(g, h, p),
         ~ (Near(h.x, p.x) /\ Near(h.y, p.y)), NEW key
  PROVE  ChaserInv(g, Moved(g, h, key, p), p)
<1>1. PICK x \in Int, y \in Int, X \in Int, Y \in Int, px \in Int, py \in Int, d \in Dirs :
        /\ x = h.x /\ y = h.y /\ X = h.X_Disp /\ Y = h.Y_Disp /\ d = h.direction
        /\ px = p.x /\ py = p.y
  BY UnderWay
<1>2. /\ (px - 168) % 16 \in {7, 8} /\ (py - 72) % 16 \in {7, 8}
      /\ Open(x, y) /\ LeadsOn(x, y, px, py)
      /\ ~ (Abs(x - px) <= 13 /\ Abs(y - py) <= 13)
  BY <1>1, UnderWay
<1>3. PICK e \in Dirs \cup {"none"} : Chasing(x, y, d, e, Still(h), X, Y, px, py)
  BY <1>1 DEF ChaserInv
<1>4. Still(h) \/ OnCourse(h)
  BY DEF ChaserInv
<1> DEFINE c == Chosen(g, h)
           n == Moved(g, h, key, p)
<1>5. c \in Dirs /\ c # "none" /\ Takes(g, h, c) /\ (c # d => ~ Takes(g, h, d))
  BY <1>1, ChaserChooses, ChosenTakes
<1>6. /\ Sight(x, y, d, X, Y, c)
      /\ c # d => ~ Sight(x, y, d, X, Y, d)
  BY <1>1, <1>5, TakesInSight
<1>7. Straight(c, d) /\ c # d => \A m \in Dirs : Sight(x, y, d, X, Y, m) => m = c
  <2>1. Straight(c, d) /\ c # d => c = Opposite(d)
    BY <1>5 DEF Straight, Opposite, Dirs, Sideways
  <2>2. \A m \in Dirs : Sight(x, y, d, X, Y, m) => Takes(g, h, m)
    BY <1>1, TakesInSight
  <2> QED BY <1>1, <2>1, <2>2, ChosenLast
<1>8. n = [x |-> x + h.mx, y |-> y + h.my, mx |-> DX(c), my |-> DY(c), direction |-> c,
           X_Disp |-> x - px, Y_Disp |-> y - py]
  <2>1. h \in GhostType
    BY DEF GhostInv
  <2>2. LET s == Steered(g, h, key) IN s.mx = DX(c) /\ s.my = DY(c) /\ s.direction = c
    BY <1>1, <1>5, <2>1, SteeredMotion
  <2> HIDE DEF c
  <2> QED BY <1>1, <2>2, MovedRegisters
<1> HIDE DEF c, n
<1>9. /\ n.x = x + h.mx /\ n.y = y + h.my /\ n.mx = DX(c) /\ n.my = DY(c)
      /\ n.direction = c /\ n.X_Disp = x - px /\ n.Y_Disp = y - py
  BY <1>8
<1>10. OnCourse(n) /\ ~ Still(n) /\ n.direction # "idle"
  BY <1>5, <1>9 DEF OnCourse, Still, Dirs, DX, DY
<1>11. CASE Still(h)
  <2>1. n.x = x /\ n.y = y
    BY <1>9, <1>11 DEF Still
  <2>2. Chasing(x, y, c, "none", FALSE, x - px, y - py, px, py)
    <3>1. Still(h) = TRUE
      BY <1>11 DEF Still
    <3>2. Chasing(x, y, d, e, TRUE, X, Y, px, py)
      BY <1>3, <3>1
    <3> QED BY <1>2, <1>5, <1>6, <1>7, <3>2, StartsChasing
  <2>3. Chasing(n.x, n.y, n.direction, "none", Still(n), n.X_Disp, n.Y_Disp, p.x, p.y)
    <3>1. Still(n) = FALSE
      BY <1>10 DEF Still
    <3> QED BY <1>1, <1>9, <2>1, <2>2, <3>1
  <2>4. ChaserInv(g, n, p)
    BY <1>10, <2>3 DEF ChaserInv
  <2> QED BY <2>4 DEF n
<1>12. CASE ~ Still(h)
  <2>1. n.x = x + DX(d) /\ n.y = y + DY(d)
    BY <1>1, <1>4, <1>9, <1>12 DEF OnCourse
  <2>2. Open(x + DX(d), y + DY(d))
    <3>1. /\ h.x + h.mx \in Int /\ h.y + h.my \in Int
          /\ Within([x |-> h.x + h.mx, y |-> h.y + h.my], 4)
      BY NextPlaceWithin
    <3>2. Open(h.x + h.mx, h.y + h.my)
      BY <3>1, CentreWithin
    <3> QED BY <1>1, <1>9, <2>1, <3>2
  <2>3. Chasing(x + DX(d), y + DY(d), c, d, FALSE, x - px, y - py, px, py)
    <3>1. Still(h) = FALSE
      BY <1>12 DEF Still
    <3>2. Chasing(x, y, d, e, FALSE, X, Y, px, py)
      BY <1>3, <3>1
    <3> QED BY <1>2, <1>5, <1>6, <1>7, <2>2, <3>2, KeepsChasing
  <2>4. Chasing(n.x, n.y, n.direction, d, Still(n), n.X_Disp, n.Y_Disp, p.x, p.y)
    <3>1. Still(n) = FALSE
      BY <1>10 DEF Still
    <3> QED BY <1>1, <1>9, <2>1, <2>3, <3>1
  <2>5. ChaserInv(g, n, p)
    BY <1>10, <2>4 DEF ChaserInv
  <2> QED BY <2>5 DEF n
<1> QED BY <1>11, <1>12

\* A chaser that is about to set off is in the middle of a cell with a way.
LEMMA SetOff ==
  ASSUME NEW x \in Int, NEW y \in Int, NEW p \in Int, NEW q \in Int, NEW d \in Sideways,
         (x - 168) % 16 \in {7, 8}, (y - 72) % 16 \in {7, 8},
         WayOn(x, y, "left") \/ WayOn(x, y, "right")
  PROVE  Chasing(x, y, d, "none", TRUE, x - p, y - q, p, q)
<1> USE DEF Chasing, Informed, WayOn, WayBack, Across, Along, OnLane, TurnsToHim,
            HasWay, KeepsLane, Fits, SetsOff, Dirs, Sideways, DX, DY, Row, Col
<1>1. CASE d = "left"
  BY <1>1
<1>2. CASE d = "right"
  BY <1>2
<1> HIDE DEF Chasing, Informed, WayOn, WayBack, Across, Along, OnLane, TurnsToHim,
            HasWay, KeepsLane, Fits, SetsOff, Dirs, DX, DY, Row, Col
<1> QED BY <1>1, <1>2

\* ... and of one that waits for the first key.
LEMMA ChaserSetsOff ==
  ASSUME NEW g \in Ghosts \ Patrol, NEW h, GhostInv(g, h), h.direction = "idle",
         NEW p, Stand(p), ChaserInv(g, h, p), NEW key
  PROVE  ChaserInv(g, Moved(g, h, key, p), p)
<1>1. h.mx = 0 /\ h.my = 0 /\ Centred(h)
  BY DEF GhostInv, Still
<1>2. h.x = GhostCenter[g].x /\ h.y = GhostCenter[g].y
  BY DEF ChaserInv
<1>3. h \in GhostType
  BY DEF GhostInv
<1>4. PICK x \in Int, y \in Int, px \in Int, py \in Int :
        x = h.x /\ y = h.y /\ px = p.x /\ py = p.y
  BY <1>3, GhostFields DEF Stand
<1> DEFINE s == Steered(g, h, key)
           n == Moved(g, h, key, p)
<1>5. s.mx = 0 /\ s.my = 0 /\ s.direction \in Sideways \cup {"idle"}
  BY <1>1, <1>3, SteeredIdle
<1>6. n = [x |-> x, y |-> y, mx |-> 0, my |-> 0, direction |-> s.direction,
           X_Disp |-> x - px, Y_Disp |-> y - py]
  <2>1. n = [x |-> h.x + h.mx, y |-> h.y + h.my, mx |-> s.mx, my |-> s.my,
             direction |-> s.direction, X_Disp |-> h.x - p.x, Y_Disp |-> h.y - p.y]
    BY MovedRegisters
  <2>2. h.x + h.mx = x /\ h.y + h.my = y
    BY <1>1, <1>4
  <2> HIDE DEF s, n
  <2> QED BY <1>4, <1>5, <2>1, <2>2
<1> HIDE DEF s, n
<1>7. /\ n.x = x /\ n.y = y /\ n.mx = 0 /\ n.my = 0 /\ n.direction = s.direction
      /\ n.X_Disp = x - px /\ n.Y_Disp = y - py
  BY <1>6
<1>8. CASE s.direction = "idle"
  <2>1. ChaserInv(g, n, p)
    BY <1>2, <1>4, <1>7, <1>8 DEF ChaserInv
  <2> QED BY <2>1 DEF n
<1>9. CASE s.direction \in Sideways
  <2>1. (x - 168) % 16 \in {7, 8} /\ (y - 72) % 16 \in {7, 8}
    BY <1>1, <1>4 DEF Centred
  <2>2. \E d \in Sideways : Beside(Cell(x, y), d) \notin grid_wall
    BY <1>2, <1>4, ChaseAssumption DEF StartsInAWay
  <2>3. WayOn(x, y, "left") \/ WayOn(x, y, "right")
    BY <2>2, WaysBeside DEF Sideways
  <2>4. Chasing(x, y, s.direction, "none", TRUE, x - px, y - py, px, py)
    BY <1>9, <2>1, <2>3, SetOff
  <2>5. Still(n) = TRUE
    BY <1>7 DEF Still
  <2>6. Chasing(n.x, n.y, n.direction, "none", Still(n), n.X_Disp, n.Y_Disp, p.x, p.y)
    BY <1>4, <1>7, <2>4, <2>5
  <2>7. n.direction # "idle"
    BY <1>7, <1>9 DEF Sideways
  <2>8. ChaserInv(g, n, p)
    BY <2>5, <2>6, <2>7 DEF ChaserInv
  <2> QED BY <2>8 DEF n
<1> QED BY <1>5, <1>8, <1>9

-----------------------------------------------------------------------------
\* The chase is one way to run the ghosts, so what holds of them holds in it.
LEMMA ChaseOfGhosts == ChaseSpec => []GhostsInv
<1>1. ChaseInit => GhostInit
  BY DEF ChaseInit
<1>2. [ChaseNext]_chaseVars => [GhostNext]_ghost
  <2> SUFFICES ASSUME [ChaseNext]_chaseVars PROVE [GhostNext]_ghost
    OBVIOUS
  <2>1. CASE ChaseReset
    BY <2>1 DEF ChaseReset, GhostNext
  <2>2. ASSUME NEW key \in Dirs \cup {"none"}, NEW p \in [x : 0..1023, y : 0..1023],
               ChaseFrame(key, p)
        PROVE  GhostNext
    <3>1. GhostFrame("Game", key, p)
      BY <2>2 DEF ChaseFrame, GhostFrame
    <3> QED BY SMTT(30), <3>1 DEF GhostNext
  <2>3. CASE UNCHANGED chaseVars
    BY <2>3 DEF chaseVars
  <2> QED BY <2>1, <2>2, <2>3 DEF ChaseNext
<1>3. ChaseSpec => GhostSpec
  BY <1>1, <1>2, PTL DEF ChaseSpec, GhostSpec
<1> QED BY <1>3, GhostSpecInv, PTL

\* A reset leaves every ghost idle, where it starts.
LEMMA AtStartInv ==
  ASSUME NEW g, NEW xd, NEW yd, NEW p
  PROVE  ChaserInv(g, GhostAtStart(g, xd, yd), p)
BY DEF ChaserInv, GhostAtStart

\* The inductive invariant of the chase.
THEOREM ChaseSpecInv == ChaseSpec => []ChaseInv
<1>1. ChaseInit => ChaseInv
  <2> SUFFICES ASSUME ChaseInit PROVE ChaseInv
    OBVIOUS
  <2>1. \A g \in Ghosts : ghost[g] = GhostAtStart(g, 0, 0)
    BY DEF ChaseInit, GhostInit
  <2>2. Stand(place)
    BY SMTT(30) DEF ChaseInit, Stand
  <2> QED BY <2>1, <2>2, AtStartInv DEF ChaseInv
<1>2. ChaseInv /\ GhostsInv /\ [ChaseNext]_chaseVars => ChaseInv'
  <2> SUFFICES ASSUME ChaseInv, GhostsInv, [ChaseNext]_chaseVars, stands'
               PROVE  /\ Stand(place')
                      /\ \A g \in Ghosts \ Patrol : ChaserInv(g, ghost'[g], place')
    BY DEF ChaseInv, ChaserInv, Stand, Centred
  <2>0. UNCHANGED <<stands, place>>
    <3>1. CASE ChaseReset
      BY <3>1 DEF ChaseReset
    <3>2. CASE \E key, p : ChaseFrame(key, p)
      <4>1. PICK key, p : ChaseFrame(key, p)
        BY <3>2
      <4> QED BY <4>1 DEF ChaseFrame
    <3>3. CASE UNCHANGED chaseVars
      BY <3>3 DEF chaseVars
    <3>4. ChaseReset \/ (\E key, p : ChaseFrame(key, p)) \/ UNCHANGED chaseVars
      <4>1. CASE ChaseNext
        <5>1. \/ ChaseReset
              \/ \E key \in Dirs \cup {"none"}, p \in [x : 0..1023, y : 0..1023] :
                   ChaseFrame(key, p)
          BY <4>1 DEF ChaseNext
        <5> QED BY <5>1
      <4> QED BY <4>1
    <3> QED BY <3>1, <3>2, <3>3, <3>4
  <2>1. stands /\ place' = place
    BY <2>0
  <2>2. Stand(place) /\ \A g \in Ghosts \ Patrol : ChaserInv(g, ghost[g], place)
    BY <2>1 DEF ChaseInv
  <2>3. CASE ChaseReset
    <3>1. \A g \in Ghosts : ghost'[g] = GhostAtStart(g, ghost[g].X_Disp, ghost[g].Y_Disp)
      BY <2>3 DEF ChaseReset, GhostReset
    <3> QED BY <2>1, <2>2, <3>1, AtStartInv
  <2>4. ASSUME NEW key, NEW p, ChaseFrame(key, p)
        PROVE  \A g \in Ghosts \ Patrol : ChaserInv(g, ghost'[g], place)
    <3> SUFFICES ASSUME NEW g \in Ghosts \ Patrol PROVE ChaserInv(g, ghost'[g], place)
      OBVIOUS
    <3>1. /\ p = place
          /\ ~ (Near(ghost[g].x, place.x) /\ Near(ghost[g].y, place.y))
          /\ ghost'[g] = Moved(g, ghost[g], key, place)
      BY <2>1, <2>4 DEF ChaseFrame, GhostMove, Caught
    <3>2. GhostInv(g, ghost[g]) /\ ChaserInv(g, ghost[g], place)
      BY <2>2 DEF GhostsInv
    <3>3. CASE ghost[g].direction = "idle"
      BY <2>2, <3>1, <3>2, <3>3, ChaserSetsOff
    <3>4. CASE ghost[g].direction # "idle"
      BY <2>2, <3>1, <3>2, <3>4, ChaserGoesOn
    <3> QED BY <3>3, <3>4
  <2>5. CASE UNCHANGED chaseVars
    BY <2>1, <2>2, <2>5 DEF chaseVars
  <2> QED BY <2>1, <2>2, <2>3, <2>4, <2>5 DEF ChaseNext
<1> QED BY <1>1, <1>2, ChaseOfGhosts, PTL DEF ChaseSpec

(***************************************************************************)
(* In every maze that leads on, a ghost that chases a Pac-Man who stands   *)
(* still does not come to a stop before one has caught him, wherever in    *)
(* the corridor he stands and wherever the ghosts start.                   *)
(***************************************************************************)
THEOREM ChaserNeverStops == ChaseSpec => []ChaserKeepsMoving
<1>1. ChaseInv /\ GhostsInv => ChaserKeepsMoving
  <2> SUFFICES ASSUME ChaseInv, GhostsInv, stands, \A g \in Ghosts : ~ Caught(g, place),
                      NEW g \in Ghosts \ Patrol, ghost[g].direction # "idle"
               PROVE  Chosen(g, ghost[g]) # "none"
    BY DEF ChaserKeepsMoving
  <2>1. Stand(place) /\ ChaserInv(g, ghost[g], place) /\ GhostInv(g, ghost[g])
    BY DEF ChaseInv, GhostsInv
  <2>2. ~ (Near(ghost[g].x, place.x) /\ Near(ghost[g].y, place.y))
    BY DEF Caught
  <2> QED BY <2>1, <2>2, ChaserChooses
<1> QED BY <1>1, ChaseSpecInv, ChaseOfGhosts, PTL
=============================================================================
