-------------------------------- MODULE Maze --------------------------------
(***************************************************************************)
(* The maze of the game and the wall lookups every moving sprite makes.    *)
(* A sprite is a record with at least the fields x and y, the pixel of its *)
(* centre; the maze is a grid of 16 by 16 pixel cells, 21 rows of 20 bits, *)
(* whose first pixel is (168, 72).  grid_wall is the set of the cells      *)
(* whose bit is 1.                                                         *)
(***************************************************************************)
EXTENDS Integers

CONSTANTS
  grid_wall,   \* the cells <<row, column>> that are walls
  Corridor     \* the cells the sprites may visit, see CorridorAssumption

Rows == 0..20
Columns == 0..19

\* Half the height and the width of a sprite: Ball_Size_X, Ghost_X_Size, ...
HalfSize == 8

Dirs == {"left", "right", "up", "down"}
Sideways == {"left", "right"}

DX(d) == IF d = "left" THEN -1 ELSE IF d = "right" THEN 1 ELSE 0
DY(d) == IF d = "up"   THEN -1 ELSE IF d = "down"  THEN 1 ELSE 0

\* The position registers are 10 bits wide.  A motion of 10'd1023 is -1 here.
Wrap(v) == v % 1024

\* The cell of a pixel: the two indices of grid_wall and of grid_pellet.
Cell(x, y) == <<(y - 72) \div 16, (x - 168) \div 16>>

(***************************************************************************)
(* The lookup one pixel beyond the edge of sprite s that faces d, moved o  *)
(* pixels along that edge: map_check_l is Probe(s, "left", 0),             *)
(* map_check_ur is Probe(s, "up", 6), map_check_rb is Probe(s, "right", 5).*)
(***************************************************************************)
Probe(s, d, o) ==
  IF d \in Sideways
  THEN Cell(s.x + (HalfSize + 1) * DX(d), s.y + o)
  ELSE Cell(s.x + o, s.y + (HalfSize + 1) * DY(d))

Clear(s, d, offsets) == \A o \in offsets : Probe(s, d, o) \notin grid_wall

-----------------------------------------------------------------------------
(***************************************************************************)
(* A corridor is a set of cells without walls, inside the outer frame of   *)
(* the grid, that can be left only through a wall: the two cells on either *)
(* side of its border that share an edge are one inside and one a wall.    *)
(* The real maze has open cells outside its corridor (the ends of rows 7   *)
(* and 11, column 19), so the whole grid is not one.                       *)
(***************************************************************************)
CorridorAssumption ==
  /\ grid_wall \subseteq (Rows \X Columns)
  /\ Corridor \subseteq ((1..19) \X (1..18))
  /\ Corridor \cap grid_wall = {}
  /\ \A c \in Corridor :
       \A n \in { <<c[1] - 1, c[2]>>, <<c[1] + 1, c[2]>>,
                  <<c[1], c[2] - 1>>, <<c[1], c[2] + 1>> } :
         n \in Corridor \/ n \in grid_wall

ASSUME MazeIsEnclosed == CorridorAssumption

(***************************************************************************)
(* The centre of sprite s and the four pixels r across from it on both     *)
(* axes are in a corridor.                                                 *)
(***************************************************************************)
Within(s, r) ==
  \A dx, dy \in {-r, r} : Cell(s.x + dx, s.y + dy) \in Corridor

\* Where s is after one more frame of the motion it has.
Ahead(s) == [x |-> s.x + s.mx, y |-> s.y + s.my]

Abs(v) == IF v < 0 THEN -v ELSE v
=============================================================================
