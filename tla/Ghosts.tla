------------------------------- MODULE Ghosts -------------------------------
(***************************************************************************)
(* The ghosts: one instance of module ghost (ghost.sv) per element of      *)
(* Ghosts, all clocked by the same frame.  A ghost patrols or chases; each *)
(* frame it reads its own registers, Pac-Man's position, the keycode and   *)
(* the FSM's state.                                                        *)
(***************************************************************************)
EXTENDS Maze

CONSTANTS
  Ghosts,            \* the instances: r, p, b and o in ball.sv
  GhostCenter,       \* [Ghosts -> [x, y]]: Ghost_X_Center, Ghost_Y_Center
  start_direction,   \* [Ghosts -> Dirs]
  Patrol             \* the ghosts whose port patrol is 1

(***************************************************************************)
(* The registers of each ghost: position, motion, direction ("idle" until  *)
(* the player first moves) and the last frame's displacement X_Disp,       *)
(* Y_Disp from Pac-Man, which a reset leaves as it is.                     *)
(***************************************************************************)
VARIABLE ghost

\* In the middle of a cell: pixel 7 or 8 of its 16, on both axes.
Centred(s) == (s.x - 168) % 16 \in {7, 8} /\ (s.y - 72) % 16 \in {7, 8}

ASSUME GhostAssumption ==
  /\ GhostCenter \in [Ghosts -> [x : Int, y : Int]]
  /\ start_direction \in [Ghosts -> Sideways]
  /\ Patrol \subseteq Ghosts
  /\ \A g \in Ghosts : Centred(GhostCenter[g]) /\ Within(GhostCenter[g], 7)

GhostType == [x : 0..1023, y : 0..1023, mx : {-1, 0, 1}, my : {-1, 0, 1},
              direction : Dirs \cup {"idle"},
              X_Disp : Int, Y_Disp : Int]

GhostAtStart(g, xd, yd) ==
  [x |-> GhostCenter[g].x, y |-> GhostCenter[g].y, mx |-> 0, my |-> 0,
   direction |-> "idle", X_Disp |-> xd, Y_Disp |-> yd]

Opposite(d) == CASE d = "left" -> "right" [] d = "right" -> "left"
                 [] d = "up"   -> "down"  [] d = "down"  -> "up"

\* Mutants: the ways across are tried first; up is tried before down.
Order_Restless(d) ==
  IF d \in Sideways THEN <<"down", "up", d, Opposite(d)>>
                    ELSE <<"right", "left", d, Opposite(d)>>
Order_UpFirst(d) ==
  IF d \in Sideways THEN <<d, "up", "down", Opposite(d)>>
                    ELSE <<d, "right", "left", Opposite(d)>>

\* The order in which directions are tried: on, the two across, and back.
Order(d) ==
  IF d \in Sideways THEN <<d, "down", "up", Opposite(d)>>
                    ELSE <<d, "right", "left", Opposite(d)>>

\* map_check > 3: the lookups on all four sides, at the centre, are open.
Crossing(h) == \A d \in Dirs : Clear(h, d, {0})

ChaseLooks_Centre(d) == {0}   \* Mutant: a chaser looks as a patrol does.
ChaseLooks(d) == IF d \in Sideways THEN {-5, 5} ELSE {-6, 6}

\* On which side of ghost h Pac-Man was, a frame ago.
PacIs(h, d) ==
  CASE d = "left"  -> h.X_Disp > 0
    [] d = "right" -> h.X_Disp < 0
    [] d = "up"    -> h.Y_Disp > 0
    [] d = "down"  -> h.Y_Disp < 0

\* A chasing ghost leaves its course on a crossing in line with Pac-Man.
InLine(h, d) == IF d \in Sideways THEN h.X_Disp = 0 ELSE h.Y_Disp = 0

\* Mutant: a ghost does not turn back.
Takes_NeverBack(g, h, d) ==
  IF g \in Patrol
  THEN Clear(h, d, {0})
  ELSE /\ Clear(h, d, ChaseLooks(d))
       /\ IF d = h.direction THEN ~ InLine(h, d) \/ ~ Crossing(h) ELSE PacIs(h, d)

\* May ghost g, with registers h, take direction d next?
Takes(g, h, d) ==
  IF g \in Patrol
  THEN Clear(h, d, {0})
  ELSE /\ Clear(h, d, ChaseLooks(d))
       /\ CASE d = h.direction           -> ~ InLine(h, d) \/ ~ Crossing(h)
            [] d = Opposite(h.direction) -> TRUE
            [] OTHER                     -> PacIs(h, d)

\* The first direction of the order that it may take, if there is one.
Chosen(g, h) ==
  LET order == Order(h.direction)
      open  == { i \in 1..4 : Takes(g, h, order[i]) }
  IN  IF open = {} THEN "none"
      ELSE order[CHOOSE i \in open : \A j \in open : i <= j]

\* Mutant: start_check misses a key.
Steered_ThreeKeys(g, h, key) ==
  IF h.direction = "idle"
  THEN IF key \in Dirs \ {"left"} THEN [h EXCEPT !.direction = start_direction[g]] ELSE h
  ELSE LET d == Chosen(g, h)
       IN  [h EXCEPT !.mx = DX(d), !.my = DY(d),
                     !.direction = IF d = "none" THEN @ ELSE d]

\* Mutant: a waiting ghost takes its motion with its direction.
Steered_AtOnce(g, h, key) ==
  IF h.direction = "idle"
  THEN IF key \in Dirs
       THEN [h EXCEPT !.direction = start_direction[g], !.mx = DX(start_direction[g])]
       ELSE h
  ELSE LET d == Chosen(g, h)
       IN  [h EXCEPT !.mx = DX(d), !.my = DY(d),
                     !.direction = IF d = "none" THEN @ ELSE d]

\* The motion and the direction that the next frame starts from.
Steered(g, h, key) ==
  IF h.direction = "idle"
  THEN IF key \in Dirs THEN [h EXCEPT !.direction = start_direction[g]] ELSE h
  ELSE LET d == Chosen(g, h)
       IN  [h EXCEPT !.mx = DX(d), !.my = DY(d),
                     !.direction = IF d = "none" THEN @ ELSE d]

\* Mutant: the displacement is not sampled while the ghost waits.
Moved_Stale(g, h, key, p) ==
  [Steered(g, h, key) EXCEPT !.x = Wrap(h.x + h.mx), !.y = Wrap(h.y + h.my),
     !.X_Disp = IF h.direction = "idle" THEN @ ELSE h.x - p.x,
     !.Y_Disp = IF h.direction = "idle" THEN @ ELSE h.y - p.y]

\* A frame of the game moves by the old motion and samples the displacement.
Moved(g, h, key, p) ==
  [Steered(g, h, key) EXCEPT !.x = Wrap(h.x + h.mx), !.y = Wrap(h.y + h.my),
                             !.X_Disp = h.x - p.x,   !.Y_Disp = h.y - p.y]

-----------------------------------------------------------------------------
\* Registers without a reset value power up as zero.
GhostInit == ghost = [g \in Ghosts |-> GhostAtStart(g, 0, 0)]

GhostReset ==
  ghost' = [g \in Ghosts |->
              GhostAtStart(g, ghost[g].X_Disp, ghost[g].Y_Disp)]

GhostHalt(st) ==
  /\ st \in {"End", "Intro"}
  /\ ghost' = [g \in Ghosts |-> [ghost[g] EXCEPT !.mx = 0, !.my = 0]]

GhostMove(st, key, p) ==
  /\ st = "Game"
  /\ ghost' = [g \in Ghosts |-> Moved(g, ghost[g], key, p)]

GhostWait(st) == st = "Start" /\ UNCHANGED ghost

GhostFrame(st, key, p) ==
  \/ GhostHalt(st)
  \/ GhostMove(st, key, p)
  \/ GhostWait(st)

\* Mutants: the bounds 3 (of an older version of the comparison) and 23.
Near_Tight(a, b) == Abs(a - b) <= 3
Near_Wide(a, b) == Abs(a - b) <= 23

\* X_Caught and Y_Caught: the centres are at most 13 pixels apart on an axis.
Near(a, b) == Abs(a - b) <= 13

Caught(g, p) == Near(ghost[g].x, p.x) /\ Near(ghost[g].y, p.y)

\* The component alone: FSM, keyboard and Pac-Man may give it anything.
GhostNext ==
  \/ GhostReset
  \/ \E st \in {"Intro", "Start", "Game", "End"}, key \in Dirs \cup {"none"},
        p \in [x : 0..1023, y : 0..1023] : GhostFrame(st, key, p)

GhostSpec == GhostInit /\ [][GhostNext]_ghost

-----------------------------------------------------------------------------
GhostTypeOK == ghost \in [Ghosts -> GhostType]

(***************************************************************************)
(* No ghost gets into a wall: the inner half of its sprite stays in the    *)
(* corridor wherever Pac-Man is, although it turns after the frame that    *)
(* still moves by the old motion.                                          *)
(***************************************************************************)
GhostsStayInCorridor == \A g \in Ghosts : Within(ghost[g], 4)

(***************************************************************************)
(* A patrolling ghost turns only where its path is blocked, and its single *)
(* lookup on each side is enough to keep nearly all of its sprite in the   *)
(* corridor.                                                               *)
(***************************************************************************)
PatrolKeepsToTheMiddle == \A g \in Patrol : Within(ghost[g], 7)

\* No lookup of a ghost is out of the range of the array of walls.
GhostsLookInsideGrid ==
  \A g \in Ghosts, d \in Dirs, o \in {-6, -5, 0, 5, 6} :
    Probe(ghost[g], d, o) \in Rows \X Columns
=============================================================================
