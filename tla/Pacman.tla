------------------------------- MODULE Pacman -------------------------------
(***************************************************************************)
(* Pac-Man's position and motion registers: the process Move_Ball of       *)
(* ball.sv.  Each frame of the display it samples the state of the game's  *)
(* FSM and the keycode; both are parameters of the actions.                *)
(***************************************************************************)
EXTENDS Maze

CONSTANTS Ball_X_Center, Ball_Y_Center   \* parameters of module ball

VARIABLE pac     \* [x, y: position, mx, my: motion]

ASSUME PacStartsInCorridor ==
  /\ Ball_X_Center \in Int
  /\ Ball_Y_Center \in Int
  /\ Within([x |-> Ball_X_Center, y |-> Ball_Y_Center], 4)

\* 0x04, 0x07, 0x16 and 0x1A steer, 0x28 leaves the intro, others do nothing.
Keys == Dirs \cup {"enter", "none"}

PacType == [x : 0..1023, y : 0..1023, mx : {-1, 0, 1}, my : {-1, 0, 1}]

PacAtStart == [x |-> Ball_X_Center, y |-> Ball_Y_Center, mx |-> 0, my |-> 0]

\* Three lookups on the left and the right, two above and below.
PacLooks_Centre(d) == {0}   \* Mutant: without map_check_lu, _lb, ...
PacLooks(d) == IF d \in Sideways THEN {-5, 0, 5} ELSE {-6, 6}

OnScreen(d) ==
  CASE d = "left"  -> Wrap(pac.x - HalfSize) > 0
    [] d = "right" -> Wrap(pac.x + HalfSize) < 639
    [] d = "up"    -> Wrap(pac.y - HalfSize) > 0
    [] d = "down"  -> Wrap(pac.y + HalfSize) < 479

CanSteer(d) == OnScreen(d) /\ Clear(pac, d, PacLooks(d))

-----------------------------------------------------------------------------
PacInit == pac = PacAtStart

PacReset == pac' = PacAtStart

\* Outside the game the motion is cleared and the position kept.
PacHalt(st) ==
  /\ st \in {"End", "Intro"}
  /\ pac' = [pac EXCEPT !.mx = 0, !.my = 0]

\* The key's direction is the next motion; this frame still moves by the old.
PacSteer(st, key) ==
  /\ st = "Game"
  /\ key \in Dirs
  /\ CanSteer(key)
  /\ pac' = [x  |-> Wrap(pac.x + pac.mx), y  |-> Wrap(pac.y + pac.my),
             mx |-> DX(key),              my |-> DY(key)]

\* No steering key, or a wall in its way: position and motion stay.
PacHold(st, key) ==
  /\ st = "Game"
  /\ key \in Dirs => ~ CanSteer(key)
  /\ UNCHANGED pac

PacWait(st) == st = "Start" /\ UNCHANGED pac

PacFrame(st, key) ==
  \/ PacHalt(st)
  \/ PacSteer(st, key)
  \/ PacHold(st, key)
  \/ PacWait(st)

\* The component alone: the FSM and the keyboard may give it anything.
PacNext ==
  PacReset \/ \E st \in {"Intro", "Start", "Game", "End"}, key \in Keys : PacFrame(st, key)

PacSpec == PacInit /\ [][PacNext]_pac

-----------------------------------------------------------------------------
PacTypeOK == pac \in PacType

(***************************************************************************)
(* Pac-Man never gets into a wall: the inner half of the sprite stays in   *)
(* the corridor, although a frame moves by the motion of the frame before, *)
(* one pixel further than the lookups that allowed the new one, and a      *)
(* blocked key keeps an old motion for any time.                           *)
(***************************************************************************)
PacStaysInCorridor == Within(pac, 4)

(***************************************************************************)
(* No lookup of grid_wall is ever out of the range of the array, where its *)
(* value would be undefined.                                               *)
(***************************************************************************)
PacLooksInsideGrid ==
  \A d \in Dirs, o \in {-6, -5, 0, 5, 6} : Probe(pac, d, o) \in Rows \X Columns
=============================================================================
