-------------------------------- MODULE Game --------------------------------
(***************************************************************************)
(* The game: the FSM of FinalProject1.sv and, inside module ball, Pac-Man, *)
(* the pellets and the ghosts.  All of them are clocked by the vertical    *)
(* sync, so one frame is one step of every component, each reading what    *)
(* the others held before the edge.  The keycode is whatever the processor *)
(* last wrote; KEY[0] resets everything at any time.                       *)
(***************************************************************************)
EXTENDS Pacman, Ghosts, Pellets, GameFSM

ASSUME GameAssumption ==
  /\ Cell(Ball_X_Center, Ball_Y_Center) \notin PelletCells
  /\ \A g \in Ghosts : \/ Abs(GhostCenter[g].x - Ball_X_Center) >= 12
                       \/ Abs(GhostCenter[g].y - Ball_Y_Center) >= 12

vars == <<state, pac, ghost, grid_pellet, score, play>>

start_check(key) == key \in Dirs
start_screen_check(key) == key = "enter"
caught_check == \E g \in Ghosts : Caught(g, pac)

Init == FsmInit /\ PacInit /\ GhostInit /\ PelletInit

Reset == FsmReset /\ PacReset /\ GhostReset /\ PelletReset

Frame(key) ==
  /\ FsmFrame(start_screen_check(key), start_check(key),
              caught_check, game_over_check)
  /\ PelletFrame(pac)
  /\ PacFrame(state, key)
  /\ GhostFrame(state, key, pac)

Tick == \E key \in Keys : Frame(key)

Next == Tick \/ Reset

\* The frame clock never stops; nobody has to press the reset button.
Spec == Init /\ [][Next]_vars /\ WF_vars(Tick)

-----------------------------------------------------------------------------
TypeOK ==
  /\ state \in States
  /\ PacTypeOK
  /\ GhostTypeOK
  /\ grid_pellet \subseteq PelletCells
  /\ score \in Nat
  /\ play \in BOOLEAN

(***************************************************************************)
(* A ghost never reaches, let alone passes, Pac-Man unseen: both move in   *)
(* the frame in which the collision is noticed and in the frame in which   *)
(* the FSM leaves the game, and even so the centres stay 12 pixels apart   *)
(* on one axis while the game runs and 10 pixels when it has ended.        *)
(***************************************************************************)
Apart(g, n) == Abs(ghost[g].x - pac.x) >= n \/ Abs(ghost[g].y - pac.y) >= n

NoPassThrough ==
  \A g \in Ghosts : Apart(g, IF state = "End" THEN 10 ELSE 12)

(***************************************************************************)
(* The game ends for a reason that can be seen on the screen: a ghost is   *)
(* within 15 pixels of Pac-Man on both axes (13 when it was noticed) or no *)
(* pellet is left.                                                         *)
(***************************************************************************)
EndHasCause ==
  state = "End" =>
    \/ grid_pellet = {}
    \/ \E g \in Ghosts : ~ Apart(g, 16)

(***************************************************************************)
(* The game starts evenly.  The ghosts set off together, in a frame of the *)
(* game with a steering key (ghost.sv:95, start_check) that finds Pac-Man  *)
(* at his start without a motion.  If no wall is in that key's way, he     *)
(* takes his motion in this very frame (ball.sv:171), while the ghosts     *)
(* have but a direction and are still at their places.  And he never takes *)
(* his first motion while a ghost is waiting.  A reset may come between    *)
(* any two of these frames.                                                *)
(***************************************************************************)
Waiting == { g \in Ghosts : ghost[g].direction = "idle" }

SetOff ==
  /\ state = "Game" /\ Waiting = Ghosts /\ Waiting' = {}
  /\ pac = PacAtStart
  /\ \E key \in Dirs : PacSteer("Game", key) \/ (~ CanSteer(key) /\ UNCHANGED pac)
  /\ \A g \in Ghosts :
       /\ ghost'[g].x = GhostCenter[g].x /\ ghost'[g].mx = 0
       /\ ghost'[g].y = GhostCenter[g].y /\ ghost'[g].my = 0

EvenStart ==
  [][/\ Waiting \subseteq Waiting' \/ SetOff
     /\ pac = PacAtStart /\ pac' # PacAtStart => Waiting' = {}]_vars

(***************************************************************************)
(* A ghost under way steers by a displacement that is at most one frame    *)
(* (two pixels) old, although no reset clears X_Disp and Y_Disp.           *)
(***************************************************************************)
DisplacementIsFresh ==
  \A g \in Ghosts : ghost[g].direction # "idle" =>
    /\ Abs(ghost[g].X_Disp - (ghost[g].x - pac.x)) <= 2
    /\ Abs(ghost[g].Y_Disp - (ghost[g].y - pac.y)) <= 2

\* The score counts the pellets that are gone, and 1500 is all of them.
ScoreCountsPellets ==
  /\ score = 10 * (Cardinality(PelletCells) - Cardinality(grid_pellet))
  /\ game_over_check <=> grid_pellet = {}

(***************************************************************************)
(* Pellet_Grid also runs outside the game, and Pac-Man's last move may put *)
(* him on a pellet as the game ends: the score may grow in the first frame *)
(* of the end screen, and never once he has been halted.                   *)
(***************************************************************************)
ScoreSettles ==
  [][state = "End" /\ pac.mx = 0 /\ pac.my = 0 /\ state' = "End"
       => UNCHANGED <<score, grid_pellet>>]_vars

(***************************************************************************)
(* The game implements its rules: seen through the FSM's state, the score  *)
(* and whether Pac-Man has a motion, every frame and every reset is a step *)
(* of GameRules or changes nothing it shows, and a won game does end.      *)
(***************************************************************************)
Rules == INSTANCE GameRules WITH
  Best    <- WinScore,
  screen  <- state,
  points  <- score,
  resting <- (pac.mx = 0 /\ pac.my = 0)

KeepsTheRules == Rules!RulesSpec
=============================================================================
