------------------------------- MODULE Pellets -------------------------------
(***************************************************************************)
(* The pellets, the score and the chomp trigger: the process Pellet_Grid   *)
(* of ball.sv.  It runs at every frame, whatever the state of the FSM.     *)
(***************************************************************************)
EXTENDS Maze, FiniteSets

CONSTANTS
  PelletCells,   \* the pellets a reset lays out
  WinScore       \* the score that ends the game, 1500 in the source

VARIABLES grid_pellet, score, play

ASSUME PelletAssumption ==
  /\ IsFiniteSet(PelletCells)
  /\ WinScore = 10 * Cardinality(PelletCells)

pelletVars == <<grid_pellet, score, play>>

PelletInit ==
  /\ grid_pellet = PelletCells
  /\ score = 0
  /\ play = FALSE

\* Mutant: a reset lays out the pellets but keeps the score.
PelletReset_KeepsScore ==
  /\ grid_pellet' = PelletCells
  /\ UNCHANGED <<score, play>>

\* play is not among the registers a reset initialises.
PelletReset ==
  /\ grid_pellet' = PelletCells
  /\ score' = 0
  /\ UNCHANGED play

Eat(cell) ==
  /\ cell \in grid_pellet
  /\ grid_pellet' = grid_pellet \ {cell}
  /\ score' = score + 10
  /\ play' = TRUE

Quiet(cell) ==
  /\ cell \notin grid_pellet
  /\ play' = FALSE
  /\ UNCHANGED <<grid_pellet, score>>

PelletFrame(p) == Eat(Cell(p.x, p.y)) \/ Quiet(Cell(p.x, p.y))

game_over_check == score = WinScore
=============================================================================
