CONSTANTS
  grid_wall <- SmallWalls
  Corridor <- SmallCorridor
  Ball_X_Center = 240
  Ball_Y_Center = 143
  Ghosts = {"p"}
  Patrol = {}
  GhostCenter <- SmallCenters
  start_direction <- SmallDirections
  PelletCells <- SmallPellets
  WinScore = 20
SPECIFICATION Spec
INVARIANTS
  NoPassThrough
  EndHasCause
  DisplacementIsFresh
  ScoreCountsPellets
PROPERTIES
  EvenStart
