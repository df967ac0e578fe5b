CONSTANTS
  grid_wall <- LaneWalls
  Corridor <- LaneCorridor
  Ball_X_Center = 208
  Ball_Y_Center = 95
  Ghosts = {"p"}
  Patrol = {}
  GhostCenter <- LaneCenters
  start_direction <- LaneDirections
  PelletCells <- LanePellets
  WinScore = 20
SPECIFICATION Spec
PROPERTIES
  KeepsTheRules
