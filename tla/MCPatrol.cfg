CONSTANTS
  grid_wall <- RealWalls
  Corridor <- RealCorridor
  Ghosts = {"r","o"}
  Patrol = {"r","o"}
  GhostCenter <- RealCenters
  start_direction <- RealDirections
SPECIFICATION PatrolSpec
INVARIANTS
  PatrolKeepsToTheMiddle
PROPERTIES
  PatrolGoesRound
