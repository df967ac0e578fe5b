CONSTANTS
  grid_wall <- RealWalls
  Corridor <- RealCorridor
  Ball_X_Center = 320
  Ball_Y_Center = 255
  Ghosts <- RealGhosts
  Patrol <- RealPatrol
  GhostCenter <- RealCenters
  start_direction <- RealDirections
  PelletCells <- RealPellets
  WinScore = 1500
  MaxFrames = 250
SPECIFICATION PlayerSpec
INVARIANTS
  EvenPace
  PictureTellsTheGame
PROPERTIES
  PelletsGoUnderPacMan
CHECK_DEADLOCK FALSE
