CONSTANTS
  grid_wall <- RealWalls
  Corridor <- RealCorridor
  Ball_X_Center = 320
  Ball_Y_Center = 255
  Ghosts = {"p"}
  Patrol = {}
  GhostCenter <- RealCenters
  start_direction <- RealDirections
  Samples = 10
  Bits = 4
  hpixels = 799
  vlines = 524
  HDisplay = 640
  VDisplay = 480
  HSyncFrom = 656
  HSyncTo = 752
  VSync = 490
SPECIFICATION AloneSpec
INVARIANTS
  PacStaysInCorridor
  GhostsStayInCorridor
  ChaserKeepsMoving
  EarsAgree
PROPERTIES
  ChompPlaysThrough
