------------------------------ MODULE MCRules ------------------------------
(***************************************************************************)
(* The whole game in a short lane, small enough for its liveness: Pac-Man  *)
(* between two pellets, with a ghost behind the one on the right.          *)
(***************************************************************************)
EXTENDS Game

LaneCorridor == {1} \X (1..5)
LaneWalls == ((0..2) \X (0..6)) \ LaneCorridor
LanePellets == { <<1, 1>>, <<1, 4>> }
LaneCenters == [g \in Ghosts |-> [x |-> 256, y |-> 95]]
LaneDirections == [g \in Ghosts |-> "left"]
============================================================================
