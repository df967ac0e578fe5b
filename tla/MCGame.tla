------------------------------- MODULE MCGame -------------------------------
(***************************************************************************)
(* The whole game in a small maze: a ring of corridors with a crossing at  *)
(* one corner, from which two dead ends leave.                             *)
(***************************************************************************)
EXTENDS Game

SmallCorridor ==
  {            <<1, 2>>,
    <<2, 1>>, <<2, 2>>, <<2, 3>>, <<2, 4>>,
               <<3, 2>>,           <<3, 4>>,
               <<4, 2>>, <<4, 3>>, <<4, 4>> }

SmallWalls == ((0..5) \X (0..5)) \ SmallCorridor

\* The centre of a cell: the sprites of the real maze start there as well.
CentreOf(c) == [x |-> 168 + 16 * c[2] + 8, y |-> 72 + 16 * c[1] + 7]

SmallPellets == { <<2, 3>>, <<4, 2>> }

SmallCenters == [g \in Ghosts |-> CentreOf(IF g = "p" THEN <<2, 1>> ELSE <<3, 2>>)]
SmallDirections == [g \in Ghosts |-> IF g = "p" THEN "right" ELSE "left"]
=============================================================================
