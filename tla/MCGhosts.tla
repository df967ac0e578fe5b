------------------------------ MODULE MCGhosts ------------------------------
(***************************************************************************)
(* The ghosts that patrol the real maze, each on its own round.            *)
(***************************************************************************)
EXTENDS Ghosts, RealMaze

RealCenters == [g \in Ghosts |->
  IF g = "r" THEN [x |-> 320, y |-> 191] ELSE [x |-> 320, y |-> 319]]

RealDirections == [g \in Ghosts |-> IF g = "r" THEN "right" ELSE "left"]

PacCenter == [x |-> 320, y |-> 255]

\* Pac-Man waits at his place.
PatrolMove == \E key \in {"left", "none"} : GhostMove("Game", key, PacCenter)

PatrolSpec ==
  /\ GhostInit
  /\ [][GhostReset \/ PatrolMove]_ghost
  /\ WF_ghost(PatrolMove)

\* Cells at the top, on the right, at the bottom and on the left of the maze.
Stations == { <<3, 10>>, <<5, 17>>, <<19, 10>>, <<17, 1>> }

(***************************************************************************)
(* A patrol is a round trip: from wherever a patrolling ghost is, always   *)
(* turning down before up and right before left as its way is blocked, it  *)
(* passes all four sides of the maze again and again until a reset, and    *)
(* neither stops nor ends up in a short cycle in a corner.                 *)
(***************************************************************************)
PatrolGoesRound ==
  \A g \in Patrol : \A c \in Stations :
    ghost[g].direction # "idle" ~>
      \/ ghost[g].direction = "idle"
      \/ Cell(ghost[g].x, ghost[g].y) = c
=============================================================================
