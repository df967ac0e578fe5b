------------------------------- MODULE Chase -------------------------------
(***************************************************************************)
(* The chase of a Pac-Man who stands still.  While the game is played the  *)
(* ghosts read where he is in each frame, and nothing else of him; the     *)
(* game is over when one has caught him.                                   *)
(***************************************************************************)
EXTENDS Ghosts

VARIABLES
  stands,   \* does Pac-Man stand still?  If not, he may be anywhere
  place     \* where he stands: in the middle of a cell of the corridor

chaseVars == <<ghost, stands, place>>

Beside(c, d) == <<c[1] + DY(d), c[2] + DX(d)>>

\* One gets from cell b to cell c by going in direction d only.
InLineBefore(b, c, d) ==
  IF d \in Sideways THEN b[1] = c[1] /\ (c[2] - b[2]) * DX(d) > 0
                    ELSE b[2] = c[2] /\ (c[1] - b[1]) * DY(d) > 0

\* At least two ways lead on, or one that faces all of the corridor in line.
WaysLeadOn ==
  \A c \in Corridor : \E d \in Dirs :
    /\ Beside(c, d) \notin grid_wall
    /\ \/ \E e \in Dirs \ {d} : Beside(c, e) \notin grid_wall
       \/ \A b \in Corridor : ~ InLineBefore(b, c, d)

\* A chaser, which sets off sideways, starts in a cell that is open sideways.
StartsInAWay ==
  \A g \in Ghosts \ Patrol : \E d \in Sideways :
    Beside(Cell(GhostCenter[g].x, GhostCenter[g].y), d) \notin grid_wall

ASSUME ChaseAssumption == WaysLeadOn /\ StartsInAWay

ChaseFrame(key, p) ==
  /\ stands => p = place /\ \A g \in Ghosts : ~ Caught(g, p)
  /\ GhostMove("Game", key, p)
  /\ UNCHANGED <<stands, place>>

ChaseReset == GhostReset /\ UNCHANGED <<stands, place>>

ChaseInit ==
  /\ GhostInit
  /\ stands \in BOOLEAN
  /\ place \in { p \in [x : 0..1023, y : 0..1023] :
                   Centred(p) /\ Cell(p.x, p.y) \in Corridor }

ChaseNext ==
  \/ ChaseReset
  \/ \E key \in Dirs \cup {"none"}, p \in [x : 0..1023, y : 0..1023] : ChaseFrame(key, p)

ChaseSpec == ChaseInit /\ [][ChaseNext]_chaseVars

(***************************************************************************)
(* A ghost that chases a Pac-Man who stands still never comes to a stop    *)
(* before one has caught him, wherever he stands: at every corner and      *)
(* crossing it gets to, one of the four ways passes its lookups.  (A       *)
(* Pac-Man who moves can stop it.)                                         *)
(***************************************************************************)
ChaserKeepsMoving ==
  stands /\ (\A g \in Ghosts : ~ Caught(g, place)) =>
    \A g \in Ghosts \ Patrol :
      ghost[g].direction # "idle" => Chosen(g, ghost[g]) # "none"
=============================================================================
