------------------------------ MODULE MCAlone ------------------------------
(***************************************************************************)
(* Parts of the game alone.  In the real maze: Pac-Man moves, on any       *)
(* screen and with any keys; a ghost chases a Pac-Man who may be anywhere  *)
(* in each frame; or it chases one who stands still, at any place of the   *)
(* corridor.  What a ghost makes of him is on which side of it he is on    *)
(* each axis, so when he may be anywhere positions next to it stand for    *)
(* all.  Besides, the player of the chomp, and the scan of the screen.     *)
(***************************************************************************)
EXTENDS Pacman, Chase, RealMaze, Chomp, Scan

VARIABLE part

RealCenters == [g \in Ghosts |-> [x |-> 240, y |-> 127]]
RealDirections == [g \in Ghosts |-> "left"]

Sides == { -1, 0, 1 }

PacMoves ==
  /\ part = "steer"
  /\ PacNext
  /\ UNCHANGED <<chaseVars, chompVars, scanVars>>

\* Where Pac-Man may be for ghost g: where he stands, or on any side of it.
Seen(g) ==
  IF stands THEN {place}
  ELSE { [x |-> ghost[g].x + dx, y |-> ghost[g].y + dy] : dx \in Sides, dy \in Sides }

GhostChases ==
  /\ part = "chase"
  /\ \/ ChaseReset
     \/ \E g \in Ghosts :
          \E key \in IF ghost[g].direction = "idle" THEN {"left", "none"} ELSE {"none"},
             p \in Seen(g) : ChaseFrame(key, p)
  /\ UNCHANGED <<pac, chompVars, scanVars>>

Chomps == part = "chomp" /\ ChompNext /\ UNCHANGED <<pac, chaseVars, scanVars>>

Scans ==
  /\ part = "scan"
  /\ PixelClock \/ ScanReset
  /\ UNCHANGED <<pac, chaseVars, chompVars>>

Places == { [x |-> 176 + 16 * c[2], y |-> 79 + 16 * c[1]] : c \in RealCorridor }

AloneInit ==
  /\ part \in {"steer", "chase", "chomp", "scan"}
  /\ PacInit /\ GhostInit /\ ChompInit /\ ScanInit
  /\ part # "chomp" => late = FALSE
  /\ stands \in IF part = "chase" THEN BOOLEAN ELSE {FALSE}
  /\ place \in IF stands THEN Places ELSE {GhostCenter[g] : g \in Ghosts}

AloneNext == (PacMoves \/ GhostChases \/ Chomps \/ Scans) /\ UNCHANGED part

AloneSpec == AloneInit /\ [][AloneNext]_<<pac, chaseVars, chompVars, scanVars, part>>
=============================================================================
