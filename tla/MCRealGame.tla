----------------------------- MODULE MCRealGame -----------------------------
(***************************************************************************)
(* The game as it is shipped, real maze and four ghosts, played by somebody*)
(* who holds a key down until a wall stops Pac-Man and then picks any of   *)
(* the open directions, for MaxFrames frames of the game.                  *)
(***************************************************************************)
EXTENDS Picture, RealMaze

CONSTANT MaxFrames   \* bound on the length of a play: 60 frames a second

(***************************************************************************)
(* The key that is held, the frames so far and, for each ghost, how many   *)
(* pixels further than the ghost Pac-Man has come: a history variable.     *)
(***************************************************************************)
VARIABLES held, frames, lead

RealGhosts == {"r", "p", "b", "o"}
RealPatrol == {"r", "o"}

RealCenters == [g \in Ghosts |->
  CASE g = "r" -> [x |-> 320, y |-> 191] [] g = "p" -> [x |-> 240, y |-> 127]
    [] g = "b" -> [x |-> 400, y |-> 127] [] g = "o" -> [x |-> 320, y |-> 319]]

RealDirections == [g \in Ghosts |-> IF g \in {"r", "b"} THEN "right" ELSE "left"]

PlayerInit == Init /\ held = "enter" /\ frames = 0 /\ lead = [g \in Ghosts |-> 0]

\* The pixels that a sprite moves in a step.
Pixels(s, t) == Abs(s.x - t.x) + Abs(s.y - t.y)

Hold ==
  /\ frames < MaxFrames
  /\ state = "Game" => CanSteer(held)
  /\ Frame(held)
  /\ frames' = frames + 1
  /\ lead' = [g \in Ghosts |->
                lead[g] + Pixels(pac, pac') - Pixels(ghost[g], ghost'[g])]
  /\ UNCHANGED held

Change(key) ==
  /\ \/ state = "Start" /\ held = "enter"
     \/ state = "Game" /\ ~ CanSteer(held) /\ CanSteer(key)
  /\ held' = key
  /\ UNCHANGED <<vars, frames, lead>>

PlayerNext == Hold \/ \E key \in Dirs : Change(key)

PlayerSpec == PlayerInit /\ [][PlayerNext]_<<vars, held, frames, lead>>

-----------------------------------------------------------------------------
(***************************************************************************)
(* The chase is even: against a player who never stops at a wall, every    *)
(* ghost has come one pixel less far than Pac-Man, from his first pixel to *)
(* the end of the play.  It takes its direction in the frame in which he   *)
(* takes his motion, its motion in the next, in which he moves, and moves  *)
(* in the third (ghost.sv:95-103, 208, ball.sv:171-175); from then on it   *)
(* neither gains nor loses a pixel at any turn or crossing.                *)
(***************************************************************************)
EvenPace ==
  \A g \in Ghosts :
    /\ lead[g] \in {0, 1}
    /\ Pixels(pac, PacAtStart) > 0 => lead[g] = 1
=============================================================================
