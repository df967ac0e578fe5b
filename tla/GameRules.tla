------------------------------ MODULE GameRules ------------------------------
(***************************************************************************)
(* What the player is promised: the abstract specification of the game,    *)
(* without a maze, ghosts or pellets.  The screens follow each other in    *)
(* one direction, points come in tens, only to a Pac-Man who is moving,    *)
(* and a game in which all points have been made is over.                  *)
(***************************************************************************)
EXTENDS Naturals

CONSTANT Best       \* the points of all pellets together

VARIABLES
  screen,    \* the screen shown
  points,    \* the score shown
  resting    \* Pac-Man has no motion

rulesVars == <<screen, points, resting>>

\* Points are made one pellet at a time, and only on the move.
Gain ==
  /\ points' \in {points, points + 10}
  /\ points' <= Best
  /\ resting => points' = points

Opening == screen = "Intro" /\ points = 0 /\ resting = TRUE

Open  == screen = "Intro" /\ screen' = "Start" /\ UNCHANGED <<points, resting>>
Begin == screen = "Start" /\ screen' = "Game"  /\ UNCHANGED <<points, resting>>

\* A frame of the game: it may be the last one, if Pac-Man has been caught.
Play ==
  /\ screen = "Game" /\ points # Best
  /\ screen' \in {"Game", "End"}
  /\ resting' \in BOOLEAN
  /\ Gain

\* All points are made: this frame is the last.
Win ==
  /\ screen = "Game" /\ points = Best
  /\ screen' = "End"
  /\ resting' \in BOOLEAN
  /\ UNCHANGED points

\* Pac-Man stops, and what he has just reached still counts.
Settle ==
  /\ screen = "End" /\ ~ resting /\ resting' = TRUE
  /\ Gain
  /\ UNCHANGED screen

NewGame == screen' = "Intro" /\ points' = 0 /\ resting' = TRUE

RulesNext == Open \/ Begin \/ Play \/ Win \/ Settle \/ NewGame

RulesSafety == Opening /\ [][RulesNext]_rulesVars

\* A won game does not go on, and Pac-Man does not stay on the move at its end.
RulesLiveness ==
  /\ screen = "Game" /\ points = Best ~> screen # "Game"
  /\ screen = "End" /\ ~ resting ~> resting

RulesSpec == RulesSafety /\ RulesLiveness
=============================================================================
