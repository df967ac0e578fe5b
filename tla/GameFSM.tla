------------------------------- MODULE GameFSM -------------------------------
(***************************************************************************)
(* The four screens of the game: module FSM, clocked by the vertical sync. *)
(***************************************************************************)
EXTENDS Naturals

VARIABLE state

States == {"Intro", "Start", "Game", "End"}

FsmInit == state = "Intro"

FsmReset == state' = "Intro"

\* Mutant: the end screen is left by enter, as the intro is.
FsmFrame_Again(start_screen_check, start_check, caught_check, game_over_check) ==
  state' = CASE state \in {"Intro", "End"} /\ start_screen_check -> "Start"
             [] state = "Start" /\ start_check -> "Game"
             [] state = "Game" /\ (caught_check \/ game_over_check) -> "End"
             [] OTHER -> state

\* The conditions that leave each screen; End is left only by a reset.
FsmFrame(start_screen_check, start_check, caught_check, game_over_check) ==
  state' = CASE state = "Intro" /\ start_screen_check -> "Start"
             [] state = "Start" /\ start_check -> "Game"
             [] state = "Game" /\ (caught_check \/ game_over_check) -> "End"
             [] OTHER -> state
=============================================================================
