------------------------------- MODULE Picture -------------------------------
(***************************************************************************)
(* Color_Mapper.sv: what is shown at a pixel of the screen.  Which colour  *)
(* a picture has there is data; that some are black is not: such a pixel   *)
(* of a sprite shows the maze, never what is below the sprite.  ROMs and   *)
(* registers delay all colours by a pixel or two, which is left out.       *)
(***************************************************************************)
EXTENDS Game

\* Every pellet is inside the picture of the maze, and four digits show all scores.
ASSUME PictureAssumption ==
  /\ PelletCells \subseteq (Rows \X (0..18))
  /\ WinScore <= 9999

\* Comparisons that name a constant are 32 bits wide, the others 10.
\* Mutant: the position is taken for the upper left corner.
On_FromCorner(s, x, y) ==
  /\ x >= s.x /\ x < s.x + 2 * HalfSize
  /\ y >= s.y /\ y < s.y + 2 * HalfSize

\* ball_on, ghost_on_R, ...
On(s, x, y) ==
  /\ x >= Wrap(s.x - HalfSize) /\ x <= s.x + HalfSize - 1
  /\ y >= s.y - HalfSize + 1 /\ y <= Wrap(s.y + HalfSize)

bounds(x, y) == 72 < y /\ y < 407 /\ 168 < x /\ x < 471

pellCheck(x, y) == (y - 72) % 16 \in {7, 8} /\ (x - 168) % 16 \in {7, 8}

pellet_on(x, y) == Cell(x, y) \in grid_pellet /\ pellCheck(x, y) /\ bounds(x, y)

start_screen_on(x, y) == state = "Intro" /\ 0 < x /\ x <= 639 /\ 0 < y /\ y <= 479

end_screen_on(x, y) == state = "End" /\ 220 <= x /\ x <= 420 /\ 181 < y /\ y <= 299

ghost_on(x, y) == \E g \in Ghosts : On(ghost[g], x, y)

\* Mutant: the tens are not taken off; of 10 and more the code makes a 0.
Digit_NoCarry(i) ==
  CASE i = 1 -> score \div 1000
    [] i = 2 -> (score \div 100) % 10
    [] i = 3 -> IF score \div 10 < 10 THEN score \div 10 ELSE 0
    [] i = 4 -> 0

\* The digits of the score, in boxes from x = 320 on.
Digit(i) == CASE i = 1 -> score \div 1000
              [] i = 2 -> (score \div 100) % 10
              [] i = 3 -> (score \div 10) % 10
              [] i = 4 -> 0

score_bounds(i, x, y) == 54 < y /\ y < 71 /\ 310 + 10 * i < x /\ x < 319 + 10 * i

\* RGB_Display: the first layer that is on at a pixel.
Layer(x, y) ==
  CASE start_screen_on(x, y) -> "start screen"
    [] ~ start_screen_on(x, y) /\ end_screen_on(x, y) -> "end screen"
    [] OTHER ->
         CASE ghost_on(x, y) -> "ghost"
           [] ~ ghost_on(x, y) /\ On(pac, x, y) -> "Pac-Man"
           [] OTHER -> IF pellet_on(x, y) THEN "pellet"
                       ELSE IF bounds(x, y) THEN "maze"
                       ELSE IF \E i \in 1..4 : score_bounds(i, x, y) THEN "score"
                       ELSE "black"

-----------------------------------------------------------------------------
\* Properties.

\* The pixels of a pellet.
Lit(c) == {168 + 16 * c[2] + i : i \in {7, 8}} \X {72 + 16 * c[1] + i : i \in {7, 8}}

Covered(s, p) == On(s, p[1], p[2])

\* The cells that Pac-Man can reach with his sprite, where pictures change.
Around ==
  LET c == Cell(pac.x, pac.y)
  IN  (c[1] - 1..c[1] + 1) \X (c[2] - 1..c[2] + 1)

\* The picture tells the game: Pac-Man's middle is never hidden by a ghost while
\* it runs, a pellet around him is seen if and only if it is left, unless a sprite
\* is over it, and the digits are those of the score.
PictureTellsTheGame ==
  /\ state = "Game" => Layer(pac.x, pac.y) = "Pac-Man"
  /\ state \in {"Start", "Game"} =>
       \A c \in PelletCells \cap Around : \A p \in Lit(c) :
         Layer(p[1], p[2]) \notin {"ghost", "Pac-Man"} =>
           (Layer(p[1], p[2]) = "pellet" <=> c \in grid_pellet)
  /\ score = 1000 * Digit(1) + 100 * Digit(2) + 10 * Digit(3) + Digit(4)
  /\ \A i \in 1..4 : Digit(i) \in 0..9

\* Pellets go where Pac-Man is seen to be: each frame takes those whose pixels
\* he covers, all four, and no pellet of which he covers none.
PelletsGoUnderPacMan ==
  [][/\ \A c \in grid_pellet \ grid_pellet' : \E p \in Lit(c) : Covered(pac, p)
     /\ grid_pellet' # PelletCells =>
          \A c \in grid_pellet' \cap Around : \E p \in Lit(c) : ~ Covered(pac, p)]_vars
=============================================================================
