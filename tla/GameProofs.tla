----------------------------- MODULE GameProofs -----------------------------
(***************************************************************************)
(* The game as a whole: the invariants of Game.tla for every maze, every   *)
(* number of ghosts and every layout of pellets, and the proof that the    *)
(* game implements the safety part of GameRules.                           *)
(***************************************************************************)
EXTENDS Picture, SpritesProofs, FiniteSetTheorems

\* The pellets: the score counts those that are gone, for every layout.

\* The part of the invariant that is about the pellets' own registers.
PelletInv ==
  /\ grid_pellet \subseteq PelletCells
  /\ score \in Nat
  /\ play \in BOOLEAN
  /\ score = 10 * (Cardinality(PelletCells) - Cardinality(grid_pellet))

\* Any set of remaining pellets is finite and no larger than the layout.
LEMMA PelletCount ==
  ASSUME NEW S, S \subseteq PelletCells
  PROVE  /\ IsFiniteSet(S)
         /\ Cardinality(PelletCells) \in Nat
         /\ Cardinality(S) \in Nat
         /\ Cardinality(S) <= Cardinality(PelletCells)
         /\ Cardinality(S) = 0 <=> S = {}
<1>1. IsFiniteSet(PelletCells)
  BY PelletAssumption
<1>2. IsFiniteSet(S) /\ Cardinality(S) <= Cardinality(PelletCells)
  BY <1>1, FS_Subset
<1> QED BY <1>1, <1>2, FS_CardinalityType, FS_EmptySet

\* The game starts with the whole layout and no score.
LEMMA PelletInitInv == ASSUME PelletInit PROVE PelletInv
<1>1. Cardinality(PelletCells) \in Nat
  BY PelletCount
<1>2. play \in BOOLEAN
  BY Zenon DEF PelletInit
<1>3. score = 0 /\ grid_pellet = PelletCells
  BY DEF PelletInit
<1>4. score = 10 * (Cardinality(PelletCells) - Cardinality(grid_pellet)) /\ score \in Nat
  BY <1>1, <1>3
<1> QED BY <1>2, <1>3, <1>4 DEF PelletInv

\* A reset restores both together.
LEMMA PelletResetInv == ASSUME PelletInv, PelletReset PROVE PelletInv'
<1>1. Cardinality(PelletCells) \in Nat
  BY PelletCount
<1> QED BY <1>1 DEF PelletReset, PelletInv

\* A frame takes at most the pellet under Pac-Man, and pays for it.
LEMMA PelletFrameInv ==
  ASSUME PelletInv, NEW p, PelletFrame(p)
  PROVE  /\ PelletInv'
         /\ score' \in {score, score + 10}
         /\ Cell(p.x, p.y) \notin grid_pellet'
         /\ grid_pellet' \subseteq grid_pellet
         /\ Cell(p.x, p.y) \notin grid_pellet => UNCHANGED <<score, grid_pellet>>
<1> DEFINE c == Cell(p.x, p.y)
<1> HIDE DEF c
<1>1. CASE Eat(c)
  <2>1. /\ IsFiniteSet(grid_pellet)
        /\ Cardinality(grid_pellet) \in Nat /\ Cardinality(PelletCells) \in Nat
    BY PelletCount DEF PelletInv
  <2>2. c \in grid_pellet /\ grid_pellet' = grid_pellet \ {c} /\ score' = score + 10
        /\ play' = TRUE
    BY <1>1 DEF Eat
  <2>3. Cardinality(grid_pellet') = Cardinality(grid_pellet) - 1
    BY <2>1, <2>2, FS_RemoveElement
  <2>4. score' = 10 * (Cardinality(PelletCells) - Cardinality(grid_pellet'))
    BY <2>1, <2>2, <2>3 DEF PelletInv
  <2>5. PelletInv'
    BY <2>2, <2>4 DEF PelletInv
  <2> QED BY <2>2, <2>5 DEF c
<1>2. CASE Quiet(c)
  BY <1>2 DEF Quiet, PelletInv, c
<1> QED BY <1>1, <1>2 DEF PelletFrame, c

\* The score the FSM compares with is that of an empty maze.
LEMMA GameOverMeansEmpty ==
  ASSUME PelletInv
  PROVE  /\ game_over_check <=> grid_pellet = {}
         /\ score <= WinScore
<1>1. /\ Cardinality(grid_pellet) \in Nat /\ Cardinality(PelletCells) \in Nat
      /\ Cardinality(grid_pellet) <= Cardinality(PelletCells)
      /\ Cardinality(grid_pellet) = 0 <=> grid_pellet = {}
  BY PelletCount DEF PelletInv
<1>2. score = 10 * (Cardinality(PelletCells) - Cardinality(grid_pellet))
  BY DEF PelletInv
<1>3. WinScore = 10 * Cardinality(PelletCells)
  BY PelletAssumption
<1> QED BY <1>1, <1>2, <1>3 DEF game_over_check

-----------------------------------------------------------------------------
\* The game.

Resting == pac.mx = 0 /\ pac.my = 0

\* A Pac-Man who does not move has eaten what is under him.
RestsOnNothing == Resting => Cell(pac.x, pac.y) \notin grid_pellet

\* Nothing moves before the game has begun.
RestsBeforeGame == state \in {"Intro", "Start"} => Resting

\* Ghosts that wait do so all together, at their places, with Pac-Man at his.
WaitTogether ==
  \A g \in Ghosts : ghost[g].direction = "idle" =>
    /\ pac = PacAtStart
    /\ ghost[g].x = GhostCenter[g].x /\ ghost[g].y = GhostCenter[g].y
    /\ \A f \in Ghosts : ghost[f].direction = "idle"

GameInv ==
  /\ state \in States
  /\ PacInv
  /\ GhostsInv
  /\ PelletInv
  /\ RestsOnNothing
  /\ RestsBeforeGame
  /\ NoPassThrough
  /\ EndHasCause
  /\ WaitTogether
  /\ DisplacementIsFresh

-----------------------------------------------------------------------------
\* What a frame may do to Pac-Man's registers.
LEMMA PacStep ==
  ASSUME PacInv, NEW st \in States, NEW key, PacFrame(st, key)
  PROVE  /\ pac.x \in Int /\ pac.y \in Int /\ pac'.x \in Int /\ pac'.y \in Int
         /\ pac'.x - pac.x \in -1..1 /\ pac'.y - pac.y \in -1..1
         /\ st # "Game" \/ Resting => pac'.x = pac.x /\ pac'.y = pac.y
         /\ st \in {"End", "Intro"} => Resting'
         /\ st = "Start" => pac' = pac
         /\ st = "Game" => pac' = pac \/ (key \in Dirs /\ ~ Resting')
<1>1. /\ pac.x \in Int /\ pac.y \in Int
      /\ pac.mx \in -1..1 /\ pac.my \in -1..1
      /\ pac = [x |-> pac.x, y |-> pac.y, mx |-> pac.mx, my |-> pac.my]
  BY PacFields DEF PacInv
<1>2. CASE PacHalt(st)
  <2>1. pac' = [pac EXCEPT !.mx = 0, !.my = 0]
    BY <1>2 DEF PacHalt
  <2>2. pac' = [x |-> pac.x, y |-> pac.y, mx |-> 0, my |-> 0]
    BY <2>1, <1>1
  <2> QED BY <1>1, <1>2, <2>2 DEF PacHalt, Resting
<1>3. CASE PacSteer(st, key)
  <2>1. st = "Game" /\ key \in Dirs
    BY <1>3 DEF PacSteer
  <2>2. /\ pac'.x = Wrap(pac.x + pac.mx) /\ pac'.y = Wrap(pac.y + pac.my)
        /\ pac'.mx = DX(key) /\ pac'.my = DY(key)
    BY <1>3 DEF PacSteer
  <2>3. pac.x + pac.mx \in 188..467 /\ pac.y + pac.my \in 92..387
    <3> DEFINE a == pac.x + pac.mx
               b == pac.y + pac.my
    <3>1. Within([x |-> a, y |-> b], 4)
      BY DEF PacInv, Ahead
    <3>2. a \in Int /\ b \in Int
      BY <1>1
    <3> HIDE DEF a, b
    <3>3. a \in 188..467 /\ b \in 92..387
      BY <3>1, <3>2, WithinBounds
    <3> QED BY <3>3 DEF a, b
  <2>4. pac'.x = pac.x + pac.mx /\ pac'.y = pac.y + pac.my
    BY <2>2, <2>3 DEF Wrap
  <2>5. ~ (DX(key) = 0 /\ DY(key) = 0)
    BY <2>1 DEF Dirs, DX, DY
  <2> QED BY <1>1, <2>1, <2>2, <2>4, <2>5 DEF Resting
<1>4. CASE PacHold(st, key)
  BY <1>1, <1>4 DEF PacHold, Resting
<1>5. CASE PacWait(st)
  BY <1>1, <1>5 DEF PacWait, Resting
<1> QED BY <1>2, <1>3, <1>4, <1>5 DEF PacFrame

\* What a frame may do to the registers of one ghost.
LEMMA GhostStep ==
  ASSUME GhostsInv, NEW st \in States, NEW key, NEW p, GhostFrame(st, key, p),
         NEW g \in Ghosts
  PROVE  LET h == ghost[g]
             n == ghost'[g]
         IN  /\ h.x \in Int /\ h.y \in Int /\ n.x \in Int /\ n.y \in Int
             /\ h.X_Disp \in Int /\ h.Y_Disp \in Int
             /\ n.x - h.x \in -1..1 /\ n.y - h.y \in -1..1
             /\ st # "Game" \/ h.direction = "idle" => n.x = h.x /\ n.y = h.y
             /\ st # "Game" => n.direction = h.direction
                               /\ n.X_Disp = h.X_Disp /\ n.Y_Disp = h.Y_Disp
             /\ st = "Game" => n.X_Disp = h.x - p.x /\ n.Y_Disp = h.y - p.y
             /\ st = "Game" /\ n.direction = "idle" => h.direction = "idle" /\ key \notin Dirs
<1> DEFINE h == ghost[g]
           n == ghost'[g]
<1>1. GhostInv(g, h)
  BY DEF GhostsInv
<1>2. h \in GhostType
  BY <1>1 DEF GhostInv
<1>3. /\ h.x \in Int /\ h.y \in Int /\ h.mx \in -1..1 /\ h.my \in -1..1
      /\ h.direction \in Dirs \cup {"idle"} /\ h.X_Disp \in Int /\ h.Y_Disp \in Int
      /\ h = [x |-> h.x, y |-> h.y, mx |-> h.mx, my |-> h.my,
              direction |-> h.direction, X_Disp |-> h.X_Disp, Y_Disp |-> h.Y_Disp]
  BY <1>2, GhostFields
<1>4. CASE GhostHalt(st)
  <2>1. n = [h EXCEPT !.mx = 0, !.my = 0] /\ st # "Game"
    BY <1>4 DEF GhostHalt
  <2> HIDE DEF h, n
  <2>2. /\ n.x = h.x /\ n.y = h.y /\ n.direction = h.direction
        /\ n.X_Disp = h.X_Disp /\ n.Y_Disp = h.Y_Disp
    BY <2>1, <1>3
  <2>3. n.x \in Int /\ n.y \in Int /\ n.x - h.x \in -1..1 /\ n.y - h.y \in -1..1
    BY <2>2, <1>3
  <2> QED BY <1>3, <2>1, <2>2, <2>3 DEF h, n
<1>5. CASE GhostMove(st, key, p)
  <2> DEFINE s == Steered(g, h, key)
  <2>1. n = Moved(g, h, key, p) /\ st = "Game"
    BY <1>5 DEF GhostMove
  <2>2. Moved(g, h, key, p) =
          [x |-> h.x + h.mx, y |-> h.y + h.my, mx |-> s.mx, my |-> s.my,
           direction |-> s.direction,
           X_Disp |-> h.x - p.x, Y_Disp |-> h.y - p.y]
    BY <1>1, MovedRegisters
  <2>3. s.direction = "idle" => h.direction = "idle" /\ key \notin Dirs
    <3>1. CASE h.direction = "idle"
      <4>1. CASE key \in Dirs
        <5>1. s = [h EXCEPT !.direction = start_direction[g]]
          BY <3>1, <4>1 DEF Steered
        <5>2. start_direction[g] \in Sideways
          BY GhostAssumption
        <5> HIDE DEF h, s
        <5>3. s.direction = start_direction[g]
          BY <5>1, <1>3
        <5> QED BY <5>2, <5>3 DEF Sideways
      <4>2. CASE key \notin Dirs
        BY <3>1, <4>2
      <4> QED BY <4>1, <4>2
    <3>2. CASE h.direction # "idle"
      <4>1. h.direction \in Dirs
        BY <1>3, <3>2
      <4>2. s.direction = IF Chosen(g, h) = "none" THEN h.direction ELSE Chosen(g, h)
        BY <1>2, <4>1, SteeredMotion
      <4>3. Chosen(g, h) = "none" \/ Chosen(g, h) \in Dirs
        BY <4>1, ChosenTakes
      <4> HIDE DEF h, s
      <4> QED BY <4>1, <4>2, <4>3 DEF Dirs
    <3> QED BY <3>1, <3>2
  <2>4. h.direction = "idle" => h.mx = 0 /\ h.my = 0
    BY <1>1 DEF GhostInv, Still
  <2> HIDE DEF h, n, s
  <2>5. /\ n.x = h.x + h.mx /\ n.y = h.y + h.my /\ n.direction = s.direction
        /\ n.X_Disp = h.x - p.x /\ n.Y_Disp = h.y - p.y
    BY <2>1, <2>2
  <2>6. n.x \in Int /\ n.y \in Int /\ n.x - h.x \in -1..1 /\ n.y - h.y \in -1..1
    BY <2>5, <1>3
  <2>7. h.direction = "idle" => n.x = h.x /\ n.y = h.y
    BY <2>4, <2>5, <1>3
  <2> QED BY <1>3, <2>1, <2>3, <2>5, <2>6, <2>7 DEF h, n
<1>6. CASE GhostWait(st)
  <2>1. n = h /\ st # "Game"
    BY <1>6 DEF GhostWait
  <2> HIDE DEF h, n
  <2>2. n.x - h.x \in -1..1 /\ n.y - h.y \in -1..1
    BY <2>1, <1>3
  <2> QED BY <1>3, <2>1, <2>2 DEF h, n
<1> QED BY <1>4, <1>5, <1>6 DEF GhostFrame

\* A waiting ghost stays, without a motion, and waits on unless the game runs
\* and a steering key is down.
LEMMA IdleStep ==
  ASSUME GhostsInv, NEW st \in States, NEW key, NEW p, GhostFrame(st, key, p),
         NEW g \in Ghosts, ghost[g].direction = "idle"
  PROVE  LET n == ghost'[g]
         IN  /\ n.x = ghost[g].x /\ n.y = ghost[g].y
             /\ n.mx = 0 /\ n.my = 0
             /\ n.direction = "idle" <=> st # "Game" \/ key \notin Dirs
<1> DEFINE h == ghost[g]
           n == ghost'[g]
<1>1. GhostInv(g, h)
  BY DEF GhostsInv
<1>2. h \in GhostType /\ h.mx = 0 /\ h.my = 0
  BY <1>1 DEF GhostInv, Still
<1>3. h = [x |-> h.x, y |-> h.y, mx |-> h.mx, my |-> h.my,
           direction |-> h.direction, X_Disp |-> h.X_Disp, Y_Disp |-> h.Y_Disp]
  BY <1>2, GhostFields
<1>4. n.x = h.x /\ n.y = h.y
  BY GhostStep
<1>5. n.direction = "idle" => st # "Game" \/ key \notin Dirs
  BY GhostStep
<1>6. CASE GhostHalt(st)
  <2>1. n = [h EXCEPT !.mx = 0, !.my = 0] /\ st # "Game"
    BY <1>6 DEF GhostHalt
  <2> HIDE DEF h, n
  <2>2. n.mx = 0 /\ n.my = 0 /\ n.direction = h.direction
    BY <2>1, <1>3
  <2> QED BY <1>4, <2>1, <2>2 DEF h, n
<1>7. CASE GhostMove(st, key, p)
  <2> DEFINE s == Steered(g, h, key)
  <2>1. n = Moved(g, h, key, p) /\ st = "Game"
    BY <1>7 DEF GhostMove
  <2>2. n.mx = s.mx /\ n.my = s.my /\ n.direction = s.direction
    <3>1. Moved(g, h, key, p) =
            [x |-> h.x + h.mx, y |-> h.y + h.my, mx |-> s.mx, my |-> s.my,
             direction |-> s.direction,
             X_Disp |-> h.x - p.x, Y_Disp |-> h.y - p.y]
      BY <1>1, MovedRegisters
    <3> HIDE DEF s, n
    <3> QED BY <2>1, <3>1
  <2>3. s.mx = h.mx /\ s.my = h.my
    BY <1>2, SteeredIdle
  <2>4. key \notin Dirs => s = h
    BY DEF Steered
  <2> HIDE DEF n, s
  <2>5. key \notin Dirs => n.direction = "idle"
    BY <2>2, <2>4
  <2> QED BY <1>2, <1>4, <1>5, <2>1, <2>2, <2>3, <2>5 DEF n
<1>8. CASE GhostWait(st)
  BY <1>2, <1>4, <1>8 DEF GhostWait
<1> QED BY <1>6, <1>7, <1>8 DEF GhostFrame

\* Pac-Man stays at his start until a frame of the game with a steering key.
LEMMA StaysAtStart ==
  ASSUME pac = PacAtStart, NEW st, NEW key, PacFrame(st, key),
         st # "Game" \/ key \notin Dirs
  PROVE  pac' = PacAtStart
<1>1. CASE PacHalt(st)
  BY <1>1 DEF PacHalt, PacAtStart
<1>2. CASE PacSteer(st, key)
  BY <1>2 DEF PacSteer
<1> QED BY <1>1, <1>2 DEF PacFrame, PacHold, PacWait

-----------------------------------------------------------------------------
\* The places from which every game starts satisfy the invariant.
LEMMA StartOfGame ==
  ASSUME state = "Intro", pac = PacAtStart, grid_pellet = PelletCells,
         GhostsInv, PacInv, PelletInv,
         \A g \in Ghosts : /\ ghost[g].x = GhostCenter[g].x
                           /\ ghost[g].y = GhostCenter[g].y
                           /\ ghost[g].direction = "idle"
  PROVE  GameInv
<1>1. /\ pac.x = Ball_X_Center /\ pac.y = Ball_Y_Center
      /\ pac.mx = 0 /\ pac.my = 0
  BY DEF PacAtStart
<1>2. RestsOnNothing /\ RestsBeforeGame
  BY <1>1, GameAssumption DEF RestsOnNothing, RestsBeforeGame, Resting
<1>3. NoPassThrough
  BY <1>1, GameAssumption DEF NoPassThrough, Apart
<1>4. EndHasCause /\ WaitTogether /\ DisplacementIsFresh
  BY DEF EndHasCause, WaitTogether, DisplacementIsFresh
<1>5. state \in States
  BY DEF States
<1> QED BY <1>2, <1>3, <1>4, <1>5 DEF GameInv

\* The game starts in the invariant.
LEMMA GameInitInv == ASSUME Init PROVE GameInv
<1>1. PacInv /\ GhostsInv /\ PelletInv
  BY PacInitInv, GhostInitInv, PelletInitInv DEF Init
<1>2. \A g \in Ghosts : /\ ghost[g].x = GhostCenter[g].x
                        /\ ghost[g].y = GhostCenter[g].y
                        /\ ghost[g].direction = "idle"
  BY DEF Init, GhostInit, GhostAtStart
<1>3. state = "Intro" /\ pac = PacAtStart /\ grid_pellet = PelletCells
  BY DEF Init, FsmInit, PacInit, PelletInit
<1> QED BY <1>1, <1>2, <1>3, StartOfGame

\* KEY[0] brings every component back into the invariant.
LEMMA GameResetInv == ASSUME GameInv, Reset PROVE GameInv'
<1>1. PacInv' /\ GhostsInv' /\ PelletInv'
  BY PacResetInv, GhostResetInv, PelletResetInv DEF Reset, GameInv
<1>2. \A g \in Ghosts : /\ ghost'[g].x = GhostCenter[g].x
                        /\ ghost'[g].y = GhostCenter[g].y
                        /\ ghost'[g].direction = "idle"
  BY DEF Reset, GhostReset, GhostAtStart
<1>3. state' = "Intro" /\ pac' = PacAtStart /\ grid_pellet' = PelletCells
  BY DEF Reset, FsmReset, PacReset, PelletReset
<1>4. /\ pac'.x = Ball_X_Center /\ pac'.y = Ball_Y_Center
      /\ pac'.mx = 0 /\ pac'.my = 0
  BY <1>3 DEF PacAtStart
<1>5. RestsOnNothing' /\ RestsBeforeGame'
  BY <1>3, <1>4, GameAssumption DEF RestsOnNothing, RestsBeforeGame, Resting
<1>6. NoPassThrough'
  BY <1>2, <1>3, <1>4, GameAssumption DEF NoPassThrough, Apart
<1>7. EndHasCause' /\ WaitTogether' /\ DisplacementIsFresh'
  BY <1>2, <1>3, <1>4 DEF EndHasCause, WaitTogether, DisplacementIsFresh, PacAtStart
<1>8. state' \in States
  BY <1>3 DEF States
<1> QED BY <1>1, <1>5, <1>6, <1>7, <1>8 DEF GameInv

-----------------------------------------------------------------------------
\* The successor of each screen.
LEMMA Screens ==
  ASSUME state \in States, NEW key, Frame(key)
  PROVE  /\ state' \in States
         /\ state' = "Game" => state \in {"Start", "Game"}
         /\ state' = "End" => state = "End" \/ (state = "Game" /\ (caught_check \/ game_over_check))
         /\ state = "End" => state' = "End"
         /\ state = "Game" => state' = IF caught_check \/ game_over_check THEN "End" ELSE "Game"
         /\ state' \in {"Intro", "Start"} => state \in {"Intro", "Start"}
         /\ state' = "Intro" => state = "Intro"
         /\ state = "Intro" => state' \in {"Intro", "Start"}
         /\ state = "Start" => state' \in {"Start", "Game"}
BY DEF Frame, FsmFrame, States

\* All components of a frame keep their invariants.
LEMMA FrameComponents ==
  ASSUME GameInv, NEW key, Frame(key)
  PROVE  PacInv' /\ GhostsInv' /\ PelletInv'
<1>1. pac.x \in Int /\ pac.y \in Int
  BY PacStep DEF GameInv, Frame
<1> QED BY <1>1, PacFrameInv, GhostFrameInv, PelletFrameInv DEF GameInv, Frame

\* Pac-Man leaves no pellet under him, and rests on the screens before the game.
LEMMA FrameRests ==
  ASSUME GameInv, NEW key, Frame(key)
  PROVE  RestsOnNothing' /\ RestsBeforeGame'
<1>1. /\ Cell(pac.x, pac.y) \notin grid_pellet'
      /\ grid_pellet' \subseteq grid_pellet
  BY PelletFrameInv DEF GameInv, Frame
<1>2. /\ state # "Game" \/ Resting => pac'.x = pac.x /\ pac'.y = pac.y
      /\ state \in {"End", "Intro"} => Resting'
      /\ state = "Start" => pac' = pac
      /\ state = "Game" => pac' = pac \/ (key \in Dirs /\ ~ Resting')
  BY PacStep DEF GameInv, Frame
<1>3. state \in States /\ (state' \in {"Intro", "Start"} => state \in {"Intro", "Start"})
  BY Screens DEF GameInv
<1>4. RestsOnNothing'
  <2> SUFFICES ASSUME Resting' PROVE Cell(pac'.x, pac'.y) \notin grid_pellet'
    BY DEF RestsOnNothing
  <2>1. pac'.x = pac.x /\ pac'.y = pac.y
    BY <1>2, <1>3 DEF States
  <2> QED BY <1>1, <2>1
<1>5. RestsBeforeGame'
  <2>1. state = "Start" /\ pac' = pac => Resting'
    BY DEF GameInv, RestsBeforeGame, Resting
  <2> QED BY <1>2, <1>3, <2>1 DEF RestsBeforeGame
<1> QED BY <1>4, <1>5

-----------------------------------------------------------------------------
\* A ghost at v and Pac-Man at w on some axis, a frame later at vn and wn.
AxisStep(v, w, vn, wn) ==
  /\ Abs(v - w) >= 12 => Abs(vn - wn) >= 10
  /\ Abs(v - w) >= 14 => Abs(vn - wn) >= 12
  /\ Near(v, w) => ~ (Abs(vn - wn) >= 16)
  /\ ~ Near(v, w) => Abs(v - w) >= 14
  /\ Abs((v - w) - (vn - wn)) <= 2
  /\ vn = v /\ wn = w => Abs(v - w) = Abs(vn - wn)

\* Two sprites, each of which moves at most a pixel, on one of the axes.
LEMMA OneAxis ==
  ASSUME NEW v \in Int, NEW w \in Int, NEW vn \in Int, NEW wn \in Int,
         vn - v \in -1..1, wn - w \in -1..1
  PROVE  AxisStep(v, w, vn, wn)
BY DEF AxisStep, Abs, Near

\* How a ghost and Pac-Man move against each other in a frame.
LEMMA PairStep ==
  ASSUME GameInv, NEW key, Frame(key), NEW g \in Ghosts
  PROVE  /\ AxisStep(ghost[g].x, pac.x, ghost'[g].x, pac'.x)
         /\ AxisStep(ghost[g].y, pac.y, ghost'[g].y, pac'.y)
         /\ state # "Game" =>
              /\ pac'.x = pac.x /\ pac'.y = pac.y
              /\ ghost'[g].x = ghost[g].x /\ ghost'[g].y = ghost[g].y
<1>1. /\ pac.x \in Int /\ pac.y \in Int /\ pac'.x \in Int /\ pac'.y \in Int
      /\ pac'.x - pac.x \in -1..1 /\ pac'.y - pac.y \in -1..1
      /\ state # "Game" => pac'.x = pac.x /\ pac'.y = pac.y
  BY PacStep DEF GameInv, Frame
<1>2. /\ ghost[g].x \in Int /\ ghost[g].y \in Int
      /\ ghost'[g].x \in Int /\ ghost'[g].y \in Int
      /\ ghost'[g].x - ghost[g].x \in -1..1 /\ ghost'[g].y - ghost[g].y \in -1..1
      /\ state # "Game" => ghost'[g].x = ghost[g].x /\ ghost'[g].y = ghost[g].y
  BY GhostStep DEF GameInv, Frame
<1> QED BY <1>1, <1>2, OneAxis

\* Before the game nothing moves; in it, a ghost that was not noticed is at
\* least 14 pixels away, and what moves comes nearer by at most 2.
LEMMA FrameApart ==
  ASSUME GameInv, NEW key, Frame(key)
  PROVE  NoPassThrough'
<1> SUFFICES ASSUME NEW g \in Ghosts
             PROVE  Apart(g, IF state = "End" THEN 10 ELSE 12)'
  BY DEF NoPassThrough
<1>1. /\ AxisStep(ghost[g].x, pac.x, ghost'[g].x, pac'.x)
      /\ AxisStep(ghost[g].y, pac.y, ghost'[g].y, pac'.y)
      /\ state # "Game" =>
           /\ pac'.x = pac.x /\ pac'.y = pac.y
           /\ ghost'[g].x = ghost[g].x /\ ghost'[g].y = ghost[g].y
  BY PairStep
<1>2. Apart(g, IF state = "End" THEN 10 ELSE 12)
  BY DEF GameInv, NoPassThrough
<1>3. CASE state # "Game"
  <2>1. state' = "End" <=> state = "End"
    BY <1>3, Screens DEF GameInv
  <2> QED BY <1>1, <1>2, <1>3, <2>1 DEF Apart
<1>4. CASE state = "Game" /\ state' = "End"
  BY <1>1, <1>2, <1>4 DEF Apart, AxisStep
<1>5. CASE state = "Game" /\ state' # "End"
  <2>1. ~ Caught(g, pac)
    BY <1>5, Screens DEF GameInv, caught_check
  <2>2. \/ Abs(ghost'[g].x - pac'.x) >= 12
        \/ Abs(ghost'[g].y - pac'.y) >= 12
    BY <1>1, <2>1 DEF AxisStep, Caught
  <2> QED BY <1>5, <2>2 DEF Apart
<1> QED BY <1>3, <1>4, <1>5

\* The frame that ends the game has a cause, and later frames keep it.
LEMMA FrameCause ==
  ASSUME GameInv, NEW key, Frame(key)
  PROVE  EndHasCause'
<1> SUFFICES ASSUME state' = "End"
             PROVE  grid_pellet' = {} \/ \E g \in Ghosts : ~ Apart(g, 16)'
  BY DEF EndHasCause
<1>1. state = "End" \/ (state = "Game" /\ (caught_check \/ game_over_check))
  BY Screens DEF GameInv
<1>2. grid_pellet' \subseteq grid_pellet
  BY PelletFrameInv DEF GameInv, Frame
<1>3. game_over_check => grid_pellet = {}
  BY GameOverMeansEmpty DEF GameInv
<1>4. CASE state = "End"
  <2>1. grid_pellet = {} \/ \E g \in Ghosts : ~ Apart(g, 16)
    BY <1>4 DEF GameInv, EndHasCause
  <2>2. \A g \in Ghosts : Apart(g, 16)' <=> Apart(g, 16)
    BY <1>4, PairStep DEF Apart
  <2> QED BY <1>2, <2>1, <2>2
<1>5. CASE caught_check
  <2>1. PICK g \in Ghosts : Caught(g, pac)
    BY <1>5 DEF caught_check
  <2>2. /\ AxisStep(ghost[g].x, pac.x, ghost'[g].x, pac'.x)
        /\ AxisStep(ghost[g].y, pac.y, ghost'[g].y, pac'.y)
    BY PairStep
  <2>3. ~ (Abs(ghost'[g].x - pac'.x) >= 16) /\ ~ (Abs(ghost'[g].y - pac'.y) >= 16)
    BY <2>1, <2>2 DEF AxisStep, Caught
  <2> QED BY <2>3 DEF Apart
<1>6. CASE game_over_check
  BY <1>2, <1>3, <1>6
<1> QED BY <1>1, <1>4, <1>5, <1>6

\* The ghosts wait together and set off together.
LEMMA FrameStart ==
  ASSUME GameInv, NEW key, Frame(key)
  PROVE  WaitTogether'
<1> SUFFICES ASSUME NEW g \in Ghosts, ghost'[g].direction = "idle"
             PROVE  /\ pac' = PacAtStart
                    /\ ghost'[g].x = GhostCenter[g].x /\ ghost'[g].y = GhostCenter[g].y
                    /\ \A f \in Ghosts : ghost'[f].direction = "idle"
  BY DEF WaitTogether
<1>1. state \in States /\ GhostsInv /\ GhostFrame(state, key, pac)
  BY DEF GameInv, Frame
<1>2. ghost[g].direction = "idle"
  BY <1>1, GhostStep
<1>3. /\ pac = PacAtStart
      /\ ghost[g].x = GhostCenter[g].x /\ ghost[g].y = GhostCenter[g].y
      /\ \A f \in Ghosts : ghost[f].direction = "idle"
  BY <1>2 DEF GameInv, WaitTogether
<1>4. state # "Game" \/ key \notin Dirs
  BY <1>1, <1>2, IdleStep
<1>5. pac' = PacAtStart
  BY <1>3, <1>4, StaysAtStart DEF Frame
<1>6. ghost'[g].x = GhostCenter[g].x /\ ghost'[g].y = GhostCenter[g].y
  BY <1>1, <1>2, <1>3, IdleStep
<1>7. \A f \in Ghosts : ghost'[f].direction = "idle"
  BY <1>1, <1>3, <1>4, IdleStep
<1> QED BY <1>5, <1>6, <1>7

\* Each frame of the game samples the displacement anew.
LEMMA FrameFresh ==
  ASSUME GameInv, NEW key, Frame(key)
  PROVE  DisplacementIsFresh'
<1> SUFFICES ASSUME NEW g \in Ghosts, ghost'[g].direction # "idle"
             PROVE  /\ Abs(ghost'[g].X_Disp - (ghost'[g].x - pac'.x)) <= 2
                    /\ Abs(ghost'[g].Y_Disp - (ghost'[g].y - pac'.y)) <= 2
  BY DEF DisplacementIsFresh
<1>1. /\ pac.x \in Int /\ pac.y \in Int /\ pac'.x \in Int /\ pac'.y \in Int
      /\ pac'.x - pac.x \in -1..1 /\ pac'.y - pac.y \in -1..1
      /\ state # "Game" => pac'.x = pac.x /\ pac'.y = pac.y
  BY PacStep DEF GameInv, Frame
<1>2. /\ ghost[g].x \in Int /\ ghost[g].y \in Int
      /\ ghost'[g].x \in Int /\ ghost'[g].y \in Int
      /\ ghost'[g].x - ghost[g].x \in -1..1 /\ ghost'[g].y - ghost[g].y \in -1..1
      /\ state # "Game" =>
           /\ ghost'[g].x = ghost[g].x /\ ghost'[g].y = ghost[g].y
           /\ ghost'[g].direction = ghost[g].direction
           /\ ghost'[g].X_Disp = ghost[g].X_Disp /\ ghost'[g].Y_Disp = ghost[g].Y_Disp
      /\ state = "Game" => /\ ghost'[g].X_Disp = ghost[g].x - pac.x
                           /\ ghost'[g].Y_Disp = ghost[g].y - pac.y
  BY GhostStep DEF GameInv, Frame
<1>3. CASE state # "Game"
  <2>1. /\ Abs(ghost[g].X_Disp - (ghost[g].x - pac.x)) <= 2
        /\ Abs(ghost[g].Y_Disp - (ghost[g].y - pac.y)) <= 2
    BY <1>2, <1>3 DEF GameInv, DisplacementIsFresh
  <2> QED BY <1>1, <1>2, <1>3, <2>1
<1>4. CASE state = "Game"
  <2>1. /\ AxisStep(ghost[g].x, pac.x, ghost'[g].x, pac'.x)
        /\ AxisStep(ghost[g].y, pac.y, ghost'[g].y, pac'.y)
    BY PairStep
  <2> QED BY <1>2, <1>4, <2>1 DEF AxisStep
<1> QED BY <1>3, <1>4

-----------------------------------------------------------------------------
\* The parts of the invariant put together: a frame keeps all of them.
LEMMA GameFrameInv == ASSUME GameInv, NEW key, Frame(key) PROVE GameInv'
<1>1. state' \in States
  BY Screens DEF GameInv
<1> QED BY <1>1, FrameComponents, FrameRests, FrameApart, FrameCause,
           FrameStart, FrameFresh DEF GameInv

\* A step that changes no register keeps the invariant.
LEMMA GameStutterInv == ASSUME GameInv, UNCHANGED vars PROVE GameInv'
<1>1. /\ state' = state /\ pac' = pac /\ ghost' = ghost
      /\ grid_pellet' = grid_pellet /\ score' = score /\ play' = play
  BY DEF vars
<1>2. PacInv' /\ GhostsInv' /\ PelletInv'
  BY <1>1 DEF GameInv, PacInv, Within, Ahead, GhostsInv, PelletInv
<1>3. NoPassThrough' /\ EndHasCause' /\ WaitTogether' /\ DisplacementIsFresh'
  BY <1>1 DEF GameInv, NoPassThrough, EndHasCause, WaitTogether,
              DisplacementIsFresh, Apart
<1>4. RestsOnNothing' /\ RestsBeforeGame' /\ state' \in States
  BY <1>1 DEF GameInv, RestsOnNothing, RestsBeforeGame, Resting
<1> QED BY <1>2, <1>3, <1>4 DEF GameInv

(***************************************************************************)
(* The inductive invariant: Pac-Man and the ghosts are in the corridor one *)
(* frame ahead, and each promise of the game carries itself from a frame   *)
(* to the next, as a sprite moves by at most one pixel on an axis.         *)
(***************************************************************************)
THEOREM GameSpecInv == Spec => []GameInv
<1>1. Init => GameInv
  BY GameInitInv
<1>2. GameInv /\ [Next]_vars => GameInv'
  BY GameFrameInv, GameResetInv, GameStutterInv DEF Next, Tick
<1> QED BY <1>1, <1>2, PTL DEF Spec

\* All registers of the game keep their types.
THEOREM GameTypeCorrect == Spec => []TypeOK
<1>1. GameInv => TypeOK
  BY GhostsInvMeans DEF GameInv, TypeOK, PacInv, PacTypeOK, PelletInv
<1> QED BY <1>1, GameSpecInv, PTL

\* No ghost reaches Pac-Man unseen, in any maze and with any keys.
THEOREM GameNoPassThrough == Spec => []NoPassThrough
<1>1. GameInv => NoPassThrough
  BY DEF GameInv
<1> QED BY <1>1, GameSpecInv, PTL

\* The game ends only by a collision that can be seen or with the last pellet.
THEOREM GameEndHasCause == Spec => []EndHasCause
<1>1. GameInv => EndHasCause
  BY DEF GameInv
<1> QED BY <1>1, GameSpecInv, PTL

\* Ghosts under way steer by the displacement of the frame before.
THEOREM GameDisplacementIsFresh == Spec => []DisplacementIsFresh
<1>1. GameInv => DisplacementIsFresh
  BY DEF GameInv
<1> QED BY <1>1, GameSpecInv, PTL

\* The score is that of the pellets eaten, for every layout of pellets.
THEOREM GameScoreCounts == Spec => []ScoreCountsPellets
<1>1. GameInv => ScoreCountsPellets
  BY GameOverMeansEmpty DEF GameInv, PelletInv, ScoreCountsPellets
<1> QED BY <1>1, GameSpecInv, PTL

\* The sprites stay in the corridors in the game as they do by themselves.
THEOREM GameNoSpriteInWall == Spec => [](PacStaysInCorridor /\ GhostsStayInCorridor)
<1>1. GameInv => PacStaysInCorridor /\ GhostsStayInCorridor
  BY GhostsInvMeans DEF GameInv, PacInv, PacStaysInCorridor, Within
<1> QED BY <1>1, GameSpecInv, PTL

-----------------------------------------------------------------------------
(***************************************************************************)
(* The score of a finished game is final as soon as Pac-Man has stopped.   *)
(***************************************************************************)
THEOREM GameScoreSettles == Spec => ScoreSettles
<1>1. GameInv /\ [Next]_vars =>
        [state = "End" /\ pac.mx = 0 /\ pac.my = 0 /\ state' = "End"
           => UNCHANGED <<score, grid_pellet>>]_vars
  <2> SUFFICES ASSUME GameInv, [Next]_vars, state = "End", Resting, state' = "End"
               PROVE  UNCHANGED <<score, grid_pellet>>
    BY DEF Resting
  <2>1. CASE Reset
    BY <2>1 DEF Reset, FsmReset
  <2>2. ASSUME NEW key \in Keys, Frame(key)
        PROVE  UNCHANGED <<score, grid_pellet>>
    <3>1. Cell(pac.x, pac.y) \notin grid_pellet
      BY DEF GameInv, RestsOnNothing
    <3> QED BY <2>2, <3>1, PelletFrameInv DEF GameInv, Frame
  <2>3. CASE UNCHANGED vars
    BY <2>3 DEF vars
  <2> QED BY <2>1, <2>2, <2>3 DEF Next, Tick
<1> QED BY <1>1, GameSpecInv, PTL DEF Spec, ScoreSettles

\* A frame, by the screen it starts from, as a step of the rules.
LEMMA FrameFollowsRules ==
  ASSUME GameInv, NEW key, Frame(key)
  PROVE  Rules!RulesNext \/ UNCHANGED Rules!rulesVars
<1>1. /\ state \in States
      /\ state = "End" => state' = "End"
      /\ state = "Game" => state' = IF caught_check \/ game_over_check THEN "End" ELSE "Game"
      /\ state = "Intro" => state' \in {"Intro", "Start"}
      /\ state = "Start" => state' \in {"Start", "Game"}
  BY Screens DEF GameInv
<1>2. /\ score' \in {score, score + 10}
      /\ Resting => score' = score
      /\ grid_pellet = {} => score' = score
  <2>1. Resting => Cell(pac.x, pac.y) \notin grid_pellet
    BY DEF GameInv, RestsOnNothing
  <2> QED BY <2>1, PelletFrameInv DEF GameInv, Frame
<1>3. score' <= WinScore
  <2>1. PelletInv'
    BY FrameComponents
  <2>2. IsFiniteSet(PelletCells) /\ WinScore = 10 * Cardinality(PelletCells)
    BY PelletAssumption
  <2>3. grid_pellet' \subseteq PelletCells
        /\ score' = 10 * (Cardinality(PelletCells) - Cardinality(grid_pellet'))
    BY <2>1 DEF PelletInv
  <2>4. Cardinality(grid_pellet') \in Nat /\ Cardinality(PelletCells) \in Nat
    BY <2>3, PelletCount
  <2> QED BY <2>2, <2>3, <2>4
<1>4. game_over_check => score' = score
  BY <1>2, GameOverMeansEmpty DEF GameInv
<1>5. /\ state \in {"Intro", "End"} => Resting'
      /\ state = "Start" => (Resting' <=> Resting)
      /\ state \in {"Intro", "Start"} => Resting
  BY PacStep DEF GameInv, RestsBeforeGame, Frame, Resting
<1>6. CASE state \in {"Intro", "Start"}
  BY <1>1, <1>2, <1>5, <1>6
     DEF Rules!RulesNext, Rules!Open, Rules!Begin, Rules!rulesVars, Resting
<1>7. CASE state = "Game" /\ ~ game_over_check
  BY <1>1, <1>2, <1>3, <1>7
     DEF Rules!RulesNext, Rules!Play, Rules!Gain, Resting, game_over_check
<1>8. CASE state = "Game" /\ game_over_check
  BY <1>1, <1>4, <1>8
     DEF Rules!RulesNext, Rules!Win, Resting, game_over_check
<1>9. CASE state = "End"
  BY <1>1, <1>2, <1>3, <1>5, <1>9
     DEF Rules!RulesNext, Rules!Settle, Rules!Gain, Rules!rulesVars, Resting
<1> QED BY <1>1, <1>6, <1>7, <1>8, <1>9 DEF States

(***************************************************************************)
(* The game implements the safety part of GameRules: the screens, the      *)
(* score and Pac-Man's rest follow the rules whatever maze, ghosts and     *)
(* pellets it is given.                                                    *)
(***************************************************************************)
THEOREM GameFollowsRules == Spec => Rules!RulesSafety
<1>1. Init => Rules!Opening
  BY DEF Init, FsmInit, PacInit, PelletInit, PacAtStart, Rules!Opening
<1>2. GameInv /\ [Next]_vars => [Rules!RulesNext]_(Rules!rulesVars)
  <2> SUFFICES ASSUME GameInv, [Next]_vars
               PROVE  Rules!RulesNext \/ UNCHANGED Rules!rulesVars
    OBVIOUS
  <2>1. CASE Reset
    BY <2>1 DEF Reset, FsmReset, PacReset, PacAtStart, PelletReset,
                Rules!RulesNext, Rules!NewGame
  <2>2. ASSUME NEW key \in Keys, Frame(key)
        PROVE  Rules!RulesNext \/ UNCHANGED Rules!rulesVars
    BY <2>2, FrameFollowsRules
  <2>3. CASE UNCHANGED vars
    BY <2>3 DEF vars, Rules!rulesVars
  <2> QED BY <2>1, <2>2, <2>3 DEF Next, Tick
<1> QED BY <1>1, <1>2, GameSpecInv, PTL DEF Spec, Rules!RulesSafety

\* A frame that lets a ghost set off, or Pac-Man take his first motion.
LEMMA FrameIsEven ==
  ASSUME GameInv, NEW key, Frame(key)
  PROVE  /\ Waiting \subseteq Waiting' \/ SetOff
         /\ pac = PacAtStart /\ pac' # PacAtStart => Waiting' = {}
<1>1. /\ state \in States /\ GhostsInv /\ GhostFrame(state, key, pac)
      /\ PacFrame(state, key)
  BY DEF GameInv, Frame
<1>2. CASE state # "Game" \/ key \notin Dirs
  <2>1. Waiting \subseteq Waiting'
    BY <1>1, <1>2, IdleStep DEF Waiting
  <2>2. pac = PacAtStart => pac' = PacAtStart
    BY <1>1, <1>2, StaysAtStart
  <2> QED BY <2>1, <2>2
<1>3. CASE state = "Game" /\ key \in Dirs
  <2>1. \A g \in Ghosts : ghost'[g].direction # "idle"
    BY <1>1, <1>3, GhostStep
  <2>2. Waiting' = {}
    BY <2>1 DEF Waiting
  <2>3. CASE Waiting = {}
    BY <2>2, <2>3
  <2>4. CASE Waiting # {}
    <3>1. PICK g \in Ghosts : ghost[g].direction = "idle"
      BY <2>4 DEF Waiting
    <3>2. pac = PacAtStart /\ \A f \in Ghosts : ghost[f].direction = "idle"
      BY <3>1 DEF GameInv, WaitTogether
    <3>3. Waiting = Ghosts
      BY <3>2 DEF Waiting
    <3>4. PacSteer("Game", key) \/ (~ CanSteer(key) /\ UNCHANGED pac)
      BY <1>1, <1>3 DEF PacFrame, PacHalt, PacHold, PacWait
    <3>5. ASSUME NEW f \in Ghosts
          PROVE  /\ ghost'[f].x = GhostCenter[f].x /\ ghost'[f].mx = 0
                 /\ ghost'[f].y = GhostCenter[f].y /\ ghost'[f].my = 0
      <4>1. ghost[f].x = GhostCenter[f].x /\ ghost[f].y = GhostCenter[f].y
        BY <3>2 DEF GameInv, WaitTogether
      <4> QED BY <1>1, <3>2, <4>1, IdleStep
    <3>6. SetOff
      BY <1>3, <2>2, <3>2, <3>3, <3>4, <3>5 DEF SetOff
    <3> QED BY <2>2, <3>6
  <2> QED BY <2>3, <2>4
<1> QED BY <1>2, <1>3

(***************************************************************************)
(* The game starts evenly, with any number of ghosts and in any maze: they *)
(* set off all at once, on a steering key that finds Pac-Man at his start, *)
(* and none is left waiting when he takes his first motion.                *)
(***************************************************************************)
THEOREM GameEvenStart == Spec => EvenStart
<1>1. GameInv /\ [Next]_vars =>
        [/\ Waiting \subseteq Waiting' \/ SetOff
         /\ pac = PacAtStart /\ pac' # PacAtStart => Waiting' = {}]_vars
  <2> SUFFICES ASSUME GameInv, Next
               PROVE  /\ Waiting \subseteq Waiting' \/ SetOff
                      /\ pac = PacAtStart /\ pac' # PacAtStart => Waiting' = {}
    OBVIOUS
  <2>1. CASE Reset
    <3>1. pac' = PacAtStart /\ \A g \in Ghosts : ghost'[g].direction = "idle"
      BY <2>1 DEF Reset, PacReset, GhostReset, GhostAtStart
    <3> QED BY <3>1 DEF Waiting
  <2>2. ASSUME NEW key \in Keys, Frame(key)
        PROVE  /\ Waiting \subseteq Waiting' \/ SetOff
               /\ pac = PacAtStart /\ pac' # PacAtStart => Waiting' = {}
    BY <2>2, FrameIsEven
  <2> QED BY <2>1, <2>2 DEF Next, Tick
<1> QED BY <1>1, GameSpecInv, PTL DEF Spec, EvenStart

-----------------------------------------------------------------------------
\* The picture.

\* A sprite in the corridor is so far from the edges that no comparison wraps.
LEMMA OnIsNear ==
  ASSUME NEW s, s.x \in 188..467, s.y \in 92..387, NEW x \in Int, NEW y \in Int
  PROVE  On(s, x, y) <=> /\ x >= s.x - 8 /\ x <= s.x + 7
                         /\ y >= s.y - 7 /\ y <= s.y + 8
BY DEF On, Wrap, HalfSize

\* A sprite within the corridor, as a record.
LEMMA PlaceOf ==
  ASSUME NEW s, s.x \in Int, s.y \in Int, Within([x |-> s.x, y |-> s.y], 4)
  PROVE  s.x \in 188..467 /\ s.y \in 92..387
<1> DEFINE a == s.x
           b == s.y
<1>1. a \in Int /\ b \in Int /\ Within([x |-> a, y |-> b], 4)
  OBVIOUS
<1> HIDE DEF a, b
<1>2. a \in 188..467 /\ b \in 92..387
  BY <1>1, WithinBounds
<1> QED BY <1>2 DEF a, b

\* Where the sprites of the game can be.
LEMMA SpritesPlaces ==
  ASSUME GameInv
  PROVE  /\ pac.x \in 188..467 /\ pac.y \in 92..387
         /\ \A g \in Ghosts : ghost[g].x \in 188..467 /\ ghost[g].y \in 92..387
<1>1. pac.x \in 188..467 /\ pac.y \in 92..387
  <2>1. pac.x \in Int /\ pac.y \in Int
    BY PacFields DEF GameInv, PacInv
  <2>2. Within([x |-> pac.x, y |-> pac.y], 4)
    BY DEF GameInv, PacInv
  <2> QED BY <2>1, <2>2, PlaceOf
<1>2. ASSUME NEW g \in Ghosts
      PROVE  ghost[g].x \in 188..467 /\ ghost[g].y \in 92..387
  <2>1. GhostTypeOK /\ GhostsStayInCorridor
    BY GhostsInvMeans DEF GameInv
  <2>2. ghost[g] \in GhostType
    BY <2>1 DEF GhostTypeOK
  <2>3. ghost[g].x \in Int /\ ghost[g].y \in Int
    BY <2>2, GhostFields
  <2>4. Within(ghost[g], 4)
    BY <2>1 DEF GhostsStayInCorridor
  <2>5. Within([x |-> ghost[g].x, y |-> ghost[g].y], 4)
    BY <2>4 DEF Within
  <2> QED BY <2>3, <2>5, PlaceOf
<1> QED BY <1>1, <1>2

\* Centres that are 12 pixels apart on an axis are not in each other's sprite.
LEMMA FarIsNotNear ==
  ASSUME NEW a \in Int, NEW b \in Int, NEW c \in Int, NEW d \in Int,
         Abs(a - c) >= 12 \/ Abs(b - d) >= 12
  PROVE  ~ (c >= a - 8 /\ c <= a + 7 /\ d >= b - 7 /\ d <= b + 8)
BY DEF Abs

\* Pac-Man's middle is seen while the game runs: no ghost is near enough to hide it.
LEMMA MiddleIsSeen ==
  ASSUME GameInv, state = "Game"
  PROVE  Layer(pac.x, pac.y) = "Pac-Man"
<1>1. pac.x \in 188..467 /\ pac.y \in 92..387
  BY SpritesPlaces
<1>2. On(pac, pac.x, pac.y)
  <2>1. pac.x \in Int /\ pac.y \in Int
    BY <1>1
  <2>2. /\ pac.x >= pac.x - 8 /\ pac.x <= pac.x + 7
        /\ pac.y >= pac.y - 7 /\ pac.y <= pac.y + 8
    BY <2>1
  <2> QED BY <1>1, <2>1, <2>2, OnIsNear
<1>3. ASSUME NEW g \in Ghosts
      PROVE  ~ On(ghost[g], pac.x, pac.y)
  <2>1. ghost[g].x \in 188..467 /\ ghost[g].y \in 92..387
    BY SpritesPlaces
  <2>2. Apart(g, 12)
    BY DEF GameInv, NoPassThrough
  <2> DEFINE near == /\ pac.x >= ghost[g].x - 8 /\ pac.x <= ghost[g].x + 7
                     /\ pac.y >= ghost[g].y - 7 /\ pac.y <= ghost[g].y + 8
  <2>3. pac.x \in Int /\ pac.y \in Int
    BY <1>1
  <2>4. ghost[g].x \in Int /\ ghost[g].y \in Int
    BY SMTT(30), <2>1
  <2>5. ~ near
    BY <2>2, <2>3, <2>4, FarIsNotNear DEF Apart
  <2> QED BY <2>1, <2>3, <2>5, OnIsNear
<1>4. ~ ghost_on(pac.x, pac.y)
  BY <1>3 DEF ghost_on
<1> QED BY <1>2, <1>4 DEF Layer, start_screen_on, end_screen_on

\* The pixels of a pellet are its own: they are in its cell and in the picture.
LEMMA LitIsShown ==
  ASSUME NEW c \in PelletCells, NEW p \in Lit(c)
  PROVE  /\ c[1] \in Int /\ c[2] \in Int /\ c = <<c[1], c[2]>>
         /\ p[1] \in Int /\ p[2] \in Int
         /\ p[1] - 168 - 16 * c[2] \in {7, 8}
         /\ p[2] - 72 - 16 * c[1] \in {7, 8}
         /\ Cell(p[1], p[2]) = c
         /\ pellCheck(p[1], p[2])
         /\ bounds(p[1], p[2])
<1>1. /\ c[1] \in 0..20 /\ c[2] \in 0..18 /\ c = <<c[1], c[2]>>
  BY PictureAssumption DEF Rows
<1>2. PICK i \in {7, 8}, j \in {7, 8} : /\ p[1] = 168 + 16 * c[2] + i
                                        /\ p[2] = 72 + 16 * c[1] + j
  BY DEF Lit
<1>3. p[1] \in Int /\ p[2] \in Int
  BY <1>1, <1>2
<1>4. (p[2] - 72) \div 16 = c[1] /\ (p[1] - 168) \div 16 = c[2]
  BY <1>1, <1>2
<1>5. (p[2] - 72) % 16 \in {7, 8} /\ (p[1] - 168) % 16 \in {7, 8}
  BY <1>1, <1>2
<1>6. 72 < p[2] /\ p[2] < 407 /\ 168 < p[1] /\ p[1] < 471
  BY <1>1, <1>2
<1>7. Cell(p[1], p[2]) = c
  BY <1>1, <1>4 DEF Cell
<1>8. pellCheck(p[1], p[2]) /\ bounds(p[1], p[2])
  BY <1>5, <1>6 DEF pellCheck, bounds
<1>9. p[1] - 168 - 16 * c[2] \in {7, 8} /\ p[2] - 72 - 16 * c[1] \in {7, 8}
  BY <1>1, <1>2
<1> QED BY <1>1, <1>3, <1>7, <1>8, <1>9

\* A pellet that is not under a sprite is seen if and only if it is left.
LEMMA PelletsAreSeen ==
  ASSUME state \in {"Start", "Game"}, NEW c \in PelletCells, NEW p \in Lit(c),
         Layer(p[1], p[2]) \notin {"ghost", "Pac-Man"}
  PROVE  Layer(p[1], p[2]) = "pellet" <=> c \in grid_pellet
<1>1. ~ start_screen_on(p[1], p[2]) /\ ~ end_screen_on(p[1], p[2])
  BY DEF start_screen_on, end_screen_on
<1>2. ~ ghost_on(p[1], p[2]) /\ ~ On(pac, p[1], p[2])
  BY <1>1 DEF Layer
<1>3. pellet_on(p[1], p[2]) <=> c \in grid_pellet
  BY LitIsShown DEF pellet_on
<1> QED BY <1>1, <1>2, <1>3 DEF Layer

\* The four digits are decimal and make the score.
LEMMA DigitsAreTheScore ==
  ASSUME PelletInv
  PROVE  /\ score = 1000 * Digit(1) + 100 * Digit(2) + 10 * Digit(3) + Digit(4)
         /\ \A i \in 1..4 : Digit(i) \in 0..9
<1>1. PICK k \in Nat : score = 10 * k /\ score <= WinScore
  <2>1. /\ Cardinality(PelletCells) \in Nat /\ Cardinality(grid_pellet) \in Nat
        /\ Cardinality(grid_pellet) <= Cardinality(PelletCells)
    BY PelletCount DEF PelletInv
  <2> QED BY <2>1, PelletAssumption DEF PelletInv
<1>2. k \in 0..999
  BY <1>1, PictureAssumption, PelletAssumption, PelletCount
<1>3. /\ Digit(1) = k \div 100
      /\ Digit(2) = (k \div 10) % 10
      /\ Digit(3) = k % 10
      /\ Digit(4) = 0
  BY <1>1, <1>2 DEF Digit
<1>4. /\ k \div 100 \in 0..9 /\ (k \div 10) % 10 \in 0..9 /\ k % 10 \in 0..9
  BY <1>2
<1>5. k = 100 * (k \div 100) + 10 * ((k \div 10) % 10) + (k % 10)
  <2>1. k = 10 * (k \div 10) + (k % 10)
    BY <1>2
  <2>2. k \div 10 = 10 * ((k \div 10) \div 10) + ((k \div 10) % 10)
    BY <1>2
  <2>3. (k \div 10) \div 10 = k \div 100
    BY <1>2
  <2> QED BY <1>2, <2>1, <2>2, <2>3
<1>6. \A i \in 1..4 : Digit(i) \in 0..9
  <2>1. 0 \in 0..9
    OBVIOUS
  <2>2. \A i \in 1..4 : i = 1 \/ i = 2 \/ i = 3 \/ i = 4
    OBVIOUS
  <2> QED BY <1>3, <1>4, <2>1, <2>2
<1>7. score = 1000 * (k \div 100) + 100 * ((k \div 10) % 10) + 10 * (k % 10) + 0
  BY <1>1, <1>2, <1>4, <1>5
<1> QED BY <1>3, <1>6, <1>7

(***************************************************************************)
(* The picture tells the game, whatever the maze and its pellets: nothing  *)
(* hides Pac-Man while he can be caught, the pellets that are seen are     *)
(* those that are left, and the digits are those of the score.             *)
(***************************************************************************)
THEOREM GamePictureTells == Spec => []PictureTellsTheGame
<1>1. GameInv => PictureTellsTheGame
  <2> SUFFICES ASSUME GameInv PROVE PictureTellsTheGame
    OBVIOUS
  <2>1. state = "Game" => Layer(pac.x, pac.y) = "Pac-Man"
    BY MiddleIsSeen
  <2>2. ASSUME state \in {"Start", "Game"}, NEW c \in PelletCells \cap Around,
               NEW p \in Lit(c), Layer(p[1], p[2]) \notin {"ghost", "Pac-Man"}
        PROVE  Layer(p[1], p[2]) = "pellet" <=> c \in grid_pellet
    BY <2>2, PelletsAreSeen
  <2>3. /\ score = 1000 * Digit(1) + 100 * Digit(2) + 10 * Digit(3) + Digit(4)
        /\ \A i \in 1..4 : Digit(i) \in 0..9
    BY DigitsAreTheScore DEF GameInv
  <2> QED BY <2>1, <2>2, <2>3 DEF PictureTellsTheGame
<1> QED BY <1>1, GameSpecInv, PTL

\* A pellet in Pac-Man's cell is under his sprite, at least with one pixel.
LEMMA EatenIsCovered ==
  ASSUME GameInv, NEW c \in PelletCells, c = Cell(pac.x, pac.y)
  PROVE  \E p \in Lit(c) : Covered(pac, p)
<1> DEFINE px == 168 + 16 * c[2] + 7
           py == 72 + 16 * c[1] + 8
<1>1. pac.x \in 188..467 /\ pac.y \in 92..387
  BY SpritesPlaces
<1>2. c[1] = (pac.y - 72) \div 16 /\ c[2] = (pac.x - 168) \div 16
  BY DEF Cell
<1>3. /\ px \in Int /\ py \in Int
      /\ px >= pac.x - 8 /\ px <= pac.x + 7
      /\ py >= pac.y - 7 /\ py <= pac.y + 8
  BY <1>1, <1>2
<1>4. <<px, py>> \in Lit(c)
  BY DEF Lit
<1>5. On(pac, px, py)
  BY <1>1, <1>3, OnIsNear
<1>6. Covered(pac, <<px, py>>)
  BY <1>5 DEF Covered
<1> QED BY <1>4, <1>6

\* One of the two lit pixels of another row or column is more than 8 away.
LEMMA OtherCellIsFar ==
  ASSUME NEW v \in Int, NEW o \in Int, NEW k \in Int, k # (v - o) \div 16
  PROVE  LET p == o + 16 * k + (IF k > (v - o) \div 16 THEN 8 ELSE 7)
         IN  p \in Int /\ (p > v + 8 \/ p < v - 8)
<1> DEFINE q == (v - o) \div 16
<1>1. q \in Int /\ o + 16 * q <= v /\ v <= o + 16 * q + 15
  OBVIOUS
<1> HIDE DEF q
<1>2. CASE k > q
  <2>1. o + 16 * k + 8 > v + 8
    BY <1>1, <1>2
  <2> QED BY <1>2, <2>1 DEF q
<1>3. CASE k < q
  <2>1. o + 16 * k + 7 < v - 8
    BY <1>1, <1>3
  <2>2. ~ (k > q)
    BY <1>1, <1>3
  <2> QED BY <2>1, <2>2 DEF q
<1>4. k > q \/ k < q
  BY <1>1 DEF q
<1> QED BY <1>2, <1>3, <1>4

\* A pellet in another cell is not all under his sprite.
LEMMA LeftIsUncovered ==
  ASSUME GameInv, NEW c \in PelletCells, c # Cell(pac.x, pac.y)
  PROVE  \E p \in Lit(c) : ~ Covered(pac, p)
<1> DEFINE row == (pac.y - 72) \div 16
           col == (pac.x - 168) \div 16
           px  == 168 + 16 * c[2] + (IF c[2] > col THEN 8 ELSE 7)
           py  == 72 + 16 * c[1] + (IF c[1] > row THEN 8 ELSE 7)
<1>1. pac.x \in 188..467 /\ pac.y \in 92..387
  BY SpritesPlaces
<1>2. /\ c[1] \in 0..20 /\ c[2] \in 0..18 /\ c = <<c[1], c[2]>>
  BY PictureAssumption DEF Rows
<1>3. c[1] # row \/ c[2] # col
  BY <1>2 DEF Cell
<1>4. /\ px \in Int /\ py \in Int
      /\ ~ (/\ px >= pac.x - 8 /\ px <= pac.x + 7
            /\ py >= pac.y - 7 /\ py <= pac.y + 8)
  <2>1. pac.x \in Int /\ pac.y \in Int /\ c[1] \in Int /\ c[2] \in Int
    BY <1>1, <1>2
  <2>2. px \in Int /\ py \in Int
    BY <2>1
  <2>3. c[2] # col => px > pac.x + 8 \/ px < pac.x - 8
    BY <2>1, OtherCellIsFar
  <2>4. c[1] # row => py > pac.y + 8 \/ py < pac.y - 8
    BY <2>1, OtherCellIsFar
  <2> HIDE DEF px, py, row, col
  <2> QED BY <1>3, <2>1, <2>2, <2>3, <2>4
<1>5. <<px, py>> \in Lit(c)
  BY DEF Lit
<1>6. ~ On(pac, px, py)
  BY <1>1, <1>4, OnIsNear
<1>7. ~ Covered(pac, <<px, py>>)
  BY <1>6 DEF Covered
<1> QED BY <1>5, <1>7

(***************************************************************************)
(* Pellets go where Pac-Man is seen to be: a step takes at most the pellet *)
(* of the cell his centre is in, and that cell is the only one all whose   *)
(* four lit pixels his sprite can cover.                                   *)
(***************************************************************************)
THEOREM GamePelletsGo == Spec => PelletsGoUnderPacMan
<1>1. GameInv /\ [Next]_vars =>
        [/\ \A c \in grid_pellet \ grid_pellet' : \E p \in Lit(c) : Covered(pac, p)
         /\ grid_pellet' # PelletCells =>
              \A c \in grid_pellet' \cap Around : \E p \in Lit(c) : ~ Covered(pac, p)]_vars
  <2> SUFFICES ASSUME GameInv, Next
               PROVE  /\ \A c \in grid_pellet \ grid_pellet' :
                           \E p \in Lit(c) : Covered(pac, p)
                      /\ grid_pellet' # PelletCells =>
                           \A c \in grid_pellet' \cap Around :
                             \E p \in Lit(c) : ~ Covered(pac, p)
    OBVIOUS
  <2>1. grid_pellet \subseteq PelletCells
    BY DEF GameInv, PelletInv
  <2>2. CASE Reset
    BY <2>1, <2>2 DEF Reset, PelletReset
  <2>3. ASSUME NEW key \in Keys, Frame(key)
        PROVE  /\ \A c \in grid_pellet \ grid_pellet' : c = Cell(pac.x, pac.y)
               /\ \A c \in grid_pellet' : c # Cell(pac.x, pac.y)
               /\ grid_pellet' \subseteq PelletCells
    <3>1. PelletFrame(pac)
      BY <2>3 DEF Frame
    <3> QED BY <2>1, <3>1 DEF PelletFrame, Eat, Quiet
  <2>4. ASSUME NEW key \in Keys, Frame(key)
        PROVE  /\ \A c \in grid_pellet \ grid_pellet' :
                    \E p \in Lit(c) : Covered(pac, p)
               /\ \A c \in grid_pellet' : \E p \in Lit(c) : ~ Covered(pac, p)
    BY <2>1, <2>3, <2>4, EatenIsCovered, LeftIsUncovered
  <2> QED BY <2>2, <2>4 DEF Next, Tick
<1> QED BY <1>1, GameSpecInv, PTL DEF Spec, PelletsGoUnderPacMan
=============================================================================
