------------------------------ MODULE RealMaze ------------------------------
(***************************************************************************)
(* The maze and the pellets of the game as ball.sv lays them out: bit c of *)
(* a row is the cell of column c.                                          *)
(***************************************************************************)
EXTENDS Integers, Sequences

WallRows == <<
  \b1111111111111111111,
  \b1000000001000000001,
  \b1011011101011101101,
  \b1000000000000000001,
  \b1011010111110101101,
  \b1000010001000100001,
  \b1111011101011101111,
  \b0001010000000101000,
  \b1111010111110101111,
  \b1000000100010000001,
  \b1111010111110101111,
  \b0001010000000101000,
  \b1111010111110101111,
  \b1000000001000000001,
  \b1011011101011101101,
  \b1001000000000001001,
  \b1101010111110101011,
  \b1000010001000100001,
  \b1011111101011111101,
  \b1000000000000000001,
  \b1111111111111111111 >>

PelletRows == <<
  \b0000000000000000000,
  \b0111111110111111110,
  \b0100100010100010010,
  \b0111111111111111110,
  \b0100101000001010010,
  \b0111101110111011110,
  \b0000100000000010000,
  \b0000100000000010000,
  \b0000100000000010000,
  \b0000100000000010000,
  \b0000100000000010000,
  \b0000100000000010000,
  \b0000100000000010000,
  \b0111111110111111110,
  \b0100100010100010010,
  \b0110111110111110110,
  \b0010101000001010100,
  \b0111101110111011110,
  \b0100000010100000010,
  \b0111111111111111110,
  \b0000000000000000000 >>

\* The cells <<row, column>> of the bits that are 1.
CellsOf(rows) ==
  { <<r, c>> \in (0..20) \X (0..19) : (rows[r + 1] \div 2^c) % 2 = 1 }

RealWalls == CellsOf(WallRows)
RealPellets == CellsOf(PelletRows)

(***************************************************************************)
(* The corridor: the open cells but the ones no sprite can get to, which   *)
(* are the ends of rows 7 and 11, the room in the middle and column 19.    *)
(***************************************************************************)
Sealed == ({7, 11} \X {0, 1, 2, 16, 17, 18}) \cup ({9} \X (8..10))
            \cup ((0..20) \X {19})

RealCorridor == (((0..20) \X (0..19)) \ RealWalls) \ Sealed
=============================================================================
