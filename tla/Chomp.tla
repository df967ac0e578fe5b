-------------------------------- MODULE Chomp --------------------------------
(***************************************************************************)
(* The player of the chomp: the audio part of FinalProject1.sv, with the   *)
(* shift registers of shift_reg.sv and the ROM.  The codec gives both      *)
(* clocks: LRCLK, one period a sample, and BCLK, `Bits' periods each half  *)
(* of that; LRCLK changes at the falling edge of BCLK and the codec takes  *)
(* a bit at each rising edge.  `play' comes from the pellets at any time.  *)
(*                                                                         *)
(* A bit is its word and its number from the left; a word is the address   *)
(* of its sample.                                                          *)
(***************************************************************************)
EXTENDS Integers, Sequences

CONSTANTS
  Samples,      \* in the ROM, 15800
  Bits          \* in a word, 32

ASSUME ChompAssumption == Samples \in Nat \ {0} /\ Bits \in Nat \ {0, 1}

VARIABLES
  play, audio_address,
  counter,           \* LRCLK halved, the clock of the ROM
  sample,
  LRCLK, BCLKs,      \* the second counts rising edges since the first has changed
  audio_left, audio_right,   \* their registers: the word, and how often it was shifted
  audio_l, audio_r,  \* their outputs
  heard,             \* what the codec took in this half
  before,            \* the word that it took in the half before
  late               \* how this build reads the ROM, see ReadRom

registers == <<audio_left, audio_right, audio_l, audio_r>>
chompVars == <<play, audio_address, counter, sample, LRCLK, BCLKs, registers, heard, before, late>>

Word(address) == [word |-> address, shifts |-> 0]

Top(register) == <<register.word, register.shifts>>

\* reg_shift: it loads in one half and shifts in the other, out of a register.
Shifts(register, lrclock) ==
  IF lrclock THEN [register EXCEPT !.shifts = @ + 1] ELSE Word(sample)

Out(register, out, lrclock) == IF lrclock THEN Top(register) ELSE out

\* Mutant: both registers shift in the same half.
RightClock_Same == LRCLK
RightClock == ~ LRCLK

BitEdge ==
  /\ BCLKs < Bits
  /\ BCLKs' = BCLKs + 1
  /\ audio_left'  = Shifts(audio_left, LRCLK)
  /\ audio_right' = Shifts(audio_right, RightClock)
  /\ audio_l' = Out(audio_left, audio_l, LRCLK)
  /\ audio_r' = Out(audio_right, audio_r, RightClock)
  /\ heard' = Append(heard, IF LRCLK THEN audio_l ELSE audio_r)
  /\ UNCHANGED <<play, audio_address, counter, sample, LRCLK, before, late>>

\* Mutant: a pellet starts the chomp over.
NextAddress_Again ==
  CASE play -> 1
    [] ~ play /\ audio_address \in {0, Samples} -> 0
    [] OTHER -> audio_address + 1

NextAddress ==
  CASE audio_address = 0 -> IF play THEN 1 ELSE 0
    [] audio_address >= Samples -> 0
    [] OTHER -> audio_address + 1

\* The address changes at the edge from which the clock of the ROM is made: it
\* may be read before or after, always the same in one build.
ReadRom == sample' = IF late THEN audio_address' ELSE audio_address

WordEdge ==
  /\ BCLKs = Bits
  /\ LRCLK' = ~ LRCLK /\ BCLKs' = 0
  /\ heard' = <<>> /\ before' = heard[Bits][1]
  /\ IF LRCLK'
     THEN /\ counter' = ~ counter
          /\ audio_address' = NextAddress
          /\ IF counter' THEN ReadRom ELSE UNCHANGED sample
     ELSE UNCHANGED <<counter, audio_address, sample>>
  /\ UNCHANGED <<play, registers, late>>

\* The pellets set play in the frame that eats one, and clear it in the next.
PelletEaten ==
  /\ play' = ~ play
  /\ UNCHANGED <<audio_address, counter, sample, LRCLK, BCLKs, registers, heard, before, late>>

\* All registers power up as zero; the codec starts with the right half.
ChompInit ==
  /\ play = FALSE /\ audio_address = 0 /\ counter = FALSE /\ sample = 0
  /\ LRCLK = FALSE /\ BCLKs = 0
  /\ audio_left = Word(0) /\ audio_right = Word(0)
  /\ audio_l = <<0, 0>> /\ audio_r = <<0, 0>>
  /\ heard = <<>> /\ before = 0 /\ late \in BOOLEAN

ChompNext == BitEdge \/ WordEdge \/ PelletEaten

ChompSpec == ChompInit /\ [][ChompNext]_chompVars

-----------------------------------------------------------------------------
\* Properties.

\* In each half the codec takes a whole word, the highest bit second as I2S asks
\* for, and what it gives to the left ear is what it has just given to the right
\* one, although the sample changes while one register loads and one shifts.
EarsAgree ==
  BCLKs = Bits =>
    /\ \E w \in 0..Samples : \A i \in 2..Bits : heard[i] = <<w, i - 2>>
    /\ LRCLK => heard[Bits][1] = before

\* A chomp is played through, every second sample of it in order, whatever is
\* eaten meanwhile; only at its end does the next one begin.
ChompPlaysThrough ==
  [][sample' # sample =>
       \/ sample' = sample + 2
       \/ sample = 0 /\ sample' = 1
       \/ sample >= Samples - 1 /\ sample' \in {0, 1}]_chompVars
=============================================================================
