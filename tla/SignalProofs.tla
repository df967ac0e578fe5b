----------------------------- MODULE SignalProofs ------------------------------
(***************************************************************************)
(* The signals the hardware gives out by counting: the sound, whose words  *)
(* are whole and the same in both ears for words of any width and a chomp  *)
(* of any length, and the syncs of the screen, which leave the game alone  *)
(* while a picture is drawn, for lines and pictures of any size.           *)
(***************************************************************************)
EXTENDS Chomp, Scan, TLAPS

-----------------------------------------------------------------------------
\* The sound.

Addresses == 0..Samples

Registers == [word : Addresses, shifts : Nat]

ChompTypes ==
  /\ audio_address \in Addresses /\ sample \in Addresses /\ before \in Addresses
  /\ LRCLK \in BOOLEAN /\ counter \in BOOLEAN /\ BCLKs \in 0..Bits
  /\ audio_left \in Registers /\ audio_right \in Registers
  /\ audio_l \in Addresses \X Nat /\ audio_r \in Addresses \X Nat
  /\ heard \in Seq(Addresses \X Nat) /\ Len(heard) = BCLKs

\* The half of one ear: its register shifts a word out, a bit behind which the
\* codec is, while that of the other ear loads the sample.
Speaks(register, out, w) ==
  /\ register = [word |-> w, shifts |-> BCLKs]
  /\ BCLKs > 0 => out = <<w, BCLKs - 1>>
  /\ \A i \in 2..BCLKs : heard[i] = <<w, i - 2>>

Halves ==
  /\ LRCLK   => Speaks(audio_left, audio_l, before) /\ (BCLKs > 0 => audio_right = Word(sample))
  /\ ~ LRCLK => Speaks(audio_right, audio_r, sample) /\ (BCLKs > 0 => audio_left = Word(sample))

ChompInv == ChompTypes /\ Halves

LEMMA ChompInitially == ChompInit => ChompInv
<1>1. SUFFICES ASSUME ChompInit PROVE ChompInv
  OBVIOUS
<1>2. 0 \in Addresses /\ 0 \in 0..Bits /\ 0 \in Nat
  BY ChompAssumption DEF Addresses
<1>3. Word(0) \in Registers
  BY <1>2 DEF Word, Registers
<1>4. heard = <<>> /\ heard \in Seq(Addresses \X Nat) /\ Len(heard) = 0
  BY <1>1 DEF ChompInit
<1>5. ChompTypes
  <2>1. <<0, 0>> \in Addresses \X Nat
    BY <1>2
  <2> QED BY <1>1, <1>2, <1>3, <1>4, <2>1 DEF ChompInit, ChompTypes
<1>6. Halves
  BY <1>1 DEF ChompInit, Halves, Speaks, Word
<1> QED BY <1>5, <1>6 DEF ChompInv

\* A bit is shifted out of one register while the other one loads.
LEMMA BitOfOne ==
  ASSUME NEW register \in Registers, NEW lrclock \in BOOLEAN, sample \in Addresses,
         NEW out \in Addresses \X Nat
  PROVE  /\ Shifts(register, lrclock) \in Registers
         /\ Out(register, out, lrclock) \in Addresses \X Nat
         /\ lrclock => Shifts(register, lrclock)
                         = [word |-> register.word, shifts |-> register.shifts + 1]
         /\ lrclock => Out(register, out, lrclock) = <<register.word, register.shifts>>
         /\ ~ lrclock => Shifts(register, lrclock) = Word(sample)
<1>1. register.word \in Addresses /\ register.shifts \in Nat
  BY DEF Registers
<1>2. Word(sample) \in Registers
  BY DEF Word, Registers
<1>3. CASE lrclock
  <2>1. Shifts(register, lrclock) = [word |-> register.word, shifts |-> register.shifts + 1]
    BY <1>3 DEF Shifts, Registers
  <2>2. Out(register, out, lrclock) = <<register.word, register.shifts>>
    BY <1>3 DEF Out, Top
  <2>3. [word |-> register.word, shifts |-> register.shifts + 1] \in Registers
    BY <1>1 DEF Registers
  <2>4. <<register.word, register.shifts>> \in Addresses \X Nat
    BY <1>1
  <2> QED BY <1>3, <2>1, <2>2, <2>3, <2>4
<1>4. CASE ~ lrclock
  BY <1>2, <1>4 DEF Shifts, Out
<1> QED BY <1>3, <1>4

LEMMA BitStep == ASSUME ChompInv, BitEdge PROVE ChompInv'
<1> USE ChompAssumption DEF ChompInv
<1>1. /\ BCLKs < Bits /\ BCLKs' = BCLKs + 1
      /\ audio_left' = Shifts(audio_left, LRCLK) /\ audio_l' = Out(audio_left, audio_l, LRCLK)
      /\ audio_right' = Shifts(audio_right, ~ LRCLK)
      /\ audio_r' = Out(audio_right, audio_r, ~ LRCLK)
      /\ heard' = Append(heard, IF LRCLK THEN audio_l ELSE audio_r)
      /\ UNCHANGED <<audio_address, counter, sample, LRCLK, before>>
  BY DEF BitEdge, RightClock
<1>2. /\ audio_left \in Registers /\ audio_right \in Registers /\ sample \in Addresses
      /\ audio_l \in Addresses \X Nat /\ audio_r \in Addresses \X Nat
      /\ LRCLK \in BOOLEAN /\ (~ LRCLK) \in BOOLEAN
      /\ heard \in Seq(Addresses \X Nat) /\ Len(heard) = BCLKs /\ BCLKs \in 0..Bits
  BY DEF ChompTypes
<1> DEFINE bit == IF LRCLK THEN audio_l ELSE audio_r
<1>3. bit \in Addresses \X Nat
  BY <1>2
<1> HIDE DEF bit
<1>4. /\ heard' \in Seq(Addresses \X Nat) /\ Len(heard') = BCLKs'
      /\ \A i \in 1..BCLKs : heard'[i] = heard[i]
      /\ heard'[BCLKs + 1] = bit
  BY <1>1, <1>2, <1>3 DEF bit
<1>5. /\ audio_left' \in Registers /\ audio_l' \in Addresses \X Nat
      /\ audio_right' \in Registers /\ audio_r' \in Addresses \X Nat
  BY <1>1, <1>2, BitOfOne
<1>6. BCLKs' \in 0..Bits
  BY <1>1, <1>2
<1>7. ChompTypes'
  BY <1>1, <1>4, <1>5, <1>6 DEF ChompTypes
<1>8. CASE LRCLK
  <2>1. /\ audio_left = [word |-> before, shifts |-> BCLKs]
        /\ BCLKs > 0 => audio_l = <<before, BCLKs - 1>>
        /\ \A i \in 2..BCLKs : heard[i] = <<before, i - 2>>
    BY <1>8 DEF Halves, Speaks
  <2>2. audio_left' = [word |-> before, shifts |-> BCLKs'] /\ audio_l' = <<before, BCLKs>>
    BY <1>1, <1>2, <1>8, <2>1, BitOfOne
  <2>3. audio_right' = Word(sample)
    BY <1>1, <1>2, <1>8, BitOfOne
  <2>4. ASSUME NEW i \in 2..BCLKs'
        PROVE  heard'[i] = <<before, i - 2>>
    <3>1. CASE i = BCLKs + 1
      <4>1. BCLKs > 0 /\ bit = audio_l /\ BCLKs - 1 = i - 2
        BY <1>2, <1>8, <3>1 DEF bit
      <4> QED BY <1>4, <2>1, <3>1, <4>1
    <3>2. CASE i # BCLKs + 1
      <4>1. i \in 2..BCLKs /\ i \in 1..BCLKs
        BY <1>1, <1>2, <3>2
      <4> QED BY <1>4, <2>1, <4>1
    <3> QED BY <3>1, <3>2
  <2>5. BCLKs' - 1 = BCLKs /\ LRCLK' /\ before' = before /\ Word(sample)' = Word(sample)
    BY <1>1, <1>2, <1>8 DEF Word
  <2> QED BY <1>7, <2>2, <2>3, <2>4, <2>5 DEF Halves, Speaks
<1>9. CASE ~ LRCLK
  <2>1. /\ audio_right = [word |-> sample, shifts |-> BCLKs]
        /\ BCLKs > 0 => audio_r = <<sample, BCLKs - 1>>
        /\ \A i \in 2..BCLKs : heard[i] = <<sample, i - 2>>
    BY <1>9 DEF Halves, Speaks
  <2>2. audio_right' = [word |-> sample, shifts |-> BCLKs'] /\ audio_r' = <<sample, BCLKs>>
    BY <1>1, <1>2, <1>9, <2>1, BitOfOne
  <2>3. audio_left' = Word(sample)
    BY <1>1, <1>2, <1>9, BitOfOne
  <2>4. ASSUME NEW i \in 2..BCLKs'
        PROVE  heard'[i] = <<sample, i - 2>>
    <3>1. CASE i = BCLKs + 1
      <4>1. BCLKs > 0 /\ bit = audio_r /\ BCLKs - 1 = i - 2
        BY <1>2, <1>9, <3>1 DEF bit
      <4> QED BY <1>4, <2>1, <3>1, <4>1
    <3>2. CASE i # BCLKs + 1
      <4>1. i \in 2..BCLKs /\ i \in 1..BCLKs
        BY <1>1, <1>2, <3>2
      <4> QED BY <1>4, <2>1, <4>1
    <3> QED BY <3>1, <3>2
  <2>5. BCLKs' - 1 = BCLKs /\ ~ LRCLK' /\ sample' = sample /\ Word(sample)' = Word(sample)
    BY <1>1, <1>2, <1>9 DEF Word
  <2> QED BY <1>7, <2>2, <2>3, <2>4, <2>5 DEF Halves, Speaks
<1> QED BY <1>2, <1>8, <1>9

\* The next sample has an address, too.
LEMMA NextAddressIs ==
  ASSUME audio_address \in Addresses
  PROVE  /\ NextAddress \in Addresses
         /\ audio_address = 0 => NextAddress \in {0, 1}
         /\ audio_address = Samples => NextAddress = 0
         /\ audio_address \in 1..Samples - 1 => NextAddress = audio_address + 1
BY ChompAssumption DEF Addresses, NextAddress

LEMMA WordStep == ASSUME ChompInv, WordEdge PROVE ChompInv'
<1> USE ChompAssumption DEF ChompInv
<1>1. /\ BCLKs = Bits /\ LRCLK' = ~ LRCLK /\ BCLKs' = 0 /\ heard' = <<>>
      /\ before' = heard[Bits][1]
      /\ LRCLK' => counter' = ~ counter /\ audio_address' = NextAddress
                   /\ (IF counter' THEN ReadRom ELSE UNCHANGED sample)
      /\ ~ LRCLK' => UNCHANGED <<counter, audio_address, sample>>
      /\ UNCHANGED <<audio_left, audio_right, audio_l, audio_r>>
  BY DEF WordEdge, registers
<1>2. /\ audio_left \in Registers /\ audio_right \in Registers
      /\ sample \in Addresses /\ audio_address \in Addresses /\ before \in Addresses
      /\ LRCLK \in BOOLEAN /\ counter \in BOOLEAN
  BY DEF ChompTypes
<1>3. heard[Bits] = <<IF LRCLK THEN before ELSE sample, Bits - 2>>
  <2>1. Bits \in 2..BCLKs
    BY <1>1
  <2> QED BY <1>2, <2>1 DEF Halves, Speaks
<1>4. before' = (IF LRCLK THEN before ELSE sample) /\ before' \in Addresses
  BY <1>1, <1>2, <1>3
<1>5. audio_address' \in Addresses /\ sample' \in Addresses
  BY <1>1, <1>2, NextAddressIs DEF ReadRom
<1>6. LRCLK' \in BOOLEAN /\ counter' \in BOOLEAN
  BY <1>1, <1>2
<1>7. heard' \in Seq(Addresses \X Nat) /\ Len(heard') = 0 /\ BCLKs' \in 0..Bits
  BY <1>1
<1>8. ChompTypes'
  <2>1. /\ audio_left' \in Registers /\ audio_right' \in Registers
        /\ audio_l' \in Addresses \X Nat /\ audio_r' \in Addresses \X Nat
    BY <1>1 DEF ChompTypes
  <2> QED BY <1>1, <1>4, <1>5, <1>6, <1>7, <2>1 DEF ChompTypes
<1>9. CASE LRCLK
  <2>1. audio_right = Word(sample) /\ ~ LRCLK' /\ sample' = sample
    <3>1. BCLKs > 0
      BY <1>1
    <3>2. audio_right = Word(sample)
      BY <1>9, <3>1 DEF Halves
    <3>3. ~ LRCLK'
      BY <1>1, <1>9, Zenon
    <3> QED BY <1>1, <3>2, <3>3
  <2>2. audio_right' = [word |-> sample', shifts |-> BCLKs']
    BY <1>1, <2>1 DEF Word
  <2> QED BY <1>1, <1>8, <2>1, <2>2 DEF Halves, Speaks
<1>10. CASE ~ LRCLK
  <2>1. audio_left = Word(sample) /\ LRCLK' /\ before' = sample
    <3>1. BCLKs > 0
      BY <1>1
    <3>2. audio_left = Word(sample)
      BY <1>10, <3>1 DEF Halves
    <3>3. LRCLK'
      BY <1>1, <1>10, Zenon
    <3> QED BY <1>4, <1>10, <3>2, <3>3
  <2>2. audio_left' = [word |-> before', shifts |-> BCLKs']
    BY <1>1, <2>1 DEF Word
  <2> QED BY <1>1, <1>8, <2>1, <2>2 DEF Halves, Speaks
<1> QED BY <1>2, <1>9, <1>10

LEMMA ChompStep == ChompInv /\ [ChompNext]_chompVars => ChompInv'
<1>1. SUFFICES ASSUME ChompInv, [ChompNext]_chompVars PROVE ChompInv'
  OBVIOUS
<1>2. CASE PelletEaten \/ UNCHANGED chompVars
  <2>1. UNCHANGED <<audio_address, counter, sample, LRCLK, BCLKs, audio_left, audio_right,
                    audio_l, audio_r, heard, before>>
    BY <1>2 DEF PelletEaten, chompVars, registers
  <2> QED BY <1>1, <2>1 DEF ChompInv, ChompTypes, Halves, Speaks, Word
<1> QED BY <1>1, <1>2, BitStep, WordStep DEF ChompNext

\* Both ears hear the same whole words, highest bit second, although the sample
\* changes while one register loads and the other one shifts (reg_shift, and
\* audio_left and audio_right of FinalProject1.sv).
THEOREM EarsHearTheSame == ChompSpec => []EarsAgree
<1>1. ChompInv => EarsAgree
  <2>1. SUFFICES ASSUME ChompInv, BCLKs = Bits
                 PROVE  /\ \E w \in 0..Samples : \A i \in 2..Bits : heard[i] = <<w, i - 2>>
                        /\ LRCLK => heard[Bits][1] = before
    BY DEF EarsAgree
  <2>2. before \in 0..Samples /\ sample \in 0..Samples /\ LRCLK \in BOOLEAN /\ Bits \in 2..Bits
    BY <2>1, ChompAssumption DEF ChompInv, ChompTypes, Addresses
  <2>3. CASE LRCLK
    <3>1. \A i \in 2..Bits : heard[i] = <<before, i - 2>>
      BY <2>1, <2>3 DEF ChompInv, Halves, Speaks
    <3>2. heard[Bits][1] = before
      BY <2>2, <3>1
    <3> QED BY <2>2, <3>1, <3>2
  <2>4. CASE ~ LRCLK
    <3>1. \A i \in 2..Bits : heard[i] = <<sample, i - 2>>
      BY <2>1, <2>4 DEF ChompInv, Halves, Speaks
    <3> QED BY <2>2, <2>4, <3>1
  <2> QED BY <2>2, <2>3, <2>4
<1> QED BY <1>1, ChompInitially, ChompStep, PTL DEF ChompSpec

\* The addresses that may follow one.
Following(a) == CASE a = 0 -> {0, 1} [] a = Samples -> {0} [] OTHER -> {a + 1}

\* Where the address is by the sample that was read last: the ROM is read every
\* second time the address moves, before it moves or after, always the same.
Position ==
  /\ late \in BOOLEAN
  /\ late => IF counter THEN audio_address = sample ELSE audio_address \in Following(sample)
  /\ ~ late => IF counter THEN audio_address \in Following(sample)
               ELSE \E a \in Following(sample) : audio_address \in Following(a)

PlayInv == ChompInv /\ Position

LEMMA AddressFollows ==
  ASSUME audio_address \in Addresses
  PROVE  NextAddress \in Following(audio_address)
BY ChompAssumption DEF Addresses, NextAddress, Following

LEMMA PositionInitially == ChompInit => Position
BY ChompAssumption DEF ChompInit, Position, Following

\* Two addresses on.
Second(a, b) == \E c \in Following(a) : b \in Following(c)

LEMMA SampleStep ==
  ASSUME PlayInv, [ChompNext]_chompVars
  PROVE  Position' /\ (sample' = sample \/ Second(sample, sample'))
<1>1. /\ audio_address \in Addresses /\ sample \in Addresses
      /\ LRCLK \in BOOLEAN /\ counter \in BOOLEAN /\ late \in BOOLEAN
  BY DEF PlayInv, ChompInv, ChompTypes, Position
<1>2. CASE UNCHANGED <<audio_address, counter, sample, late>>
  BY <1>2 DEF PlayInv, Position, Following
<1>3. CASE WordEdge /\ LRCLK'
  <2>1. /\ counter' = ~ counter /\ late' = late /\ audio_address' = NextAddress
        /\ IF counter' THEN ReadRom ELSE sample' = sample
    BY <1>3 DEF WordEdge
  <2>2. audio_address' \in Following(audio_address)
    BY <1>1, <2>1, AddressFollows
  <2>3. CASE counter
    <3>1. ~ counter' /\ sample' = sample
      BY <2>1, <2>3
    <3>2. CASE late
      <4>1. audio_address' \in Following(sample')
        BY <2>2, <2>3, <3>1, <3>2 DEF PlayInv, Position
      <4> QED BY <1>1, <2>1, <3>1, <3>2, <4>1 DEF Position
    <3>3. CASE ~ late
      <4>1. audio_address \in Following(sample')
        BY <2>3, <3>1, <3>3 DEF PlayInv, Position
      <4>2. \E a \in Following(sample') : audio_address' \in Following(a)
        BY <2>2, <4>1
      <4>3. \E a \in Following(sample)' : audio_address' \in Following(a)
        BY <4>2 DEF Following
      <4> QED BY <1>1, <2>1, <3>1, <3>3, <4>3 DEF Position, Following
    <3> QED BY <1>1, <3>2, <3>3
  <2>4. CASE ~ counter
    <3>1. counter' /\ ReadRom
      BY <2>1, <2>4
    <3>2. CASE late
      <4>1. sample' = audio_address' /\ audio_address \in Following(sample)
        BY <2>4, <3>1, <3>2 DEF ReadRom, PlayInv, Position
      <4>2. Second(sample, sample')
        BY <2>2, <4>1 DEF Second
      <4> QED BY <1>1, <2>1, <3>1, <3>2, <4>1, <4>2 DEF Position
    <3>3. CASE ~ late
      <4>1. /\ sample' = audio_address
            /\ \E a \in Following(sample) : audio_address \in Following(a)
        BY <2>4, <3>1, <3>3 DEF ReadRom, PlayInv, Position
      <4>2. Second(sample, sample')
        BY <4>1 DEF Second
      <4>3. audio_address' \in Following(sample')
        BY <2>2, <4>1
      <4> QED BY <1>1, <2>1, <3>1, <3>3, <4>2, <4>3 DEF Position, Following
    <3> QED BY <1>1, <3>2, <3>3
  <2> QED BY <1>1, <2>3, <2>4
<1> QED BY <1>2, <1>3 DEF ChompNext, BitEdge, WordEdge, PelletEaten, chompVars

\* A chomp is played through, whatever is eaten meanwhile, and the next one only
\* begins at its end (audio_address and counter in FinalProject1.sv).
THEOREM ChompIsPlayedThrough == ChompSpec => ChompPlaysThrough
<1>1. ChompInit => PlayInv
  BY ChompInitially, PositionInitially DEF PlayInv
<1>2. PlayInv /\ [ChompNext]_chompVars => PlayInv'
  BY ChompStep, SampleStep DEF PlayInv
<1>3. PlayInv /\ [ChompNext]_chompVars =>
        [sample' # sample =>
           \/ sample' = sample + 2
           \/ sample = 0 /\ sample' = 1
           \/ sample >= Samples - 1 /\ sample' \in {0, 1}]_chompVars
  <2>1. SUFFICES ASSUME PlayInv, [ChompNext]_chompVars, sample' # sample
                 PROVE  \/ sample' = sample + 2
                        \/ sample = 0 /\ sample' = 1
                        \/ sample >= Samples - 1 /\ sample' \in {0, 1}
    OBVIOUS
  <2>2. PICK a \in Following(sample) : sample' \in Following(a)
    BY <2>1, SampleStep DEF Second
  <2>3. sample \in 0..Samples
    BY <2>1 DEF PlayInv, ChompInv, ChompTypes, Addresses
  <2> QED BY <2>1, <2>2, <2>3, ChompAssumption DEF Following
<1> QED BY <1>1, <1>2, <1>3, PTL DEF ChompSpec, ChompPlaysThrough

-----------------------------------------------------------------------------
\* The screen.

\* The vertical sync is a pixel late: it is that of the line of the pixel before.
ScanInv ==
  /\ hc \in 0..hpixels /\ vc \in 0..vlines
  /\ hc > 0 => vs = VSynced(vc)
  /\ hc = 0 /\ vc > 0 => vs = VSynced(vc - 1)

LEMMA ScanStep == ScanInv /\ [PixelClock \/ ScanReset]_scanVars => ScanInv'
<1>1. SUFFICES ASSUME ScanInv, [PixelClock \/ ScanReset]_scanVars PROVE ScanInv'
  OBVIOUS
<1>2. CASE UNCHANGED scanVars
  BY <1>1, <1>2 DEF ScanInv, scanVars, VSynced
<1>3. CASE ScanReset
  BY <1>1, <1>3, ScanAssumption DEF ScanInv, ScanReset
<1>4. CASE PixelClock
  <2>1. /\ hc' = IF hc = hpixels THEN 0 ELSE hc + 1
        /\ vc' = IF hc = hpixels THEN (IF vc = vlines THEN 0 ELSE vc + 1) ELSE vc
        /\ vs' = VSynced(vc)
    BY <1>4 DEF PixelClock, Counted
  <2>2. hc \in 0..hpixels /\ vc \in 0..vlines
    BY <1>1 DEF ScanInv
  <2>3. hc' \in 0..hpixels /\ vc' \in 0..vlines
    BY <2>1, <2>2, ScanAssumption
  <2>4. hc' > 0 => vc' = vc
    BY <2>1, <2>2, ScanAssumption
  <2>5. hc' = 0 /\ vc' > 0 => vc' - 1 = vc
    BY <2>1, <2>2, ScanAssumption
  <2> QED BY <2>1, <2>3, <2>4, <2>5 DEF ScanInv
<1> QED BY <1>1, <1>2, <1>3, <1>4

\* The game, clocked by the vertical sync, never moves while a picture is drawn
\* (VGA_controller.sv).
THEOREM FramesOnlyBetweenPictures == ScanSpec => FramesBetweenPictures
<1>1. ScanInit => ScanInv
  BY ScanAssumption DEF ScanInit, ScanInv
<1>2. ScanInv /\ [PixelClock \/ ScanReset]_scanVars =>
        [vs' # vs => ~ display' \/ <<hc', vc'>> = <<0, 0>> \/ <<hc, vc>> = <<0, 0>>]_scanVars
  <2>1. SUFFICES ASSUME ScanInv, PixelClock \/ ScanReset, vs' # vs, <<hc, vc>> # <<0, 0>>
                 PROVE  ~ display' \/ <<hc', vc'>> = <<0, 0>>
    BY DEF scanVars
  <2>2. CASE ScanReset
    BY <2>2 DEF ScanReset
  <2>3. CASE PixelClock
    <3>1. hc \in 0..hpixels /\ vc \in 0..vlines /\ vs' = VSynced(vc)
      BY <2>1, <2>3 DEF ScanInv, PixelClock
    <3>2. hc = 0 /\ vc > 0 /\ VSynced(vc) # VSynced(vc - 1)
      BY <2>1, <3>1 DEF ScanInv
    <3>3. vc >= VSync - 1
      BY <3>1, <3>2, ScanAssumption DEF VSynced
    <3>4. vc' = vc
      BY <2>3, <3>2, ScanAssumption DEF PixelClock
    <3> QED BY <3>1, <3>3, <3>4, ScanAssumption DEF display
  <2> QED BY <2>1, <2>2, <2>3
<1> QED BY <1>1, <1>2, ScanStep, PTL DEF ScanSpec, FramesBetweenPictures
=============================================================================
