-------------------------------- MODULE Scan --------------------------------
(***************************************************************************)
(* VGA_controller.sv: the counters of pixels and lines, and the syncs, of  *)
(* which the vertical one is the clock of the game.                        *)
(***************************************************************************)
EXTENDS Integers

CONSTANTS
  hpixels, vlines,   \* the last pixel of a line and the last line, 799 and 524
  HDisplay, VDisplay,   \* 640 and 480
  HSyncFrom, HSyncTo,   \* 656 and 752
  VSync                 \* 490

ASSUME ScanAssumption ==
  /\ hpixels \in Nat \ {0} /\ vlines \in Nat \ {0}
  /\ VSync \in Nat /\ VDisplay \in 0..VSync - 1

VARIABLES hc, vc, hs, vs

scanVars == <<hc, vc, hs, vs>>

Counted(c, last) == IF c = last THEN 0 ELSE c + 1

\* The code compares the line that is drawn, not the next one, with + 1.
VSynced(line) == line + 1 \notin {VSync, VSync + 1}

PixelClock ==
  /\ hc' = Counted(hc, hpixels)
  /\ vc' = IF hc = hpixels THEN Counted(vc, vlines) ELSE vc
  /\ hs' = (hc + 1 \notin HSyncFrom..HSyncTo - 1)
  /\ vs' = VSynced(vc)

ScanReset == hc' = 0 /\ vc' = 0 /\ hs' = FALSE /\ vs' = FALSE

display == hc < HDisplay /\ vc < VDisplay

ScanInit == hc = 0 /\ vc = 0 /\ hs = FALSE /\ vs = FALSE

ScanSpec == ScanInit /\ [][PixelClock \/ ScanReset]_scanVars

-----------------------------------------------------------------------------
\* The clock of the game has no edge while a picture is drawn, so that a picture
\* shows one state of the game; only a reset has one, at the first pixel.
FramesBetweenPictures ==
  [][vs' # vs => ~ display' \/ <<hc', vc'>> = <<0, 0>> \/ <<hc, vc>> = <<0, 0>>]_scanVars
=============================================================================
