----------------------------- MODULE CodecSetup -----------------------------
(***************************************************************************)
(* What main relies on when it sets up the codec: the registers get their  *)
(* values one after another, as the script has them, and none is touched   *)
(* before the one before it holds its value.                               *)
(***************************************************************************)
EXTENDS Integers, Sequences

CONSTANTS Script, RegsAtReset

VARIABLES step, regs

WriteRegister ==
  /\ step <= Len(Script) /\ Script[step].op = "Wr"
  /\ regs' = [regs EXCEPT ![Script[step].reg] = Script[step].val]
  /\ UNCHANGED step

GoOn ==
  /\ step <= Len(Script)
  /\ Script[step].op = "Wr" => regs[Script[step].reg] = Script[step].val
  /\ step' = step + 1
  /\ UNCHANGED regs

SetupInit == step = 1 /\ regs = RegsAtReset

SetupSpec == SetupInit /\ [][WriteRegister \/ GoOn]_<<step, regs>>
=============================================================================
