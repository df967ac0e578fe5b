------------------------------- MODULE Codec -------------------------------
(***************************************************************************)
(* The start of main.c: the SGTL5000 is set up register by register, each  *)
(* written by SGTL5000_Reg_Wr and read back by SGTL5000_Reg_Rd.            *)
(***************************************************************************)
EXTENDS I2c

CONSTANT Script   \* what main.c reads and writes, in order

ASSUME CodecAssumption ==
  Script \in Seq([op : {"Rd", "Wr"}, reg : DOMAIN RegsAtReset, val : DeviceWord])

VARIABLES
  step,    \* where main is in the script
  value    \* what the last SGTL5000_Reg_Rd returned

vars == <<driver, controller, device, step, value>>

SGTL5000_Reg_Wr(reg, val) ==
  /\ buffer' = <<reg \div 256, reg % 256, val \div 256, val % 256>>
  /\ call' = [tx |-> 4, rx |-> 0]

\* One buffer holds what is sent and what is received.
SGTL5000_Reg_Rd(reg) ==
  /\ buffer' = <<reg \div 256, reg % 256>>
  /\ call' = [tx |-> 2, rx |-> 2]

Call ==
  /\ pc = "ready" /\ step <= Len(Script)
  /\ LET s == Script[step] IN
       IF s.op = "Wr" THEN SGTL5000_Reg_Wr(s.reg, s.val) ELSE SGTL5000_Reg_Rd(s.reg)
  /\ pc' = "try" /\ retry' = 0
  /\ UNCHANGED <<status, receiving, sent, bytes_read, controller, device, step, value>>

Returned ==
  /\ pc = "returned" /\ status = "SUCCESS"
  /\ pc' = "ready" /\ step' = step + 1
  /\ value' = IF Script[step].op = "Rd" THEN Word(buffer[1], buffer[2]) ELSE value
  /\ UNCHANGED <<call, buffer, retry, status, receiving, sent, bytes_read, controller,
                 device>>

\* "hang here"
Hang ==
  /\ pc = "returned" /\ status # "SUCCESS"
  /\ pc' = "hung"
  /\ UNCHANGED <<call, buffer, retry, status, receiving, sent, bytes_read, controller,
                 device, step, value>>

Init == I2cInit /\ step = 1 /\ value = 0

Bus == (Driver \/ Controller \/ HoldClock) /\ UNCHANGED <<step, value>>

Next == Bus \/ Call \/ Returned \/ Hang

\* The processor and the controller run on.
Fairness ==
  /\ WF_vars((Driver /\ UNCHANGED <<step, value>>) \/ Call \/ Returned \/ Hang)
  /\ WF_vars(Controller /\ UNCHANGED <<step, value>>)

Spec == Init /\ [][Next]_vars /\ Fairness
-----------------------------------------------------------------------------
Commands == [byte : Byte, restart : BOOLEAN, stop : BOOLEAN]
Codes == {"SUCCESS", "NACK", "TIMEOUT"}

DriverTypeOK ==
  /\ pc \in {"ready", "try", "write", "check", "read", "wait", "returned", "hung"}
  /\ call \in [tx : {0, 2, 4}, rx : {0, 2}] /\ buffer \in Seq(Byte)
  /\ retry \in 0..(Retries - 1) /\ status \in Codes
  /\ receiving \in BOOLEAN /\ sent \in 0..5 /\ bytes_read \in 0..2

ControllerTypeOK ==
  /\ ctrl_en \in BOOLEAN /\ nack_det \in BOOLEAN
  /\ fsm \in {"idle", "start", "bus", "stop"} /\ rw_cmd \in {"none", "R", "W"}
  /\ cmds \in Seq(Commands) /\ Len(cmds) <= FIFO_DEPTH
  /\ shifter \in Seq(Commands) /\ Len(shifter) <= 1
  /\ rx \in Seq(Byte) /\ Len(rx) <= FIFO_DEPTH

DeviceTypeOK ==
  /\ held \in BOOLEAN /\ regs \in [DOMAIN RegsAtReset -> DeviceWord]
  /\ pointer \in DeviceWord /\ bytes \in Seq(Byte)

\* The types; neither FIFO is ever overrun.
CodecTypeOK ==
  /\ DriverTypeOK /\ ControllerTypeOK /\ DeviceTypeOK
  /\ step \in 1..(Len(Script) + 1) /\ value \in DeviceWord

(***************************************************************************)
(* A call, and every further try, finds the controller as the first one    *)
(* did: disabled, so that it is not refused as busy, and with nothing left *)
(* in it of the transfer before, unless the device blocks the bus.         *)
(***************************************************************************)
StartsAfresh ==
  pc \in {"ready", "try"} =>
    /\ ~ ctrl_en
    /\ held \/ (fsm = "idle" /\ cmds = <<>> /\ shifter = <<>> /\ rx = <<>>)

\* SGTL5000_Reg_Rd returns what the register holds, if no retry was needed.
JustRead == pc = "ready" /\ step > 1 /\ Script[step - 1].op = "Rd"
FirstReadIsRight == JustRead /\ retry = 0 => value = regs[Script[step - 1].reg]

(***************************************************************************)
(* altera_avalon_i2c.h:746: after a NACK, "the command will be retried".   *)
(* The read time-out stores a byte first, and SGTL5000_Reg_Rd receives     *)
(* into the bytes that are sent again: the retry reads another register.   *)
(***************************************************************************)
RetryIsTheSameCommand == JustRead => value = regs[Script[step - 1].reg]

\* The script comes to its end, or the program stops at a call that failed.
SetupEnds == <>(pc = "hung" \/ step > Len(Script))

Setup == INSTANCE CodecSetup

\* NACKs, retries and time-outs do not show: registers are written in order.
IsSetUpInOrder == Setup!SetupSpec
=============================================================================
