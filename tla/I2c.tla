-------------------------------- MODULE I2c --------------------------------
(***************************************************************************)
(* altera_avalon_i2c.c, polled: transfers that write commands into the     *)
(* FIFO of the controller while it works them off on the bus, look for a   *)
(* NACK after each, and are tried again as a whole.                        *)
(*                                                                         *)
(* The controller is that of altera_avalon_i2c_mstfsm.v and _csr.v.  It is *)
(* the only master on this bus, so arbitration is never lost.  The device  *)
(* has 16-bit registers, sends and takes them high byte first and may      *)
(* refuse any byte, or hold the clock for ever.                            *)
(***************************************************************************)
EXTENDS Integers, Sequences

CONSTANTS
  FIFO_DEPTH,
  Retries,     \* how often a call is tried; 10000 in the code
  Junk,        \* what reading the empty FIFO can return
  RegsAtReset  \* the registers of the device and their values

Byte == 0..255

\* The registers of the device have 16 bits.
WORDS == 65536
DeviceWord == 0..(WORDS - 1)
Word(hi, lo) == 256 * hi + lo

\* FIFO_DEPTH_LOG2 is 1 at least, so that an answer of the device fits in.
ASSUME I2cAssumption ==
  /\ FIFO_DEPTH \in Nat /\ FIFO_DEPTH >= 2 /\ Retries \in Nat \ {0} /\ Junk \subseteq Byte
  /\ DOMAIN RegsAtReset \subseteq DeviceWord
  /\ RegsAtReset \in [DOMAIN RegsAtReset -> DeviceWord]

VARIABLES
  \* the call under way: tx bytes of the buffer are sent, then rx are received
  \* into it
  pc, call, buffer, retry, status,
  receiving,   \* in master_receive
  sent,        \* the commands it, or master_transmit, has written
  bytes_read,
  \* the controller
  ctrl_en, nack_det, fsm, cmds, shifter, rx,
  rw_cmd,      \* "none" before the address is sent, then "W" or "R"
  \* the device
  held,        \* it holds the clock for ever
  regs, pointer,
  bytes        \* what went over the bus since the address

driver     == <<pc, call, buffer, retry, status, receiving, sent, bytes_read>>
controller == <<ctrl_en, nack_det, fsm, cmds, shifter, rx, rw_cmd>>
device     == <<held, regs, pointer, bytes>>

-----------------------------------------------------------------------------
\* The commands of a transfer.

issue_stop == receiving \/ call.rx = 0
size       == IF receiving THEN call.rx ELSE call.tx

Command(byte, restart, stop) == [byte |-> byte, restart |-> restart, stop |-> stop]

target == 10   \* set by main.c

send_address == Command(2 * target + (IF receiving THEN 1 ELSE 0), receiving, FALSE)

NextCommand ==
  IF sent = 0
  THEN send_address
  ELSE Command(IF receiving THEN 0 ELSE buffer[sent], FALSE, issue_stop /\ sent = size)

-----------------------------------------------------------------------------
\* The driver.

enable ==
  /\ ~ ctrl_en /\ ctrl_en' = TRUE
  /\ fsm' = IF fsm = "idle" THEN "start" ELSE fsm

\* The controller is enabled and its status cleared for each try.
Try ==
  /\ pc = "try"
  /\ enable /\ nack_det' = FALSE
  /\ pc' = "write" /\ status' = "SUCCESS"
  /\ receiving' = FALSE /\ sent' = 0 /\ bytes_read' = 0
  /\ UNCHANGED <<call, buffer, retry, cmds, shifter, rx, rw_cmd, device>>

\* Mutant: commands are written without waiting.
tx_ready_Always == TRUE
tx_ready == Len(cmds) < FIFO_DEPTH

\* Both FIFOs are kept empty while nack_det is set.
Put(c) == cmds' = IF nack_det THEN <<>> ELSE Append(cmds, c)

cmd_write ==
  /\ pc = "write" /\ tx_ready
  /\ Put(NextCommand)
  /\ sent' = sent + 1 /\ pc' = "check"
  /\ UNCHANGED <<call, buffer, retry, status, receiving, bytes_read, ctrl_en,
                 nack_det, fsm, shifter, rx, rw_cmd, device>>

Fail(code) ==
  /\ status' = code /\ pc' = "wait"
  /\ UNCHANGED <<call, retry, receiving, sent>>

CmdTimeout ==
  /\ pc = "write" /\ ~ tx_ready /\ held
  /\ Fail("TIMEOUT")
  /\ UNCHANGED <<buffer, bytes_read, controller, device>>

NackSeen ==
  /\ pc = "check" /\ nack_det
  /\ Fail("NACK")
  /\ UNCHANGED <<buffer, bytes_read, controller, device>>

\* Mutant: the buffer is not advanced behind what was received.
Store_NotAdvanced(bs) ==
  /\ buffer' = [k \in DOMAIN buffer |-> IF k \in DOMAIN bs THEN bs[k] ELSE buffer[k]]
  /\ bytes_read' = bytes_read + Len(bs)

Store(bs) ==
  /\ buffer' = [k \in DOMAIN buffer |->
                  IF k - bytes_read \in DOMAIN bs THEN bs[k - bytes_read] ELSE buffer[k]]
  /\ bytes_read' = bytes_read + Len(bs)

rx_read_available ==
  IF receiving /\ sent > 1
  THEN Store(rx) /\ rx' = <<>>
  ELSE UNCHANGED <<buffer, bytes_read, rx>>

NextByte ==
  /\ pc = "check" /\ ~ nack_det /\ sent <= size
  /\ rx_read_available
  /\ pc' = "write"
  /\ UNCHANGED <<call, retry, status, receiving, sent, ctrl_en, nack_det, fsm,
                 cmds, shifter, rw_cmd, device>>

\* The whole buffer is in the FIFO: master_tx_rx goes on to master_receive.
Turn ==
  /\ pc = "check" /\ ~ nack_det /\ sent > size /\ ~ issue_stop
  /\ receiving' = TRUE /\ sent' = 0 /\ pc' = "write"
  /\ UNCHANGED <<call, buffer, retry, status, bytes_read, controller, device>>

LastByte ==
  /\ pc = "check" /\ ~ nack_det /\ sent > size /\ issue_stop
  /\ pc' = IF receiving THEN "read" ELSE "wait"
  /\ UNCHANGED <<call, buffer, retry, status, receiving, sent, bytes_read, controller,
                 device>>

rx_read ==
  /\ pc = "read" /\ rx # <<>>
  /\ Store(<<Head(rx)>>) /\ rx' = Tail(rx)
  /\ pc' = IF bytes_read + 1 < size THEN "read" ELSE "wait"
  /\ UNCHANGED <<call, retry, status, receiving, sent, ctrl_en, nack_det, fsm, cmds,
                 shifter, rw_cmd, device>>

\* Nothing comes any more; the FIFO is read all the same.
ReadTimeout ==
  /\ pc = "read" /\ rx = <<>> /\ (fsm = "idle" \/ held)
  /\ \E b \in Junk : Store(<<b>>)
  /\ Fail("TIMEOUT")
  /\ UNCHANGED <<controller, device>>

is_busy == fsm # "idle"

\* The wait for the end, which a device that holds the clock never lets come.
\* A NACK goes before any other status.

\* Mutant: the wait has no time-out.
Over_NoTimeout == pc = "wait" /\ ~ is_busy
Over == pc = "wait" /\ (~ is_busy \/ held)

\* Mutant: a NACK is not looked for once all commands are written.
Outcome_NoLastLook == IF is_busy THEN "TIMEOUT" ELSE status
Outcome == IF nack_det THEN "NACK" ELSE IF is_busy THEN "TIMEOUT" ELSE status

\* Mutant: a failed transfer leaves the controller enabled.
Disabled_OnSuccess == ctrl_en' = (Outcome # "SUCCESS")
Disabled == ctrl_en' = FALSE

Retry ==
  /\ Over /\ Outcome = "NACK" /\ retry + 1 < Retries
  /\ retry' = retry + 1 /\ pc' = "try" /\ Disabled
  /\ UNCHANGED <<call, buffer, status, receiving, sent, bytes_read, nack_det, fsm,
                 cmds, shifter, rx, rw_cmd, device>>

Return ==
  /\ Over /\ (Outcome = "NACK" => retry + 1 = Retries)
  /\ status' = Outcome /\ pc' = "returned" /\ Disabled
  /\ UNCHANGED <<call, buffer, retry, receiving, sent, bytes_read, nack_det, fsm,
                 cmds, shifter, rx, rw_cmd, device>>

-----------------------------------------------------------------------------
\* The controller.

GenStart ==
  /\ fsm \in {"start", "idle"} /\ cmds # <<>> /\ ~ nack_det
  /\ fsm' = "bus"
  /\ UNCHANGED <<driver, ctrl_en, nack_det, cmds, shifter, rx, rw_cmd, device>>

PopTxFifo ==
  /\ fsm = "bus" /\ shifter = <<>> /\ cmds # <<>>
  /\ shifter' = <<Head(cmds)>> /\ cmds' = Tail(cmds)
  /\ rw_cmd' = IF Head(cmds).restart THEN "none" ELSE rw_cmd
  /\ UNCHANGED <<driver, ctrl_en, nack_det, fsm, rx, device>>

Shifting == fsm = "bus" /\ shifter # <<>> /\ ~ held

Shifted ==
  /\ shifter' = <<>>
  /\ fsm' = IF shifter[1].stop THEN "stop" ELSE "bus"
  /\ UNCHANGED <<driver, ctrl_en, nack_det, cmds, held>>

Gen7BitAddr ==
  /\ Shifting /\ rw_cmd = "none"
  /\ rw_cmd' = IF shifter[1].byte % 2 = 1 THEN "R" ELSE "W"
  /\ bytes' = <<>>
  /\ Shifted
  /\ UNCHANGED <<rx, regs, pointer>>

\* The register's address, then its value.
TxByte ==
  /\ Shifting /\ rw_cmd = "W"
  /\ LET b == shifter[1].byte IN
       /\ bytes' = Append(bytes, b)
       /\ pointer' = IF Len(bytes) = 1 THEN Word(bytes[1], b) ELSE pointer
       /\ regs' = IF Len(bytes) = 3 /\ pointer \in DOMAIN regs
                  THEN [regs EXCEPT ![pointer] = Word(bytes[3], b)]
                  ELSE regs
  /\ Shifted
  /\ UNCHANGED <<rx, rw_cmd>>

Pointed == IF pointer \in DOMAIN regs THEN regs[pointer] ELSE 0

RxByte ==
  /\ Shifting /\ rw_cmd = "R"
  /\ LET b == IF bytes = <<>> THEN Pointed \div 256 ELSE Pointed % 256 IN
       bytes' = Append(bytes, b) /\ rx' = Append(rx, b)
  /\ Shifted
  /\ UNCHANGED <<regs, pointer, rw_cmd>>

Nack ==
  /\ Shifting /\ rw_cmd # "R"
  /\ nack_det' = TRUE /\ fsm' = "stop"
  /\ shifter' = <<>> /\ cmds' = <<>> /\ rx' = <<>>
  /\ UNCHANGED <<driver, ctrl_en, rw_cmd, device>>

GenStop ==
  /\ fsm = "stop" /\ ~ held
  /\ fsm' = IF cmds = <<>> THEN "idle" ELSE "start"
  /\ rw_cmd' = "none"
  /\ UNCHANGED <<driver, ctrl_en, nack_det, cmds, shifter, rx, device>>

HoldClock ==
  /\ ~ held /\ fsm \in {"bus", "stop"}
  /\ held' = TRUE
  /\ UNCHANGED <<driver, controller, regs, pointer, bytes>>

-----------------------------------------------------------------------------
I2cInit ==
  /\ pc = "ready" /\ call = [tx |-> 0, rx |-> 0] /\ buffer = <<>> /\ retry = 0
  /\ status = "SUCCESS" /\ receiving = FALSE /\ sent = 0 /\ bytes_read = 0
  /\ ctrl_en = FALSE /\ nack_det = FALSE /\ fsm = "idle" /\ rw_cmd = "none"
  /\ cmds = <<>> /\ shifter = <<>> /\ rx = <<>>
  /\ held = FALSE /\ regs = RegsAtReset /\ pointer = 0 /\ bytes = <<>>

Driver ==
  \/ Try \/ cmd_write \/ CmdTimeout \/ NackSeen \/ NextByte \/ Turn \/ LastByte
  \/ rx_read \/ ReadTimeout \/ Retry \/ Return

Controller ==
  GenStart \/ PopTxFifo \/ Gen7BitAddr \/ TxByte \/ RxByte \/ Nack \/ GenStop
=============================================================================
