---------------------------- MODULE CodecProofs ----------------------------
(***************************************************************************)
(* The set-up of the codec, for every script, every depth of the FIFOs and *)
(* every number of tries: no FIFO is overrun, each call finds the          *)
(* controller as the first did, a read that needs no second try returns    *)
(* what the register holds, the registers are written in order, and no     *)
(* step can be repeated for ever.                                          *)
(***************************************************************************)
EXTENDS Codec, TLAPS

\* A transfer is under way, and nothing has gone wrong in it so far.
InTransfer == pc \in {"write", "check", "read", "wait"}
Live == InTransfer /\ ~ nack_det /\ ~ held

\* What main is doing.
Now == Script[step]
Writes == Now.op = "Wr"

\* The commands of the transfer, numbered from 1: how many there are, how many are
\* written by the driver, taken out of the FIFO, and done.
Total  == IF Writes THEN 5 ELSE 6
Written   == sent + (IF receiving THEN 3 ELSE 0)
Popped == Written - Len(cmds)
Done   == Popped - Len(shifter)

\* The k-th command of a transfer for op that sends b is c.
ByteOf(k, op, b) ==
  CASE k = 1                     -> 20
    [] k = 4 /\ op = "Rd"        -> 21
    [] k \in {5, 6} /\ op = "Rd" -> 0
    [] OTHER                     -> b[k - 1]

IsCommand(c, k, op, b) ==
  /\ c.byte = ByteOf(k, op, b)
  /\ c.restart <=> k = 4 /\ op = "Rd"
  /\ c.stop <=> k = IF op = "Wr" THEN 5 ELSE 6

Empty == cmds = <<>> /\ shifter = <<>> /\ rx = <<>>

\* The driver's own control.
DriverInv ==
  /\ pc # "ready" => step <= Len(Script) /\ call = IF Writes THEN [tx |-> 4, rx |-> 0]
                                                   ELSE [tx |-> 2, rx |-> 2]
  /\ Len(buffer) = call.tx
  /\ ctrl_en <=> InTransfer
  /\ pc \in {"write", "check", "read"} => status = "SUCCESS" /\ bytes_read <= 1
  /\ InTransfer /\ receiving => ~ Writes
  /\ pc = "write" => sent <= size
  /\ pc = "check" => 1 <= sent /\ sent <= size + 1
  /\ pc = "read" => receiving /\ sent = 3
  /\ pc = "wait" /\ status = "SUCCESS" =>
       issue_stop /\ sent = size + 1 /\ (receiving => bytes_read = 2)
  /\ pc = "wait" /\ status = "TIMEOUT" => held \/ nack_det
  /\ pc = "wait" /\ status = "NACK" => nack_det
  /\ InTransfer =>
       bytes_read + Len(rx) <= IF receiving /\ sent > 0 THEN sent - 1 ELSE 0

\* The controller between the transfers and after a failure.
ControllerInv ==
  /\ nack_det => Empty
  /\ held => fsm # "idle"
  /\ ~ held /\ fsm \in {"idle", "start"} => rw_cmd = "none"
  /\ pc \in {"ready", "try"} => Empty
  /\ pc = "ready" => fsm = "idle"
  /\ pc \notin {"ready"} /\ ~ InTransfer => held \/ (fsm = "idle" /\ Empty)
  /\ pc = "returned" /\ status = "SUCCESS" => fsm = "idle" /\ Empty

\* The commands in the controller are the next ones of the transfer.
CommandsInv ==
  Live =>
    /\ 0 <= Done
    /\ \A i \in 1..Len(cmds) : IsCommand(cmds[i], Popped + i, Now.op, buffer)
    /\ shifter # <<>> => IsCommand(shifter[1], Popped, Now.op, buffer)
    /\ fsm \in {"stop", "idle"} <=> Done = Total
    /\ fsm = "start" => Popped = 0

\* What the device has got of it and what it has answered.
OnBus ==
  CASE Done = 0                  -> "none"
    [] Popped = 4 /\ Done = 3 /\ ~ Writes    -> "none"
    [] Done > 3 /\ ~ Writes      -> "R"
    [] OTHER                     -> "W"

BusInv ==
  Live =>
    /\ fsm # "idle" => rw_cmd = OnBus
    /\ OnBus = "W" => Len(bytes) = Done - 1 /\ \A i \in 1..Done - 1 : bytes[i] = buffer[i]
    /\ OnBus = "R" => Len(bytes) = Done - 4
    /\ ~ Writes => bytes_read + Len(rx) = IF Done > 4 THEN Done - 4 ELSE 0
    /\ Done >= 3 /\ (Writes \/ retry = 0) => pointer = Now.reg
    /\ Writes /\ Done = 5 => regs[Now.reg] = Now.val

\* The buffer holds what is sent and then what is received.
Part(k) == IF k = 1 THEN regs[Now.reg] \div 256 ELSE regs[Now.reg] % 256

BufferInv ==
  /\ (pc = "try" \/ InTransfer) /\ Writes =>
       buffer = <<Now.reg \div 256, Now.reg % 256, Now.val \div 256, Now.val % 256>>
  /\ (pc = "try" \/ (InTransfer /\ bytes_read = 0)) /\ ~ Writes /\ retry = 0 =>
       buffer = <<Now.reg \div 256, Now.reg % 256>>
  /\ Live /\ ~ Writes /\ retry = 0 =>
       /\ \A k \in 1..bytes_read : buffer[k] = Part(k)
       /\ \A k \in 1..Len(rx) : rx[k] = Part(bytes_read + k)

\* What holds when a call has come back.
ReturnInv ==
  /\ pc = "returned" /\ status = "SUCCESS" /\ Writes => regs[Now.reg] = Now.val
  /\ pc = "returned" /\ status = "SUCCESS" /\ ~ Writes /\ retry = 0 =>
       buffer = <<Part(1), Part(2)>>
  /\ FirstReadIsRight

CodecInv ==
  /\ CodecTypeOK /\ DriverInv /\ ControllerInv /\ CommandsInv /\ BusInv
  /\ BufferInv /\ ReturnInv

-----------------------------------------------------------------------------
\* Sequences.

LEMMA Appends ==
  ASSUME NEW S, NEW s \in Seq(S), NEW x \in S
  PROVE  /\ Append(s, x) \in Seq(S) /\ Len(Append(s, x)) = Len(s) + 1
         /\ \A i \in 1..Len(s) : Append(s, x)[i] = s[i]
         /\ Append(s, x)[Len(s) + 1] = x
OBVIOUS

LEMMA Tails ==
  ASSUME NEW S, NEW s \in Seq(S), s # <<>>
  PROVE  /\ Tail(s) \in Seq(S) /\ Len(Tail(s)) = Len(s) - 1
         /\ \A i \in 1..Len(s) - 1 : Tail(s)[i] = s[i + 1]
         /\ Head(s) = s[1] /\ Head(s) \in S /\ Len(s) \in Nat /\ Len(s) >= 1
OBVIOUS

LEMMA EmptyIs ==
  ASSUME NEW S, NEW s \in Seq(S)
  PROVE  /\ Len(s) \in Nat /\ (s = <<>> <=> Len(s) = 0)
         /\ <<>> \in Seq(S) /\ Len(<<>>) = 0
OBVIOUS

LEMMA ElementOf ==
  ASSUME NEW S, NEW s \in Seq(S), NEW i \in 1..Len(s)
  PROVE  s[i] \in S
OBVIOUS

\* A register and its two bytes.
LEMMA WordsIs == WORDS = 65536
BY DEF WORDS

LEMMA WordsInt == WORDS \in Int
BY DEF WORDS

LEMMA Between ==
  ASSUME NEW n \in Int, NEW s \in Int
  PROVE  s \in 0..(n - 1) <=> 0 <= s /\ s < n
OBVIOUS

LEMMA WordRange ==
  /\ \A w \in DeviceWord : w \in Int /\ 0 <= w /\ w < WORDS
  /\ \A w \in Int : 0 <= w /\ w < WORDS => w \in DeviceWord
<1>1. ASSUME NEW w \in DeviceWord PROVE w \in Int /\ 0 <= w /\ w < WORDS
  BY WordsInt DEF DeviceWord
<1>2. ASSUME NEW w \in Int, 0 <= w, w < WORDS PROVE w \in DeviceWord
  BY <1>2, WordsInt, Between DEF DeviceWord
<1> QED BY <1>1, <1>2

LEMMA TwoBytes ==
  ASSUME NEW w \in DeviceWord
  PROVE  /\ w \div 256 \in Byte /\ w % 256 \in Byte
         /\ Word(w \div 256, w % 256) = w
<1>1. w \in Int /\ 0 <= w /\ w < 65536
  BY WordRange, WordsIs
<1>2. w \div 256 \in Int /\ 0 <= w \div 256 /\ w \div 256 < 256
  BY <1>1
<1>3. w % 256 \in Int /\ 0 <= w % 256 /\ w % 256 < 256
  BY <1>1
<1>4. w \div 256 \in Byte /\ w % 256 \in Byte
  BY <1>2, <1>3 DEF Byte
<1>5. 256 * (w \div 256) + (w % 256) = w
  BY <1>1
<1> QED BY <1>4, <1>5 DEF Word

LEMMA WordIs ==
  ASSUME NEW hi \in Byte, NEW lo \in Byte
  PROVE  Word(hi, lo) \in DeviceWord
<1> DEFINE w == 256 * hi + lo
<1>1. hi \in Int /\ lo \in Int /\ 0 <= hi /\ hi < 256 /\ 0 <= lo /\ lo < 256
  BY DEF Byte
<1>2. w \in Int /\ 0 <= w /\ w < WORDS
  BY <1>1, WordsIs
<1> HIDE DEF w
<1>3. w \in DeviceWord
  BY <1>2, WordRange
<1> QED BY <1>3 DEF Word, w

\* What main does in a step of the script.
LEMMA NowIs ==
  ASSUME step \in 1..Len(Script)
  PROVE  /\ Now.op \in {"Rd", "Wr"} /\ Now.reg \in DOMAIN RegsAtReset
         /\ Now.reg \in DeviceWord /\ Now.val \in DeviceWord
<1> DEFINE Steps == [op : {"Rd", "Wr"}, reg : DOMAIN RegsAtReset, val : DeviceWord]
<1>1. Script[step] \in Steps
  <2>1. Script \in Seq(Steps)
    BY CodecAssumption
  <2> HIDE DEF Steps
  <2> QED BY <2>1, ElementOf
<1>2. /\ Now.op \in {"Rd", "Wr"} /\ Now.reg \in DOMAIN RegsAtReset
      /\ Now.val \in DeviceWord
  BY <1>1 DEF Now
<1>3. DOMAIN RegsAtReset \subseteq DeviceWord
  BY I2cAssumption
<1> QED BY <1>2, <1>3

-----------------------------------------------------------------------------
\* The beginning.
LEMMA CodecInit == ASSUME Init PROVE CodecInv
<1>1. CodecTypeOK
  <2>1. DriverTypeOK
    <3>1. Retries \in Nat \ {0}
      BY I2cAssumption
    <3>2. buffer \in Seq(Byte)
      BY DEF Init, I2cInit
    <3>3. call \in [tx : {0, 2, 4}, rx : {0, 2}]
      BY DEF Init, I2cInit
    <3>4. receiving \in BOOLEAN
      BY DEF Init, I2cInit
    <3>5. retry \in 0..(Retries - 1)
      BY <3>1 DEF Init, I2cInit
    <3> QED BY <3>2, <3>3, <3>4, <3>5 DEF Init, I2cInit, DriverTypeOK, Codes
  <2>2. ControllerTypeOK
    <3>1. cmds \in Seq(Commands) /\ shifter \in Seq(Commands) /\ rx \in Seq(Byte)
      BY DEF Init, I2cInit
    <3>2. Len(cmds) = 0 /\ Len(shifter) = 0 /\ Len(rx) = 0
      BY DEF Init, I2cInit
    <3>3. ctrl_en \in BOOLEAN /\ nack_det \in BOOLEAN
      BY DEF Init, I2cInit
    <3>4. FIFO_DEPTH \in Nat
      BY I2cAssumption
    <3> QED BY <3>1, <3>2, <3>3, <3>4 DEF Init, I2cInit, ControllerTypeOK
  <2>3. DeviceTypeOK
    <3>1. held \in BOOLEAN
      BY DEF Init, I2cInit
    <3>2. bytes \in Seq(Byte)
      BY DEF Init, I2cInit
    <3>3. regs \in [DOMAIN RegsAtReset -> DeviceWord]
      BY I2cAssumption DEF Init, I2cInit
    <3>4. pointer \in DeviceWord
      BY WordRange, WordsIs DEF Init, I2cInit
    <3> QED BY <3>1, <3>2, <3>3, <3>4 DEF DeviceTypeOK
  <2>4. Len(Script) \in Nat
    BY CodecAssumption
  <2>5. step \in 1..(Len(Script) + 1) /\ value \in DeviceWord
    BY <2>4, WordRange, WordsIs DEF Init
  <2> QED BY <2>1, <2>2, <2>3, <2>5 DEF CodecTypeOK
<1>2. DriverInv /\ ControllerInv
  BY DEF Init, I2cInit, DriverInv, ControllerInv, InTransfer, Empty
<1>3. CommandsInv /\ BusInv /\ BufferInv
  BY DEF Init, I2cInit, CommandsInv, BusInv, BufferInv, InTransfer, Live
<1>4. ReturnInv
  BY DEF Init, I2cInit, ReturnInv, FirstReadIsRight, JustRead
<1> QED BY <1>1, <1>2, <1>3, <1>4 DEF CodecInv

\* The numbers of the invariant are numbers.
LEMMA Numbers ==
  ASSUME CodecTypeOK
  PROVE  /\ sent \in 0..5 /\ sent \in Int /\ bytes_read \in 0..2 /\ bytes_read \in Int
         /\ Len(cmds) \in Nat /\ (cmds = <<>> <=> Len(cmds) = 0)
         /\ Len(shifter) \in {0, 1} /\ (shifter = <<>> <=> Len(shifter) = 0)
         /\ Len(rx) \in Nat /\ (rx = <<>> <=> Len(rx) = 0)
         /\ Written \in Int /\ Popped \in Int /\ Done \in Int
         /\ Len(bytes) \in Nat /\ Len(buffer) \in Nat
<1>1. /\ sent \in 0..5 /\ sent \in Int /\ bytes_read \in 0..2 /\ bytes_read \in Int
  BY DEF CodecTypeOK, DriverTypeOK
<1>2. /\ cmds \in Seq(Commands) /\ shifter \in Seq(Commands) /\ Len(shifter) <= 1
      /\ rx \in Seq(Byte)
  BY DEF CodecTypeOK, ControllerTypeOK
<1>3. /\ buffer \in Seq(Byte) /\ bytes \in Seq(Byte)
  BY DEF CodecTypeOK, DriverTypeOK, DeviceTypeOK
<1>4. Len(bytes) \in Nat /\ Len(buffer) \in Nat
  BY <1>3, EmptyIs
<1>5. /\ Len(cmds) \in Nat /\ (cmds = <<>> <=> Len(cmds) = 0)
      /\ Len(shifter) \in Nat /\ (shifter = <<>> <=> Len(shifter) = 0)
      /\ Len(rx) \in Nat /\ (rx = <<>> <=> Len(rx) = 0)
  BY <1>2, EmptyIs
<1>6. Len(shifter) \in {0, 1}
  BY <1>2, <1>5
<1>7. Written \in Int
  BY <1>1 DEF Written
<1>8. Popped \in Int
  BY <1>5, <1>7 DEF Popped
<1>9. Done \in Int
  BY <1>6, <1>8 DEF Done
<1> QED BY <1>1, <1>4, <1>5, <1>6, <1>7, <1>8, <1>9

\* A try starts a transfer with nothing in the controller.
LEMMA TryInv ==
  ASSUME CodecInv, Try, UNCHANGED <<step, value>>
  PROVE  CodecInv'
<1>1. /\ pc = "try" /\ pc' = "write" /\ status' = "SUCCESS"
      /\ receiving' = FALSE /\ sent' = 0 /\ bytes_read' = 0
      /\ call' = call /\ buffer' = buffer /\ retry' = retry /\ cmds' = cmds
      /\ shifter' = shifter /\ rx' = rx /\ rw_cmd' = rw_cmd /\ held' = held
      /\ regs' = regs /\ pointer' = pointer /\ bytes' = bytes /\ step' = step
      /\ value' = value /\ fsm' = IF fsm = "idle" THEN "start" ELSE fsm
  BY DEF Try, enable, device
<1>2. ctrl_en' = TRUE /\ nack_det' = FALSE
  BY DEF Try, enable
<1>3. cmds = <<>> /\ shifter = <<>> /\ rx = <<>>
  BY <1>1 DEF CodecInv, ControllerInv, Empty
<1>4. CodecTypeOK'
  <2>1. DriverTypeOK'
    <3>1. receiving' \in BOOLEAN
      BY <1>1
    <3> QED BY <1>1, <3>1 DEF CodecInv, CodecTypeOK, DriverTypeOK, Codes
  <2>2. ControllerTypeOK'
    BY <1>1, <1>2 DEF CodecInv, CodecTypeOK, ControllerTypeOK
  <2>3. DeviceTypeOK'
    BY <1>1 DEF CodecInv, CodecTypeOK, DeviceTypeOK
  <2> QED BY <1>1, <2>1, <2>2, <2>3 DEF CodecInv, CodecTypeOK
<1>5. DriverInv'
  BY <1>1, <1>2, <1>3, Numbers
     DEF CodecInv, CodecTypeOK, DriverInv, InTransfer, size, issue_stop, Writes, Now
<1>6. ControllerInv'
  BY <1>1, <1>2, <1>3 DEF CodecInv, ControllerInv, Empty, InTransfer
<1>7. Live' => Written' = 0 /\ Popped' = 0 /\ Done' = 0 /\ fsm' = "start"
  <2>1. Written' = 0
    BY <1>1 DEF Written
  <2>2. Popped' = 0 /\ Done' = 0
    <3>1. Len(cmds') = 0 /\ Len(shifter') = 0
      BY <1>1, <1>3
    <3> QED BY <2>1, <3>1 DEF Popped, Done
  <2>3. Live' => fsm = "idle"
    BY <1>1 DEF CodecInv, ControllerInv, InTransfer, Live
  <2> QED BY <1>1, <2>1, <2>2, <2>3
<1>8. CommandsInv'
  BY <1>1, <1>3, <1>7 DEF CommandsInv, Total
<1>9. BusInv'
  BY <1>1, <1>3, <1>7
     DEF CodecInv, ControllerInv, BusInv, OnBus, Live
<1>10. BufferInv'
  BY <1>1, <1>3, <1>7 DEF CodecInv, BufferInv, InTransfer, Live, Writes, Now
<1>11. ReturnInv'
  BY <1>1 DEF CodecInv, ReturnInv, FirstReadIsRight, JustRead
<1> QED BY <1>4, <1>5, <1>6, <1>8, <1>9, <1>10, <1>11 DEF CodecInv

\* What the driver writes next is the next command of the transfer.
LEMMA NextIs ==
  ASSUME CodecInv, pc = "write"
  PROVE  NextCommand \in Commands /\ IsCommand(NextCommand, Written + 1, Now.op, buffer)
<1>1. /\ step <= Len(Script) /\ sent <= size /\ (receiving => ~ Writes)
      /\ call = IF Writes THEN [tx |-> 4, rx |-> 0] ELSE [tx |-> 2, rx |-> 2]
      /\ Len(buffer) = call.tx
  BY DEF CodecInv, DriverInv, InTransfer
<1>2. sent \in 0..5 /\ buffer \in Seq(Byte) /\ receiving \in BOOLEAN
      /\ Now.op \in {"Rd", "Wr"}
  BY <1>1, NowIs DEF CodecInv, CodecTypeOK, DriverTypeOK
<1>3. 20 \in Byte /\ 21 \in Byte /\ 0 \in Byte
  BY DEF Byte
<1>4. CASE sent = 0 /\ ~ receiving
  <2>1. /\ NextCommand.byte = 20 /\ NextCommand.restart = receiving
        /\ NextCommand.stop = FALSE
        /\ NextCommand \in [byte : {20}, restart : {receiving}, stop : {FALSE}]
    BY <1>4 DEF NextCommand, send_address, target, Command
  <2>3. NextCommand \in Commands
    BY <1>2, <1>3, <2>1 DEF Commands
  <2>2. Written + 1 = 1
    BY <1>4 DEF Written
  <2> QED BY <1>4, <2>1, <2>2, <2>3 DEF IsCommand, ByteOf
<1>5. CASE sent = 0 /\ receiving
  <2>1. NextCommand = [byte |-> 21, restart |-> TRUE, stop |-> FALSE]
    BY <1>2, <1>5 DEF NextCommand, send_address, target, Command
  <2>2. Written + 1 = 4
    BY <1>5 DEF Written
  <2> QED BY <1>1, <1>2, <1>3, <1>5, <2>1, <2>2 DEF IsCommand, ByteOf, Commands, Writes
<1>6. CASE sent # 0 /\ receiving
  <2>1. sent \in {1, 2} /\ size = 2 /\ issue_stop
    BY <1>1, <1>2, <1>6 DEF size, issue_stop
  <2>2. Written + 1 = sent + 4
    BY <1>2, <1>6 DEF Written
  <2>3. /\ NextCommand.byte = 0 /\ NextCommand.restart = FALSE
        /\ NextCommand.stop = (sent = 2)
        /\ NextCommand \in [byte : {0}, restart : BOOLEAN, stop : BOOLEAN]
    BY <1>6, <2>1 DEF NextCommand, Command
  <2>4. NextCommand \in Commands
    BY <1>3, <2>3 DEF Commands
  <2>5. IsCommand(NextCommand, Written + 1, Now.op, buffer)
    BY <1>1, <1>2, <1>6, <2>1, <2>2, <2>3 DEF IsCommand, ByteOf, Writes
  <2> QED BY <2>4, <2>5
<1>7. CASE sent # 0 /\ ~ receiving
  <2>1. sent \in 1..call.tx /\ call.tx \in {2, 4} /\ size = call.tx
    BY <1>1, <1>2, <1>7 DEF size
  <2>2. buffer[sent] \in Byte
    BY <1>1, <1>2, <2>1, ElementOf
  <2>3. Written + 1 = sent + 1
    BY <1>2, <1>7 DEF Written
  <2>4. (issue_stop /\ sent = size) <=> (Writes /\ sent = 4)
    BY <1>1, <1>7, <2>1 DEF issue_stop
  <2>5. /\ NextCommand.byte = buffer[sent] /\ NextCommand.restart = FALSE
        /\ NextCommand.stop = (issue_stop /\ sent = size)
        /\ NextCommand \in [byte : {buffer[sent]}, restart : BOOLEAN, stop : BOOLEAN]
    BY <1>7 DEF NextCommand, Command
  <2>6. NextCommand \in Commands
    BY <2>2, <2>5 DEF Commands
  <2>7. sent \in {1, 2, 3, 4} /\ (~ Writes => sent \in {1, 2})
    BY <1>1, <2>1
  <2>8. IsCommand(NextCommand, sent + 1, Now.op, buffer)
    BY <1>2, <2>4, <2>5, <2>7 DEF IsCommand, ByteOf, Writes
  <2> QED BY <2>3, <2>6, <2>8
<1> QED BY <1>2, <1>4, <1>5, <1>6, <1>7

LEMMA cmd_writeInv ==
  ASSUME CodecInv, cmd_write, UNCHANGED <<step, value>>
  PROVE  CodecInv'
<1>1. /\ pc = "write" /\ pc' = "check" /\ sent' = sent + 1
      /\ call' = call /\ buffer' = buffer /\ retry' = retry /\ status' = status
      /\ receiving' = receiving /\ bytes_read' = bytes_read
      /\ shifter' = shifter /\ rx' = rx /\ rw_cmd' = rw_cmd /\ fsm' = fsm
      /\ regs' = regs /\ pointer' = pointer /\ bytes' = bytes /\ step' = step
      /\ value' = value /\ Len(cmds) < FIFO_DEPTH
      /\ cmds' = IF nack_det THEN <<>> ELSE Append(cmds, NextCommand)
  BY DEF cmd_write, tx_ready, Put, device
<1>2. ctrl_en' = ctrl_en /\ nack_det' = nack_det /\ held' = held
  BY DEF cmd_write, device
<1>3. /\ NextCommand \in Commands /\ IsCommand(NextCommand, Written + 1, Now.op, buffer)
      /\ cmds \in Seq(Commands) /\ FIFO_DEPTH \in Nat /\ Now' = Now
  BY <1>1, NextIs, I2cAssumption DEF CodecInv, CodecTypeOK, ControllerTypeOK, Now
<1>4. /\ sent <= size /\ (receiving => ~ Writes) /\ step <= Len(Script)
      /\ call = IF Writes THEN [tx |-> 4, rx |-> 0] ELSE [tx |-> 2, rx |-> 2]
  BY <1>1 DEF CodecInv, DriverInv, InTransfer
<1>5. CodecTypeOK'
  <2>1. sent' \in 0..5
    <3>1. sent \in 0..5 /\ sent \in Int
      BY Numbers DEF CodecInv
    <3>2. size \in {2, 4}
      BY <1>4 DEF size
    <3>3. sent' = sent + 1
      BY <1>1
    <3> QED BY <1>4, <3>1, <3>2, <3>3
  <2>2. DriverTypeOK'
    BY <1>1, <2>1 DEF CodecInv, CodecTypeOK, DriverTypeOK
  <2>3. cmds' \in Seq(Commands) /\ Len(cmds') <= FIFO_DEPTH
    BY <1>1, <1>3, Appends, EmptyIs
  <2>4. ControllerTypeOK'
    BY <1>1, <1>2, <2>3 DEF CodecInv, CodecTypeOK, ControllerTypeOK
  <2>5. DeviceTypeOK'
    BY <1>1, <1>2 DEF CodecInv, CodecTypeOK, DeviceTypeOK
  <2> QED BY <1>1, <2>2, <2>4, <2>5 DEF CodecInv, CodecTypeOK
<1>6. DriverInv'
  <2>1. /\ step' <= Len(Script)
        /\ call' = IF Writes' THEN [tx |-> 4, rx |-> 0] ELSE [tx |-> 2, rx |-> 2]
    BY <1>1, <1>4 DEF Writes, Now
  <2>2. Len(buffer') = call'.tx
    BY <1>1 DEF CodecInv, DriverInv
  <2>3. ctrl_en' <=> InTransfer'
    BY <1>1, <1>2 DEF CodecInv, DriverInv, InTransfer
  <2>4. status' = "SUCCESS" /\ bytes_read' <= 1
    BY <1>1 DEF CodecInv, DriverInv
  <2>5. receiving' => ~ Writes'
    BY <1>1, <1>4 DEF Writes, Now
  <2>6. 1 <= sent' /\ sent' <= size' + 1
    BY SMTT(30), <1>1, <1>4, Numbers DEF CodecInv, size
  <2>7. bytes_read' + Len(rx') <= IF receiving' /\ sent' > 0 THEN sent' - 1 ELSE 0
    BY SMTT(30), <1>1, Numbers DEF CodecInv, DriverInv, InTransfer
  <2> QED BY <1>1, <2>1, <2>2, <2>3, <2>4, <2>5, <2>6, <2>7 DEF DriverInv
<1>7. ControllerInv'
  BY <1>1, <1>2 DEF CodecInv, ControllerInv, Empty, InTransfer
<1>8. Live' => /\ Live /\ Written' = Written + 1 /\ Popped' = Popped /\ Done' = Done
               /\ Len(cmds') = Len(cmds) + 1
               /\ \A i \in 1..Len(cmds) : cmds'[i] = cmds[i]
               /\ cmds'[Len(cmds) + 1] = NextCommand
  <2>1. Live' => Live /\ cmds' = Append(cmds, NextCommand)
    BY <1>1, <1>2 DEF Live, InTransfer
  <2>2. Written' = Written + 1
    BY <1>1, Numbers DEF CodecInv, Written
  <2>3. Live' => /\ Len(cmds') = Len(cmds) + 1
                 /\ \A i \in 1..Len(cmds) : cmds'[i] = cmds[i]
                 /\ cmds'[Len(cmds) + 1] = NextCommand
    BY <1>3, <2>1, Appends
  <2>4. Live' => Popped' = Popped
    BY SMTT(30), <2>2, <2>3, Numbers DEF CodecInv, Popped
  <2>5. Live' => Done' = Done
    BY <1>1, <2>4 DEF Done
  <2> QED BY <2>1, <2>2, <2>3, <2>4, <2>5
<1>9. CommandsInv'
  <2> SUFFICES ASSUME Live'
               PROVE  /\ 0 <= Done'
                      /\ \A i \in 1..Len(cmds') :
                           IsCommand(cmds'[i], Popped' + i, Now'.op, buffer')
                      /\ shifter' # <<>> =>
                           IsCommand(shifter'[1], Popped', Now'.op, buffer')
                      /\ fsm' \in {"stop", "idle"} <=> Done' = Total'
                      /\ fsm' = "start" => Popped' = 0
    BY DEF CommandsInv
  <2>1. /\ 0 <= Done
        /\ \A i \in 1..Len(cmds) : IsCommand(cmds[i], Popped + i, Now.op, buffer)
        /\ shifter # <<>> => IsCommand(shifter[1], Popped, Now.op, buffer)
        /\ fsm \in {"stop", "idle"} <=> Done = Total
        /\ fsm = "start" => Popped = 0
    BY <1>8 DEF CodecInv, CommandsInv
  <2>2. ASSUME NEW i \in 1..Len(cmds')
        PROVE  IsCommand(cmds'[i], Popped' + i, Now'.op, buffer')
    <3>1. Popped + Len(cmds) = Written
      BY Numbers DEF CodecInv, Popped
    <3>2. CASE i \in 1..Len(cmds)
      BY <1>1, <1>3, <1>8, <2>1, <3>2
    <3>3. CASE i = Len(cmds) + 1
      <4>1. cmds'[i] = NextCommand
        BY <1>8, <3>3
      <4>2. Popped' + i = Written + 1
        <5>1. Popped' = Popped
          BY <1>8
        <5> QED BY <3>1, <3>3, <5>1, Numbers DEF CodecInv
      <4> QED BY <1>1, <1>3, <4>1, <4>2
    <3> QED BY <1>8, <3>2, <3>3, Numbers DEF CodecInv
  <2>3. Total' = Total
    BY <1>3 DEF Total, Writes
  <2> QED BY <1>1, <1>3, <1>8, <2>1, <2>2, <2>3
<1>10. BusInv'
  BY <1>1, <1>3, <1>8 DEF CodecInv, BusInv, OnBus, Writes
<1>11. BufferInv'
  BY <1>1, <1>3, <1>8 DEF CodecInv, BufferInv, InTransfer, Writes, Part
<1>12. ReturnInv'
  BY <1>1 DEF CodecInv, ReturnInv, FirstReadIsRight, JustRead
<1> QED BY <1>5, <1>6, <1>7, <1>9, <1>10, <1>11, <1>12 DEF CodecInv

\* A transfer that has gone wrong promises nothing about the bus.
LEMMA NotLive == ASSUME ~ Live' PROVE CommandsInv' /\ BusInv'
BY DEF CommandsInv, BusInv

\* The driver gives up writing.
LEMMA FailInv ==
  ASSUME CodecInv, CmdTimeout \/ NackSeen, UNCHANGED <<step, value>>
  PROVE  CodecInv'
<1>1. /\ pc \in {"write", "check"} /\ pc' = "wait" /\ status' \in {"TIMEOUT", "NACK"}
      /\ call' = call /\ buffer' = buffer /\ retry' = retry /\ sent' = sent
      /\ bytes_read' = bytes_read /\ cmds' = cmds /\ fsm' = fsm
      /\ shifter' = shifter /\ rx' = rx /\ rw_cmd' = rw_cmd
      /\ regs' = regs /\ pointer' = pointer /\ bytes' = bytes /\ step' = step
      /\ value' = value
  BY DEF CmdTimeout, NackSeen, Fail, controller, device
<1>2. /\ ctrl_en' = ctrl_en /\ nack_det' = nack_det /\ held' = held
      /\ receiving' = receiving
  BY DEF CmdTimeout, NackSeen, Fail, controller, device
<1>3. (status' = "TIMEOUT" => held) /\ (status' = "NACK" => nack_det)
  BY DEF CmdTimeout, NackSeen, Fail
<1>4. CodecTypeOK'
  <2>1. DriverTypeOK'
    BY <1>1, <1>2 DEF CodecInv, CodecTypeOK, DriverTypeOK, Codes
  <2>2. ControllerTypeOK'
    BY <1>1, <1>2 DEF CodecInv, CodecTypeOK, ControllerTypeOK
  <2>3. DeviceTypeOK'
    BY <1>1, <1>2 DEF CodecInv, CodecTypeOK, DeviceTypeOK
  <2> QED BY <1>1, <2>1, <2>2, <2>3 DEF CodecInv, CodecTypeOK
<1>5. InTransfer /\ InTransfer'
  BY <1>1 DEF InTransfer
<1>6. DriverInv'
  BY <1>1, <1>2, <1>3, <1>5 DEF CodecInv, DriverInv, Writes, Now
<1>7. ControllerInv'
  BY <1>1, <1>2, <1>5 DEF CodecInv, ControllerInv, Empty
<1>8. ~ Live'
  BY <1>1, <1>2, <1>3 DEF Live
<1>9. BufferInv'
  BY <1>1, <1>5, <1>8 DEF CodecInv, BufferInv, Writes, Now
<1>10. ReturnInv'
  BY <1>1 DEF ReturnInv, FirstReadIsRight, JustRead
<1> QED BY <1>4, <1>6, <1>7, <1>8, <1>9, <1>10, NotLive DEF CodecInv

-----------------------------------------------------------------------------
\* Receiving.

\* What is stored goes behind what has been stored before.
LEMMA StoreIs ==
  ASSUME CodecTypeOK, NEW bs \in Seq(Byte), Store(bs)
  PROVE  /\ buffer' \in Seq(Byte) /\ Len(buffer') = Len(buffer)
         /\ bytes_read' = bytes_read + Len(bs)
         /\ \A k \in 1..Len(buffer) :
              buffer'[k] = IF k - bytes_read \in 1..Len(bs) THEN bs[k - bytes_read]
                           ELSE buffer[k]
<1>1. buffer \in Seq(Byte) /\ bytes_read \in Int
  BY Numbers DEF CodecTypeOK, DriverTypeOK
<1>2. DOMAIN bs = 1..Len(bs) /\ DOMAIN buffer = 1..Len(buffer) /\ Len(buffer) \in Nat
      /\ Len(bs) \in Nat
  BY <1>1
<1>3. buffer' = [k \in 1..Len(buffer) |->
                  IF k - bytes_read \in 1..Len(bs) THEN bs[k - bytes_read] ELSE buffer[k]]
  BY <1>2 DEF Store
<1>4. ASSUME NEW k \in 1..Len(buffer)
      PROVE  (IF k - bytes_read \in 1..Len(bs) THEN bs[k - bytes_read] ELSE buffer[k])
               \in Byte
  BY <1>1, ElementOf
<1>5. buffer' \in [1..Len(buffer) -> Byte]
  BY <1>3, <1>4
<1>6. buffer' \in Seq(Byte) /\ Len(buffer') = Len(buffer)
  BY <1>2, <1>5
<1> QED BY <1>3, <1>6 DEF Store

\* Nothing stored, nothing changed.
LEMMA StoreNothing ==
  ASSUME CodecTypeOK, NEW bs \in Seq(Byte), Store(bs), Len(bs) = 0
  PROVE  buffer' = buffer
<1>1. /\ buffer' \in Seq(Byte) /\ Len(buffer') = Len(buffer) /\ buffer \in Seq(Byte)
      /\ \A k \in 1..Len(buffer) : buffer'[k] = buffer[k]
  <2>1. /\ buffer' \in Seq(Byte) /\ Len(buffer') = Len(buffer)
        /\ \A k \in 1..Len(buffer) :
              buffer'[k] = IF k - bytes_read \in 1..Len(bs) THEN bs[k - bytes_read]
                           ELSE buffer[k]
    BY StoreIs
  <2>2. \A j : j \notin 1..Len(bs)
    OBVIOUS
  <2>3. buffer \in Seq(Byte)
    BY DEF CodecTypeOK, DriverTypeOK
  <2> QED BY <2>1, <2>2, <2>3
<1> QED BY <1>1

\* The commands after the second address do not depend on the buffer.
LEMMA CommandKept ==
  ASSUME NEW c, NEW k, k \in {4, 5, 6}, NEW b, NEW b2, IsCommand(c, k, "Rd", b)
  PROVE  IsCommand(c, k, "Rd", b2)
BY DEF IsCommand, ByteOf

\* Taking answers out of the FIFO into the buffer keeps what is known of both.
LEMMA Receives ==
  ASSUME CodecInv, NEW bs \in Seq(Byte), Store(bs), Len(bs) <= Len(rx),
         \A i \in 1..Len(bs) : bs[i] = rx[i],
         Len(rx') = Len(rx) - Len(bs),
         \A i \in 1..Len(rx') : rx'[i] = rx[Len(bs) + i],
         InTransfer, InTransfer', ~ Writes, Now' = Now,
         receiving' = receiving, sent' = sent, cmds' = cmds, shifter' = shifter,
         fsm' = fsm, rw_cmd' = rw_cmd, held' = held, nack_det' = nack_det,
         retry' = retry, regs' = regs, pointer' = pointer, bytes' = bytes,
         step' = step
  PROVE  CommandsInv' /\ BusInv' /\ BufferInv'
<1>0. CodecTypeOK
  BY DEF CodecInv
<1>1. /\ ~ Writes' /\ (Live' <=> Live)
      /\ Written' = Written /\ Popped' = Popped /\ Done' = Done
  BY DEF Writes, Live, Written, Popped, Done
<1>2. /\ Len(bs) \in Nat /\ Len(buffer) = 2 /\ Now.op = "Rd" /\ Len(buffer') = 2
      /\ bytes_read' = bytes_read + Len(bs) /\ call = [tx |-> 2, rx |-> 2]
      /\ \A k \in 1..2 : buffer'[k] = IF k - bytes_read \in 1..Len(bs)
                                      THEN bs[k - bytes_read] ELSE buffer[k]
      /\ (Len(bs) = 0 => buffer' = buffer)
  <2>1. step \in 1..Len(Script) /\ call = [tx |-> 2, rx |-> 2] /\ Len(buffer) = call.tx
    <3>1. step <= Len(Script) /\ call = [tx |-> 2, rx |-> 2] /\ Len(buffer) = call.tx
      BY DEF CodecInv, DriverInv, InTransfer
    <3>2. Len(Script) \in Nat
      BY CodecAssumption
    <3> QED BY <3>1, <3>2 DEF CodecInv, CodecTypeOK
  <2>2. Len(buffer) = 2 /\ Now.op = "Rd"
    BY <2>1, NowIs DEF Writes
  <2> QED BY <1>0, <2>1, <2>2, EmptyIs, StoreIs, StoreNothing
<1>3. CASE ~ Live
  <2>1. bytes_read' = 0 => bytes_read = 0 /\ buffer' = buffer
    BY SMTT(30), <1>0, <1>2, Numbers
  <2>2. pc' # "try"
    BY DEF InTransfer
  <2>3. ~ Writes /\ retry' = 0 /\ InTransfer' /\ bytes_read' = 0 =>
          buffer' = <<Now'.reg \div 256, Now'.reg % 256>>
    BY <2>1 DEF CodecInv, BufferInv
  <2>4. BufferInv'
    BY <1>1, <1>3, <2>2, <2>3 DEF BufferInv
  <2> QED BY <1>1, <1>3, <2>4, NotLive
<1>4. CASE Live
  <2>1. /\ 0 <= Done /\ Done <= Popped
        /\ \A i \in 1..Len(cmds) : IsCommand(cmds[i], Popped + i, Now.op, buffer)
        /\ shifter # <<>> => IsCommand(shifter[1], Popped, Now.op, buffer)
        /\ fsm \in {"stop", "idle"} <=> Done = Total
        /\ fsm = "start" => Popped = 0
    <3>1. Done <= Popped
      BY <1>0, Numbers DEF Done
    <3> QED BY <1>4, <3>1 DEF CodecInv, CommandsInv
  <2>2. /\ bytes_read + Len(rx) = IF Done > 4 THEN Done - 4 ELSE 0
        /\ OnBus = "W" => \A i \in 1..Done - 1 : bytes[i] = buffer[i]
    BY <1>4 DEF CodecInv, BusInv
  <2>3. buffer' = buffer \/ Done > 4
    BY SMTT(30), <1>0, <1>2, <2>2, Numbers
  <2>4. Written <= 6 /\ Popped <= Written /\ Popped + Len(cmds) = Written
    <3>1. status = "SUCCESS"
      <4>1. status \in Codes /\ pc \in {"write", "check", "read", "wait"}
        BY DEF CodecInv, CodecTypeOK, DriverTypeOK, InTransfer
      <4> QED BY <1>4, <4>1 DEF CodecInv, DriverInv, Live, Codes
    <3>2. sent <= 3
      <4>1. size = 2
        BY <1>2 DEF size
      <4>2. CASE pc = "write"
        BY <1>0, <4>1, <4>2, Numbers DEF CodecInv, DriverInv
      <4>3. CASE pc = "check"
        BY <1>0, <4>1, <4>3, Numbers DEF CodecInv, DriverInv
      <4>4. CASE pc = "read"
        BY <4>4 DEF CodecInv, DriverInv
      <4>5. CASE pc = "wait"
        BY <1>0, <3>1, <4>1, <4>5, Numbers DEF CodecInv, DriverInv
      <4> QED BY <4>2, <4>3, <4>4, <4>5 DEF InTransfer
    <3>3. Written <= 6
      BY <1>0, <3>2, Numbers DEF Written
    <3> QED BY <1>0, <3>3, Numbers DEF Popped
  <2>5. CommandsInv'
    <3>1. ASSUME NEW i \in 1..Len(cmds), Done > 4
          PROVE  Popped + i \in {4, 5, 6}
      BY SMTT(30), <1>0, <2>1, <2>4, <3>1, Numbers
    <3>2. shifter # <<>> /\ Done > 4 => Popped \in {4, 5, 6}
      BY SMTT(30), <1>0, <2>1, <2>4, Numbers
    <3>3. ASSUME NEW i \in 1..Len(cmds)
          PROVE  IsCommand(cmds[i], Popped + i, Now.op, buffer')
      BY <1>2, <2>1, <2>3, <3>1, <3>3, CommandKept
    <3>4. shifter # <<>> => IsCommand(shifter[1], Popped, Now.op, buffer')
      BY <1>2, <2>1, <2>3, <3>2, CommandKept
    <3>5. Total' = Total
      BY <1>1 DEF Total
    <3>6. /\ \A i \in 1..Len(cmds') : IsCommand(cmds'[i], Popped' + i, Now'.op, buffer')
          /\ shifter' # <<>> => IsCommand(shifter'[1], Popped', Now'.op, buffer')
      BY <1>1, <3>3, <3>4
    <3> QED BY <1>1, <2>1, <3>5, <3>6 DEF CommandsInv
  <2>6. BusInv'
    <3>1. OnBus' = OnBus
      BY <1>1 DEF OnBus
    <3>2. OnBus = "W" => Done <= 3
      BY <1>0, <2>1, Numbers DEF OnBus
    <3>3. bytes_read' + Len(rx') = bytes_read + Len(rx)
      BY <1>0, <1>2, Numbers
    <3>4. OnBus' = "W" => \A i \in 1..Done' - 1 : bytes'[i] = buffer'[i]
      BY SMTT(30), <1>0, <1>1, <2>2, <2>3, <3>1, <3>2, Numbers
    <3> QED BY <1>1, <1>4, <2>2, <3>1, <3>3, <3>4 DEF CodecInv, BusInv
  <2>7. BufferInv'
    <3>1. bytes_read' = 0 => bytes_read = 0 /\ buffer' = buffer
      BY SMTT(30), <1>0, <1>2, Numbers
    <3>2. pc' # "try"
      BY DEF InTransfer
    <3>3. retry' = 0 /\ bytes_read' = 0 =>
            buffer' = <<Now'.reg \div 256, Now'.reg % 256>>
      BY <3>1 DEF CodecInv, BufferInv
    <3>4. ASSUME retry = 0
          PROVE  /\ \A k \in 1..bytes_read' : buffer'[k] = Part(k)
                 /\ \A k \in 1..Len(rx') : rx'[k] = Part(bytes_read' + k)
      <4>1. /\ \A k \in 1..bytes_read : buffer[k] = Part(k)
            /\ \A k \in 1..Len(rx) : rx[k] = Part(bytes_read + k)
        BY <1>4, <3>4 DEF CodecInv, BufferInv
      <4>2. bytes_read' <= 2
        <5>1. bytes_read + Len(rx) <= 2
          BY SMTT(30), <1>0, <2>1, <2>2, <2>4, Numbers
        <5> QED BY <1>0, <1>2, <5>1, Numbers
      <4>3. ASSUME NEW k \in 1..bytes_read'
            PROVE  buffer'[k] = Part(k)
        <5>1. k \in 1..2 /\ k \in Int
          BY <1>0, <1>2, <4>2, Numbers
        <5>2. CASE k <= bytes_read
          <6>1. k \in 1..bytes_read /\ k - bytes_read \notin 1..Len(bs)
            BY <1>0, <5>1, <5>2, Numbers
          <6> QED BY <1>2, <4>1, <5>1, <6>1
        <5>3. CASE k > bytes_read
          <6>1. /\ k - bytes_read \in 1..Len(bs) /\ k - bytes_read \in 1..Len(rx)
                /\ bytes_read + (k - bytes_read) = k
            BY SMTT(30), <1>0, <1>2, <5>1, <5>3, Numbers
          <6>2. buffer'[k] = bs[k - bytes_read]
            BY <1>2, <5>1, <6>1
          <6>3. rx[k - bytes_read] = Part(bytes_read + (k - bytes_read))
            BY <4>1, <6>1
          <6> QED BY <6>1, <6>2, <6>3
        <5> QED BY <1>0, <5>1, <5>2, <5>3, Numbers
      <4>4. ASSUME NEW k \in 1..Len(rx')
            PROVE  rx'[k] = Part(bytes_read' + k)
        <5>1. Len(bs) + k \in 1..Len(rx)
              /\ bytes_read + (Len(bs) + k) = bytes_read' + k
          BY SMTT(30), <1>0, <1>2, Numbers
        <5>2. rx[Len(bs) + k] = Part(bytes_read + (Len(bs) + k))
          BY <4>1, <5>1
        <5> QED BY <5>1, <5>2
      <4> QED BY <4>3, <4>4
    <3>5. \A k : Part(k)' = IF k = 1 THEN regs[Now.reg] \div 256 ELSE regs[Now.reg] % 256
      BY DEF Part
    <3> QED BY <1>1, <3>2, <3>3, <3>4, <3>5 DEF BufferInv, Part
  <2> QED BY <2>5, <2>6, <2>7
<1> QED BY <1>3, <1>4

\* A step of the driver that writes no command and takes no answer.
LEMMA Passes ==
  ASSUME CodecInv, InTransfer, InTransfer', Now' = Now, buffer' = buffer, rx' = rx,
         bytes_read' = bytes_read, Written' = Written, cmds' = cmds,
         shifter' = shifter, fsm' = fsm, rw_cmd' = rw_cmd, held' = held,
         nack_det' = nack_det, retry' = retry, regs' = regs, pointer' = pointer,
         bytes' = bytes
  PROVE  CommandsInv' /\ BusInv' /\ BufferInv'
<1>1. /\ (Writes' <=> Writes) /\ (Live' <=> Live) /\ pc' # "try"
      /\ Popped' = Popped /\ Done' = Done
  BY DEF Writes, Live, Popped, Done, InTransfer
<1>2. Total' = Total /\ OnBus' = OnBus
  BY <1>1 DEF Total, OnBus
<1>3. CommandsInv'
  BY <1>1, <1>2 DEF CodecInv, CommandsInv
<1>4. BusInv'
  BY <1>1, <1>2 DEF CodecInv, BusInv
<1>5. BufferInv'
  BY <1>1 DEF CodecInv, BufferInv, Part
<1> QED BY <1>3, <1>4, <1>5

\* The answers the driver finds when it looks, after a command, or waits for.
LEMMA NextByteInv ==
  ASSUME CodecInv, NextByte, UNCHANGED <<step, value>>
  PROVE  CodecInv'
<1>1. /\ pc = "check" /\ pc' = "write" /\ sent <= size /\ sent' = sent
      /\ call' = call /\ retry' = retry /\ status' = status /\ cmds' = cmds
      /\ shifter' = shifter /\ rw_cmd' = rw_cmd /\ fsm' = fsm
      /\ regs' = regs /\ pointer' = pointer /\ bytes' = bytes /\ step' = step
      /\ value' = value
  BY DEF NextByte, device
<1>2. /\ ctrl_en' = ctrl_en /\ nack_det' = nack_det /\ held' = held
      /\ receiving' = receiving /\ ~ nack_det
  BY DEF NextByte, device
<1>3. /\ InTransfer /\ InTransfer' /\ Now' = Now /\ step <= Len(Script)
      /\ call = IF Writes THEN [tx |-> 4, rx |-> 0] ELSE [tx |-> 2, rx |-> 2]
      /\ Len(buffer) = call.tx /\ (receiving => ~ Writes) /\ 1 <= sent
      /\ bytes_read + Len(rx) <= (IF receiving /\ sent > 0 THEN sent - 1 ELSE 0)
      /\ status = "SUCCESS" /\ bytes_read <= 1
  BY <1>1 DEF CodecInv, DriverInv, InTransfer, Now
<1>4. CodecTypeOK /\ buffer \in Seq(Byte) /\ rx \in Seq(Byte) /\ FIFO_DEPTH \in Nat
  BY I2cAssumption DEF CodecInv, CodecTypeOK, DriverTypeOK, ControllerTypeOK
<1>5. /\ buffer' \in Seq(Byte) /\ Len(buffer') = Len(buffer) /\ rx' \in Seq(Byte)
      /\ Len(rx') <= Len(rx) /\ Len(rx') \in Nat
      /\ bytes_read' + Len(rx') = bytes_read + Len(rx)
      /\ bytes_read' \in 0..1
      /\ CommandsInv' /\ BusInv' /\ BufferInv'
  <2>1. CASE receiving /\ sent > 1
    <3>1. Store(rx) /\ rx' = <<>> /\ Len(rx') = 0
      BY <2>1 DEF NextByte, rx_read_available
    <3>2. /\ buffer' \in Seq(Byte) /\ Len(buffer') = Len(buffer)
          /\ bytes_read' = bytes_read + Len(rx)
      BY <1>4, <3>1, StoreIs
    <3>3. size = 2
      BY <1>3, <2>1 DEF size
    <3>4. bytes_read' \in 0..1 /\ Len(rx') <= Len(rx)
          /\ bytes_read' + Len(rx') = bytes_read + Len(rx)
      BY <1>1, <1>3, <1>4, <2>1, <3>1, <3>2, <3>3, Numbers
    <3>5. /\ Len(rx) <= Len(rx) /\ \A i \in 1..Len(rx) : rx[i] = rx[i]
          /\ Len(rx') = Len(rx) - Len(rx)
          /\ \A i \in 1..Len(rx') : rx'[i] = rx[Len(rx) + i]
      BY <1>4, <3>1, Numbers
    <3>6. CommandsInv' /\ BusInv' /\ BufferInv'
      BY <1>1, <1>2, <1>3, <1>4, <2>1, <3>1, <3>5, Receives
    <3> QED BY <3>1, <3>2, <3>4, <3>6
  <2>2. CASE ~ (receiving /\ sent > 1)
    <3>1. buffer' = buffer /\ bytes_read' = bytes_read /\ rx' = rx
      BY <2>2 DEF NextByte, rx_read_available
    <3>2. Written' = Written
      BY <1>1, <1>2 DEF Written
    <3>3. CommandsInv' /\ BusInv' /\ BufferInv'
      BY <1>1, <1>2, <1>3, <3>1, <3>2, Passes
    <3> QED BY <1>3, <1>4, <3>1, <3>3, Numbers
  <2> QED BY <2>1, <2>2
<1>6. CodecTypeOK'
  <2>1. DriverTypeOK'
    BY <1>1, <1>2, <1>5 DEF CodecInv, CodecTypeOK, DriverTypeOK
  <2>2. Len(rx') <= FIFO_DEPTH
    BY <1>4, <1>5, Numbers DEF CodecTypeOK, ControllerTypeOK
  <2>3. ControllerTypeOK'
    BY <1>1, <1>2, <1>5, <2>2 DEF CodecInv, CodecTypeOK, ControllerTypeOK
  <2>4. DeviceTypeOK'
    BY <1>1, <1>2 DEF CodecInv, CodecTypeOK, DeviceTypeOK
  <2> QED BY <1>1, <2>1, <2>3, <2>4 DEF CodecInv, CodecTypeOK
<1>7. DriverInv'
  <2>1. /\ step' <= Len(Script)
        /\ call' = IF Writes' THEN [tx |-> 4, rx |-> 0] ELSE [tx |-> 2, rx |-> 2]
        /\ Len(buffer') = call'.tx /\ (receiving' => ~ Writes')
    BY <1>1, <1>2, <1>3, <1>5 DEF Writes
  <2>2. ctrl_en' <=> InTransfer'
    BY <1>2, <1>3 DEF CodecInv, DriverInv
  <2>3. status' = "SUCCESS" /\ bytes_read' <= 1
    BY <1>1, <1>3, <1>5
  <2>4. sent' <= size'
    BY <1>1, <1>2 DEF size
  <2>5. bytes_read' + Len(rx') <= IF receiving' /\ sent' > 0 THEN sent' - 1 ELSE 0
    BY <1>1, <1>2, <1>3, <1>5
  <2> QED BY <1>1, <2>1, <2>2, <2>3, <2>4, <2>5 DEF DriverInv
<1>8. ControllerInv'
  BY <1>1, <1>2, <1>3 DEF CodecInv, ControllerInv, InTransfer
<1>9. ReturnInv'
  BY <1>1 DEF ReturnInv, FirstReadIsRight, JustRead
<1> QED BY <1>5, <1>6, <1>7, <1>8, <1>9 DEF CodecInv

LEMMA rx_readInv ==
  ASSUME CodecInv, rx_read, UNCHANGED <<step, value>>
  PROVE  CodecInv'
<1>1. /\ pc = "read" /\ rx # <<>> /\ Store(<<Head(rx)>>) /\ rx' = Tail(rx)
      /\ pc' = (IF bytes_read + 1 < size THEN "read" ELSE "wait") /\ sent' = sent
      /\ call' = call /\ retry' = retry /\ status' = status /\ cmds' = cmds
      /\ shifter' = shifter /\ rw_cmd' = rw_cmd /\ fsm' = fsm
      /\ regs' = regs /\ pointer' = pointer /\ bytes' = bytes /\ step' = step
      /\ value' = value
  BY DEF rx_read, device
<1>2. /\ ctrl_en' = ctrl_en /\ nack_det' = nack_det /\ held' = held
      /\ receiving' = receiving
  BY DEF rx_read, device
<1>3. /\ InTransfer /\ InTransfer' /\ Now' = Now /\ step <= Len(Script)
      /\ call = IF Writes THEN [tx |-> 4, rx |-> 0] ELSE [tx |-> 2, rx |-> 2]
      /\ Len(buffer) = call.tx /\ receiving /\ ~ Writes /\ sent = 3
      /\ bytes_read + Len(rx) <= 2 /\ status = "SUCCESS" /\ bytes_read <= 1
      /\ ~ nack_det
  <2>1. InTransfer /\ InTransfer' /\ Now' = Now
    BY <1>1 DEF InTransfer, Now
  <2>2. receiving /\ sent = 3 /\ ~ Writes /\ status = "SUCCESS" /\ bytes_read <= 1
    BY <1>1, <2>1 DEF CodecInv, DriverInv
  <2>3. bytes_read + Len(rx) <= 2
    BY <2>1, <2>2 DEF CodecInv, DriverInv
  <2>4. ~ nack_det
    BY <1>1 DEF CodecInv, ControllerInv, Empty
  <2> QED BY <1>1, <2>1, <2>2, <2>3, <2>4 DEF CodecInv, DriverInv
<1>4. CodecTypeOK /\ buffer \in Seq(Byte) /\ rx \in Seq(Byte) /\ FIFO_DEPTH \in Nat
  BY I2cAssumption DEF CodecInv, CodecTypeOK, DriverTypeOK, ControllerTypeOK
<1>5. /\ rx' \in Seq(Byte) /\ Len(rx') = Len(rx) - 1 /\ Head(rx) \in Byte
      /\ \A i \in 1..Len(rx) - 1 : rx'[i] = rx[i + 1]
      /\ Head(rx) = rx[1] /\ Len(rx) >= 1
  BY <1>1, <1>4, Tails
<1>6. /\ <<Head(rx)>> \in Seq(Byte) /\ Len(<<Head(rx)>>) = 1
      /\ <<Head(rx)>>[1] = rx[1]
  BY <1>5
<1>7. /\ buffer' \in Seq(Byte) /\ Len(buffer') = Len(buffer)
      /\ bytes_read' = bytes_read + 1
  BY <1>1, <1>4, <1>6, StoreIs
<1>8. CommandsInv' /\ BusInv' /\ BufferInv'
  <2>1. /\ Len(<<Head(rx)>>) <= Len(rx)
        /\ \A i \in 1..Len(<<Head(rx)>>) : <<Head(rx)>>[i] = rx[i]
    BY <1>5, <1>6
  <2>2. \A i \in 1..Len(rx') : rx'[i] = rx[1 + i]
    BY <1>4, <1>5, Numbers
  <2>3. /\ Len(rx') = Len(rx) - Len(<<Head(rx)>>)
        /\ \A i \in 1..Len(rx') : rx'[i] = rx[Len(<<Head(rx)>>) + i]
    BY <1>5, <1>6, <2>2
  <2> QED BY <1>1, <1>2, <1>3, <1>6, <2>1, <2>3, Receives
<1>9. size = 2 /\ size' = 2 /\ issue_stop'
  BY <1>1, <1>2, <1>3 DEF size, issue_stop
<1>10. bytes_read' \in 0..2 /\ bytes_read' + Len(rx') = bytes_read + Len(rx)
       /\ (pc' = "read" => bytes_read' <= 1) /\ (pc' = "wait" => bytes_read' = 2)
  BY SMTT(30), <1>1, <1>3, <1>4, <1>5, <1>7, <1>9, Numbers
<1>11. CodecTypeOK'
  <2>1. DriverTypeOK'
    BY <1>1, <1>2, <1>7, <1>10 DEF CodecInv, CodecTypeOK, DriverTypeOK
  <2>2. Len(rx') <= FIFO_DEPTH
    BY <1>4, <1>5, Numbers DEF CodecTypeOK, ControllerTypeOK
  <2>3. ControllerTypeOK'
    BY <1>1, <1>2, <1>5, <2>2 DEF CodecInv, CodecTypeOK, ControllerTypeOK
  <2>4. DeviceTypeOK'
    BY <1>1, <1>2 DEF CodecInv, CodecTypeOK, DeviceTypeOK
  <2> QED BY <1>1, <2>1, <2>3, <2>4 DEF CodecInv, CodecTypeOK
<1>12. DriverInv'
  <2>1. /\ step' <= Len(Script)
        /\ call' = IF Writes' THEN [tx |-> 4, rx |-> 0] ELSE [tx |-> 2, rx |-> 2]
        /\ Len(buffer') = call'.tx /\ (receiving' => ~ Writes')
    BY <1>1, <1>2, <1>3, <1>7 DEF Writes
  <2>2. ctrl_en' <=> InTransfer'
    BY <1>2, <1>3 DEF CodecInv, DriverInv
  <2>3. status' = "SUCCESS" /\ receiving' /\ sent' = 3 /\ pc' \in {"read", "wait"}
    BY <1>1, <1>2, <1>3
  <2>4. bytes_read' + Len(rx') <= IF receiving' /\ sent' > 0 THEN sent' - 1 ELSE 0
    BY <1>3, <1>10, <2>3
  <2> QED BY <1>9, <1>10, <2>1, <2>2, <2>3, <2>4 DEF DriverInv
<1>13. ControllerInv'
  BY <1>1, <1>2, <1>3 DEF CodecInv, ControllerInv, InTransfer
<1>14. ReturnInv'
  BY <1>1 DEF ReturnInv, FirstReadIsRight, JustRead
<1> QED BY <1>8, <1>11, <1>12, <1>13, <1>14 DEF CodecInv

\* The driver goes on to receive, or to wait for what is left.
LEMMA TurnInv ==
  ASSUME CodecInv, Turn, UNCHANGED <<step, value>>
  PROVE  CodecInv'
<1>1. /\ pc = "check" /\ pc' = "write" /\ sent > size /\ sent' = 0 /\ receiving' = TRUE
      /\ call' = call /\ buffer' = buffer /\ retry' = retry /\ status' = status
      /\ bytes_read' = bytes_read /\ cmds' = cmds /\ fsm' = fsm /\ shifter' = shifter
      /\ rx' = rx /\ rw_cmd' = rw_cmd /\ regs' = regs /\ pointer' = pointer
      /\ bytes' = bytes /\ step' = step /\ value' = value
  BY DEF Turn, controller, device
<1>2. /\ ctrl_en' = ctrl_en /\ nack_det' = nack_det /\ held' = held
      /\ ~ issue_stop /\ ~ nack_det
  BY DEF Turn, controller, device
<1>3. /\ InTransfer /\ InTransfer' /\ Now' = Now /\ step <= Len(Script)
      /\ call = IF Writes THEN [tx |-> 4, rx |-> 0] ELSE [tx |-> 2, rx |-> 2]
      /\ Len(buffer) = call.tx /\ status = "SUCCESS" /\ sent <= size + 1
      /\ bytes_read + Len(rx) <= (IF receiving /\ sent > 0 THEN sent - 1 ELSE 0)
  BY <1>1 DEF CodecInv, DriverInv, InTransfer, Now
<1>4. CodecTypeOK
  BY DEF CodecInv
<1>5. ~ receiving /\ ~ Writes /\ size = 2 /\ size' = 2
  BY <1>1, <1>2, <1>3 DEF issue_stop, size
<1>6. sent = 3 /\ Written' = Written
  <2>1. sent = 3
    BY <1>1, <1>3, <1>4, <1>5, Numbers
  <2> QED BY <1>1, <1>5, <2>1 DEF Written
<1>7. CommandsInv' /\ BusInv' /\ BufferInv'
  BY <1>1, <1>2, <1>3, <1>6, Passes
<1>8. CodecTypeOK'
  <2>1. receiving' \in BOOLEAN
    BY <1>1
  <2>2. DriverTypeOK'
    BY <1>1, <2>1 DEF CodecInv, CodecTypeOK, DriverTypeOK
  <2>3. ControllerTypeOK'
    BY <1>1, <1>2 DEF CodecInv, CodecTypeOK, ControllerTypeOK
  <2>4. DeviceTypeOK'
    BY <1>1, <1>2 DEF CodecInv, CodecTypeOK, DeviceTypeOK
  <2> QED BY <1>1, <2>2, <2>3, <2>4 DEF CodecInv, CodecTypeOK
<1>9. DriverInv'
  <2>1. /\ step' <= Len(Script)
        /\ call' = IF Writes' THEN [tx |-> 4, rx |-> 0] ELSE [tx |-> 2, rx |-> 2]
        /\ Len(buffer') = call'.tx /\ ~ Writes'
    BY <1>1, <1>3, <1>5 DEF Writes
  <2>2. ctrl_en' <=> InTransfer'
    BY <1>2, <1>3 DEF CodecInv, DriverInv
  <2>3. bytes_read' <= 1 /\ bytes_read' + Len(rx') <= 0
    BY <1>1, <1>3, <1>4, <1>5, Numbers
  <2> QED BY <1>1, <1>3, <1>5, <2>1, <2>2, <2>3 DEF DriverInv
<1>10. ControllerInv'
  BY <1>1, <1>2, <1>3 DEF CodecInv, ControllerInv, InTransfer
<1>11. ReturnInv'
  BY <1>1 DEF ReturnInv, FirstReadIsRight, JustRead
<1> QED BY <1>7, <1>8, <1>9, <1>10, <1>11 DEF CodecInv

LEMMA LastByteInv ==
  ASSUME CodecInv, LastByte, UNCHANGED <<step, value>>
  PROVE  CodecInv'
<1>1. /\ pc = "check" /\ sent > size /\ sent' = sent
      /\ pc' = (IF receiving THEN "read" ELSE "wait")
      /\ call' = call /\ buffer' = buffer /\ retry' = retry /\ status' = status
      /\ bytes_read' = bytes_read /\ cmds' = cmds /\ fsm' = fsm /\ shifter' = shifter
      /\ rx' = rx /\ rw_cmd' = rw_cmd /\ regs' = regs /\ pointer' = pointer
      /\ bytes' = bytes /\ step' = step /\ value' = value
  BY DEF LastByte, controller, device
<1>2. /\ ctrl_en' = ctrl_en /\ nack_det' = nack_det /\ held' = held
      /\ receiving' = receiving /\ issue_stop /\ ~ nack_det
  BY DEF LastByte, controller, device
<1>3. /\ InTransfer /\ InTransfer' /\ Now' = Now /\ step <= Len(Script)
      /\ call = IF Writes THEN [tx |-> 4, rx |-> 0] ELSE [tx |-> 2, rx |-> 2]
      /\ Len(buffer) = call.tx /\ status = "SUCCESS" /\ sent <= size + 1
      /\ (receiving => ~ Writes) /\ bytes_read <= 1
      /\ bytes_read + Len(rx) <= (IF receiving /\ sent > 0 THEN sent - 1 ELSE 0)
  BY <1>1 DEF CodecInv, DriverInv, InTransfer, Now
<1>4. CodecTypeOK /\ Written' = Written
  BY <1>1, <1>2 DEF CodecInv, Written
<1>5. CommandsInv' /\ BusInv' /\ BufferInv'
  BY <1>1, <1>2, <1>3, <1>4, Passes
<1>6. CodecTypeOK'
  <2>2. DriverTypeOK'
    BY <1>1, <1>2 DEF CodecInv, CodecTypeOK, DriverTypeOK
  <2>3. ControllerTypeOK'
    BY <1>1, <1>2 DEF CodecInv, CodecTypeOK, ControllerTypeOK
  <2>4. DeviceTypeOK'
    BY <1>1, <1>2 DEF CodecInv, CodecTypeOK, DeviceTypeOK
  <2> QED BY <1>1, <2>2, <2>3, <2>4 DEF CodecInv, CodecTypeOK
<1>7. DriverInv'
  <2>1. /\ step' <= Len(Script)
        /\ call' = IF Writes' THEN [tx |-> 4, rx |-> 0] ELSE [tx |-> 2, rx |-> 2]
        /\ Len(buffer') = call'.tx /\ (receiving' => ~ Writes')
    BY <1>1, <1>2, <1>3 DEF Writes
  <2>2. ctrl_en' <=> InTransfer'
    BY <1>2, <1>3 DEF CodecInv, DriverInv
  <2>3. bytes_read' + Len(rx') <= IF receiving' /\ sent' > 0 THEN sent' - 1 ELSE 0
    BY <1>1, <1>2, <1>3
  <2>4. size \in {2, 4} /\ (receiving => size = 2)
    BY <1>3 DEF size
  <2>5. sent = size + 1
    BY <1>1, <1>3, <1>4, <2>4, Numbers
  <2>6. sent' = size' + 1 /\ issue_stop'
    BY <1>1, <1>2, <2>5 DEF size, issue_stop
  <2>7. pc' = "read" => receiving' /\ sent' = 3
    BY <1>1, <1>2, <2>4, <2>5
  <2>8. pc' = "wait" => ~ receiving'
    BY <1>1, <1>2
  <2> QED BY <1>1, <1>3, <2>1, <2>2, <2>3, <2>6, <2>7, <2>8 DEF DriverInv
<1>8. ControllerInv'
  BY <1>1, <1>2, <1>3 DEF CodecInv, ControllerInv, InTransfer
<1>9. ReturnInv'
  BY <1>1 DEF ReturnInv, FirstReadIsRight, JustRead
<1> QED BY <1>5, <1>6, <1>7, <1>8, <1>9 DEF CodecInv

\* The answers only stay away when something has gone wrong.
LEMMA ReadTimeoutInv ==
  ASSUME CodecInv, ReadTimeout, UNCHANGED <<step, value>>
  PROVE  CodecInv'
<1>1. /\ pc = "read" /\ pc' = "wait" /\ rx = <<>> /\ status' = "TIMEOUT"
      /\ sent' = sent /\ call' = call /\ retry' = retry /\ cmds' = cmds
      /\ fsm' = fsm /\ shifter' = shifter /\ rx' = rx /\ rw_cmd' = rw_cmd
      /\ regs' = regs /\ pointer' = pointer /\ bytes' = bytes /\ step' = step
      /\ value' = value
  BY DEF ReadTimeout, Fail, controller, device
<1>2. /\ ctrl_en' = ctrl_en /\ nack_det' = nack_det /\ held' = held
      /\ receiving' = receiving /\ (fsm = "idle" \/ held)
  BY DEF ReadTimeout, Fail, controller, device
<1>3. /\ InTransfer /\ InTransfer' /\ Now' = Now /\ step <= Len(Script)
      /\ call = IF Writes THEN [tx |-> 4, rx |-> 0] ELSE [tx |-> 2, rx |-> 2]
      /\ Len(buffer) = call.tx /\ receiving /\ ~ Writes /\ sent = 3 /\ bytes_read <= 1
  <2>1. InTransfer /\ InTransfer' /\ Now' = Now
    BY <1>1 DEF InTransfer, Now
  <2> QED BY <1>1, <2>1 DEF CodecInv, DriverInv
<1>4. CodecTypeOK /\ Len(rx) = 0
  BY <1>1 DEF CodecInv
<1>5. held \/ nack_det
  <2> SUFFICES ASSUME Live PROVE FALSE
    BY <1>3 DEF Live
  <2>1. Done = Total /\ Total = 6
    BY <1>2, <1>3 DEF CodecInv, CommandsInv, Live, Total
  <2>2. bytes_read + Len(rx) = IF Done > 4 THEN Done - 4 ELSE 0
    BY <1>3 DEF CodecInv, BusInv
  <2> QED BY <1>3, <1>4, <2>1, <2>2, Numbers
<1>6. /\ buffer' \in Seq(Byte) /\ Len(buffer') = Len(buffer)
      /\ bytes_read' = bytes_read + 1
  <2>1. PICK b \in Junk : Store(<<b>>)
    BY DEF ReadTimeout
  <2>2. b \in Byte
    BY I2cAssumption
  <2>3. <<b>> \in Seq(Byte) /\ Len(<<b>>) = 1
    BY <2>2
  <2> QED BY <1>4, <2>1, <2>3, StoreIs
<1>7. bytes_read' \in 1..2 /\ bytes_read' + Len(rx') <= 2
  BY <1>1, <1>3, <1>4, <1>6, Numbers
<1>8. CodecTypeOK'
  <2>2. DriverTypeOK'
    BY <1>1, <1>2, <1>6, <1>7 DEF CodecInv, CodecTypeOK, DriverTypeOK, Codes
  <2>3. ControllerTypeOK'
    BY <1>1, <1>2 DEF CodecInv, CodecTypeOK, ControllerTypeOK
  <2>4. DeviceTypeOK'
    BY <1>1, <1>2 DEF CodecInv, CodecTypeOK, DeviceTypeOK
  <2> QED BY <1>1, <2>2, <2>3, <2>4 DEF CodecInv, CodecTypeOK
<1>9. DriverInv'
  <2>1. /\ step' <= Len(Script)
        /\ call' = IF Writes' THEN [tx |-> 4, rx |-> 0] ELSE [tx |-> 2, rx |-> 2]
        /\ Len(buffer') = call'.tx /\ (receiving' => ~ Writes')
    BY <1>1, <1>2, <1>3, <1>6 DEF Writes
  <2>2. ctrl_en' <=> InTransfer'
    BY <1>2, <1>3 DEF CodecInv, DriverInv
  <2>3. bytes_read' + Len(rx') <= IF receiving' /\ sent' > 0 THEN sent' - 1 ELSE 0
    <3>1. receiving' /\ sent' = 3
      BY <1>1, <1>2, <1>3
    <3> QED BY <1>7, <3>1
  <2>4. held' \/ nack_det'
    BY <1>2, <1>5
  <2> QED BY <1>1, <2>1, <2>2, <2>3, <2>4 DEF DriverInv
<1>10. ControllerInv'
  BY <1>1, <1>2, <1>3 DEF CodecInv, ControllerInv, InTransfer, Empty
<1>11. ~ Live' /\ ~ Writes'
  BY <1>2, <1>3, <1>5 DEF Live, Writes
<1>12. BufferInv'
  BY <1>1, <1>7, <1>11 DEF BufferInv
<1>13. ReturnInv'
  BY <1>1 DEF ReturnInv, FirstReadIsRight, JustRead
<1> QED BY <1>8, <1>9, <1>10, <1>11, <1>12, <1>13, NotLive DEF CodecInv

-----------------------------------------------------------------------------
\* The end of a try.

LEMMA Finished ==
  ASSUME CodecInv, pc = "wait", ~ nack_det, fsm = "idle"
  PROVE  /\ Empty /\ status = "SUCCESS"
         /\ Writes => regs[Now.reg] = Now.val
         /\ ~ Writes /\ retry = 0 => buffer = <<Part(1), Part(2)>>
<1>1. Live /\ InTransfer
  BY DEF CodecInv, ControllerInv, Live, InTransfer
<1>2. CodecTypeOK /\ status \in Codes /\ buffer \in Seq(Byte)
  BY DEF CodecInv, CodecTypeOK, DriverTypeOK
<1>3. status = "SUCCESS"
  BY <1>1, <1>2 DEF CodecInv, DriverInv, Live, Codes
<1>4. /\ issue_stop /\ sent = size + 1 /\ (receiving => bytes_read = 2 /\ ~ Writes)
      /\ call = (IF Writes THEN [tx |-> 4, rx |-> 0] ELSE [tx |-> 2, rx |-> 2])
      /\ Len(buffer) = call.tx
      /\ bytes_read + Len(rx) <= (IF receiving /\ sent > 0 THEN sent - 1 ELSE 0)
  BY <1>1, <1>3 DEF CodecInv, DriverInv
<1>5. (receiving <=> ~ Writes) /\ size = (IF Writes THEN 4 ELSE 2)
  BY <1>4 DEF issue_stop, size
<1>6. Written = Total
  BY <1>2, <1>4, <1>5, Numbers DEF Written, Total
<1>7. Done = Total
  BY <1>1 DEF CodecInv, CommandsInv
<1>8. Len(cmds) = 0 /\ Len(shifter) = 0
  BY <1>2, <1>6, <1>7, Numbers DEF Done, Popped
<1>9. Len(rx) = 0
  <2>1. CASE Writes
    BY <1>2, <1>4, <1>5, <2>1, Numbers
  <2>2. CASE ~ Writes
    <3>1. bytes_read + Len(rx) = IF Done > 4 THEN Done - 4 ELSE 0
      BY <1>1, <2>2 DEF CodecInv, BusInv
    <3> QED BY <1>2, <1>4, <1>5, <1>7, <2>2, <3>1, Numbers DEF Total
  <2> QED BY <2>1, <2>2
<1>10. Empty
  BY <1>2, <1>8, <1>9, Numbers DEF Empty
<1>11. Writes => regs[Now.reg] = Now.val
  BY <1>1, <1>7 DEF CodecInv, BusInv, Total
<1>12. ASSUME ~ Writes, retry = 0
       PROVE  buffer = <<Part(1), Part(2)>>
  <2>1. Len(buffer) = 2 /\ \A k \in 1..2 : buffer[k] = Part(k)
    BY <1>1, <1>4, <1>5, <1>12 DEF CodecInv, BufferInv
  <2> QED BY <1>2, <2>1
<1> QED BY <1>3, <1>10, <1>11, <1>12

LEMMA RetryInv ==
  ASSUME CodecInv, Retry, UNCHANGED <<step, value>>
  PROVE  CodecInv'
<1>1. /\ pc = "wait" /\ pc' = "try" /\ retry' = retry + 1 /\ retry + 1 < Retries
      /\ call' = call /\ buffer' = buffer /\ status' = status /\ sent' = sent
      /\ bytes_read' = bytes_read /\ cmds' = cmds /\ fsm' = fsm /\ shifter' = shifter
      /\ rx' = rx /\ rw_cmd' = rw_cmd /\ regs' = regs /\ pointer' = pointer
      /\ bytes' = bytes /\ step' = step /\ value' = value
  BY DEF Retry, Over, device
<1>2. /\ ctrl_en' = FALSE /\ nack_det' = nack_det /\ held' = held
      /\ receiving' = receiving /\ (fsm = "idle" \/ held)
  BY DEF Retry, Over, Disabled, is_busy, device
<1>3. nack_det /\ Empty
  <2>1. nack_det \/ status = "NACK"
    BY DEF Retry, Outcome
  <2>2. nack_det
    BY <1>1, <2>1 DEF CodecInv, DriverInv
  <2> QED BY <2>2 DEF CodecInv, ControllerInv
<1>4. InTransfer /\ ~ InTransfer' /\ Now' = Now
  BY <1>1 DEF InTransfer, Now
<1>5. retry \in 0..(Retries - 1) /\ Retries \in Nat /\ receiving \in BOOLEAN
  BY I2cAssumption DEF CodecInv, CodecTypeOK, DriverTypeOK
<1>6. CodecTypeOK'
  <2>1. retry' \in 0..(Retries - 1)
    BY <1>1, <1>5
  <2>2. DriverTypeOK'
    BY <1>1, <1>2, <2>1 DEF CodecInv, CodecTypeOK, DriverTypeOK
  <2>3. ctrl_en' \in BOOLEAN
    BY <1>2
  <2>4. ControllerTypeOK'
    BY <1>1, <1>2, <2>3 DEF CodecInv, CodecTypeOK, ControllerTypeOK
  <2>5. DeviceTypeOK'
    BY <1>1, <1>2 DEF CodecInv, CodecTypeOK, DeviceTypeOK
  <2> QED BY <1>1, <2>2, <2>4, <2>5 DEF CodecInv, CodecTypeOK
<1>7. DriverInv'
  BY <1>1, <1>2, <1>4 DEF CodecInv, DriverInv, Writes
<1>8. ControllerInv'
  BY <1>1, <1>2, <1>3, <1>4 DEF CodecInv, ControllerInv, Empty
<1>9. ~ Live'
  BY <1>4 DEF Live
<1>10. BufferInv'
  <2>1. retry' # 0
    BY <1>1, <1>5
  <2>2. Writes => buffer = <<Now.reg \div 256, Now.reg % 256,
                             Now.val \div 256, Now.val % 256>>
    BY <1>4 DEF CodecInv, BufferInv
  <2> QED BY <1>1, <1>4, <1>9, <2>1, <2>2 DEF BufferInv, Writes
<1>11. ReturnInv'
  BY <1>1 DEF ReturnInv, FirstReadIsRight, JustRead
<1> QED BY <1>6, <1>7, <1>8, <1>9, <1>10, <1>11, NotLive DEF CodecInv

LEMMA ReturnInvKept ==
  ASSUME CodecInv, Return, UNCHANGED <<step, value>>
  PROVE  CodecInv'
<1>1. /\ pc = "wait" /\ pc' = "returned" /\ retry' = retry /\ status' = Outcome
      /\ call' = call /\ buffer' = buffer /\ sent' = sent
      /\ bytes_read' = bytes_read /\ cmds' = cmds /\ fsm' = fsm /\ shifter' = shifter
      /\ rx' = rx /\ rw_cmd' = rw_cmd /\ regs' = regs /\ pointer' = pointer
      /\ bytes' = bytes /\ step' = step /\ value' = value
  BY DEF Return, Over, device
<1>2. /\ ctrl_en' = FALSE /\ nack_det' = nack_det /\ held' = held
      /\ receiving' = receiving /\ (fsm = "idle" \/ held)
  BY DEF Return, Over, Disabled, is_busy, device
<1>3. InTransfer /\ ~ InTransfer' /\ Now' = Now
  BY <1>1 DEF InTransfer, Now
<1>4. held \/ (fsm = "idle" /\ Empty)
  BY <1>1, <1>2, Finished DEF CodecInv, ControllerInv
<1>5. status' = "SUCCESS" => ~ nack_det /\ fsm = "idle" /\ Empty
  BY <1>1, Finished DEF Outcome, is_busy
<1>6. CodecTypeOK'
  <2>1. status' \in Codes
    BY <1>1 DEF CodecInv, CodecTypeOK, DriverTypeOK, Outcome, Codes
  <2>2. DriverTypeOK'
    BY <1>1, <1>2, <2>1 DEF CodecInv, CodecTypeOK, DriverTypeOK
  <2>3. ctrl_en' \in BOOLEAN
    BY <1>2
  <2>4. ControllerTypeOK'
    BY <1>1, <1>2, <2>3 DEF CodecInv, CodecTypeOK, ControllerTypeOK
  <2>5. DeviceTypeOK'
    BY <1>1, <1>2 DEF CodecInv, CodecTypeOK, DeviceTypeOK
  <2> QED BY <1>1, <2>2, <2>4, <2>5 DEF CodecInv, CodecTypeOK
<1>7. DriverInv'
  BY <1>1, <1>2, <1>3 DEF CodecInv, DriverInv, Writes
<1>8. ControllerInv'
  BY <1>1, <1>2, <1>3, <1>4, <1>5 DEF CodecInv, ControllerInv, Empty
<1>9. ~ Live' /\ pc' # "try"
  BY <1>1, <1>3 DEF Live
<1>10. BufferInv'
  BY <1>3, <1>9 DEF BufferInv
<1>11. ReturnInv'
  <2>1. status' = "SUCCESS" => /\ Writes => regs[Now.reg] = Now.val
                               /\ ~ Writes /\ retry = 0 => buffer = <<Part(1), Part(2)>>
    BY <1>1, <1>5, Finished
  <2>2. FirstReadIsRight'
    BY <1>1 DEF FirstReadIsRight, JustRead
  <2> QED BY <1>1, <1>3, <2>1, <2>2 DEF ReturnInv, Writes, Part
<1> QED BY <1>6, <1>7, <1>8, <1>9, <1>10, <1>11, NotLive DEF CodecInv

-----------------------------------------------------------------------------
\* What main does between the transfers.

LEMMA CallInv ==
  ASSUME CodecInv, Call
  PROVE  CodecInv'
<1>1. /\ pc = "ready" /\ pc' = "try" /\ step <= Len(Script) /\ retry' = 0
      /\ call' = (IF Writes THEN [tx |-> 4, rx |-> 0] ELSE [tx |-> 2, rx |-> 2])
      /\ buffer' = (IF Writes THEN <<Now.reg \div 256, Now.reg % 256,
                                     Now.val \div 256, Now.val % 256>>
                    ELSE <<Now.reg \div 256, Now.reg % 256>>)
      /\ status' = status /\ sent' = sent /\ bytes_read' = bytes_read /\ cmds' = cmds
      /\ fsm' = fsm /\ shifter' = shifter
      /\ rx' = rx /\ rw_cmd' = rw_cmd /\ regs' = regs /\ pointer' = pointer
      /\ bytes' = bytes /\ step' = step /\ value' = value
  BY DEF Call, SGTL5000_Reg_Wr, SGTL5000_Reg_Rd, controller, device, Writes, Now
<1>2. /\ ctrl_en' = ctrl_en /\ nack_det' = nack_det /\ held' = held
      /\ receiving' = receiving
  BY DEF Call, controller, device
<1>3. ~ InTransfer /\ ~ InTransfer' /\ Now' = Now /\ (Writes' <=> Writes)
  BY <1>1 DEF InTransfer, Now, Writes
<1>4. Empty /\ fsm = "idle"
  BY <1>1 DEF CodecInv, ControllerInv
<1>5. Now.reg \in DeviceWord /\ Now.val \in DeviceWord
  <2>1. Len(Script) \in Nat
    BY CodecAssumption
  <2>2. step \in 1..Len(Script)
    BY <1>1, <2>1 DEF CodecInv, CodecTypeOK
  <2> QED BY <2>2, NowIs
<1>6. buffer' \in Seq(Byte) /\ Len(buffer') = call'.tx
      /\ call' \in [tx : {0, 2, 4}, rx : {0, 2}]
  <2>1. /\ Now.reg \div 256 \in Byte /\ Now.reg % 256 \in Byte
        /\ Now.val \div 256 \in Byte /\ Now.val % 256 \in Byte
    BY <1>5, TwoBytes
  <2>2. CASE Writes
    BY <1>1, <2>1, <2>2
  <2>3. CASE ~ Writes
    BY <1>1, <2>1, <2>3
  <2> QED BY <2>2, <2>3
<1>7. CodecTypeOK'
  <2>1. retry' \in 0..(Retries - 1)
    BY <1>1, I2cAssumption
  <2>2. DriverTypeOK'
    BY <1>1, <1>2, <1>6, <2>1 DEF CodecInv, CodecTypeOK, DriverTypeOK
  <2>3. ControllerTypeOK'
    BY <1>1, <1>2 DEF CodecInv, CodecTypeOK, ControllerTypeOK
  <2>4. DeviceTypeOK'
    BY <1>1, <1>2 DEF CodecInv, CodecTypeOK, DeviceTypeOK
  <2> QED BY <1>1, <2>2, <2>3, <2>4 DEF CodecInv, CodecTypeOK
<1>8. DriverInv'
  <2>1. ctrl_en' <=> InTransfer'
    BY <1>2, <1>3 DEF CodecInv, DriverInv
  <2> QED BY <1>1, <1>3, <1>6, <2>1 DEF DriverInv
<1>9. ControllerInv'
  BY <1>1, <1>2, <1>3, <1>4 DEF CodecInv, ControllerInv, Empty
<1>10. ~ Live'
  BY <1>3 DEF Live
<1>11. BufferInv'
  BY <1>1, <1>3, <1>10 DEF BufferInv
<1>12. ReturnInv'
  BY <1>1 DEF ReturnInv, FirstReadIsRight, JustRead
<1> QED BY <1>7, <1>8, <1>9, <1>10, <1>11, <1>12, NotLive DEF CodecInv

LEMMA ReturnedInv ==
  ASSUME CodecInv, Returned
  PROVE  CodecInv'
<1>1. /\ pc = "returned" /\ status = "SUCCESS" /\ pc' = "ready" /\ step' = step + 1
      /\ value' = (IF Now.op = "Rd" THEN Word(buffer[1], buffer[2]) ELSE value)
      /\ call' = call /\ buffer' = buffer /\ retry' = retry /\ status' = status
      /\ sent' = sent /\ bytes_read' = bytes_read /\ cmds' = cmds
      /\ fsm' = fsm /\ shifter' = shifter
      /\ rx' = rx /\ rw_cmd' = rw_cmd /\ regs' = regs /\ pointer' = pointer
      /\ bytes' = bytes
  BY DEF Returned, controller, device, Now
<1>2. /\ ctrl_en' = ctrl_en /\ nack_det' = nack_det /\ held' = held
      /\ receiving' = receiving
  BY DEF Returned, controller, device
<1>3. ~ InTransfer /\ ~ InTransfer'
  BY <1>1 DEF InTransfer
<1>4. Empty /\ fsm = "idle"
  BY <1>1 DEF CodecInv, ControllerInv
<1>5. /\ step <= Len(Script) /\ Len(buffer) = call.tx
      /\ call = IF Writes THEN [tx |-> 4, rx |-> 0] ELSE [tx |-> 2, rx |-> 2]
  BY <1>1 DEF CodecInv, DriverInv
<1>6. step \in 1..Len(Script) /\ Len(Script) \in Nat
  <2>1. Len(Script) \in Nat
    BY CodecAssumption
  <2> QED BY <1>5, <2>1 DEF CodecInv, CodecTypeOK
<1>7. /\ Now.op \in {"Rd", "Wr"} /\ Now.reg \in DOMAIN RegsAtReset
  BY <1>6, NowIs
<1>8. step' \in 1..(Len(Script) + 1) /\ step' - 1 = step
  BY <1>1, <1>6
<1>9. value' \in DeviceWord
  <2>1. CASE Now.op = "Rd"
    <3>1. Len(buffer) = 2 /\ buffer \in Seq(Byte)
      BY <1>5, <2>1 DEF CodecInv, CodecTypeOK, DriverTypeOK, Writes
    <3>2. buffer[1] \in Byte /\ buffer[2] \in Byte
      BY <3>1, ElementOf
    <3> QED BY <1>1, <2>1, <3>2, WordIs
  <2>2. CASE Now.op # "Rd"
    BY <1>1, <2>2 DEF CodecInv, CodecTypeOK
  <2> QED BY <2>1, <2>2
<1>10. CodecTypeOK'
  <2>1. DriverTypeOK'
    BY <1>1, <1>2 DEF CodecInv, CodecTypeOK, DriverTypeOK
  <2>2. ControllerTypeOK'
    BY <1>1, <1>2 DEF CodecInv, CodecTypeOK, ControllerTypeOK
  <2>3. DeviceTypeOK'
    BY <1>1, <1>2 DEF CodecInv, CodecTypeOK, DeviceTypeOK
  <2> QED BY <1>8, <1>9, <2>1, <2>2, <2>3 DEF CodecTypeOK
<1>11. DriverInv'
  <2>1. ctrl_en' <=> InTransfer'
    BY <1>2, <1>3 DEF CodecInv, DriverInv
  <2> QED BY <1>1, <1>3, <1>5, <2>1 DEF DriverInv
<1>12. ControllerInv'
  BY <1>1, <1>2, <1>3, <1>4 DEF CodecInv, ControllerInv, Empty
<1>13. ~ Live'
  BY <1>3 DEF Live
<1>14. BufferInv'
  BY <1>1, <1>3, <1>13 DEF BufferInv
<1>15. FirstReadIsRight'
  <2> SUFFICES ASSUME Now.op = "Rd", retry = 0
               PROVE  value' = regs[Now.reg]
    BY <1>1, <1>8 DEF FirstReadIsRight, JustRead, Now
  <2>1. buffer = <<Part(1), Part(2)>>
    BY <1>1 DEF CodecInv, ReturnInv, Writes
  <2>2. value' = Word(regs[Now.reg] \div 256, regs[Now.reg] % 256)
    BY <1>1, <2>1 DEF Part
  <2>3. regs[Now.reg] \in DeviceWord
    BY <1>7 DEF CodecInv, CodecTypeOK, DeviceTypeOK
  <2> QED BY <2>2, <2>3, TwoBytes
<1>16. ReturnInv'
  BY <1>1, <1>15 DEF ReturnInv
<1> QED BY <1>10, <1>11, <1>12, <1>13, <1>14, <1>16, NotLive DEF CodecInv

LEMMA HangInv ==
  ASSUME CodecInv, Hang
  PROVE  CodecInv'
<1>1. /\ pc = "returned" /\ pc' = "hung"
      /\ call' = call /\ buffer' = buffer /\ retry' = retry /\ status' = status
      /\ sent' = sent /\ bytes_read' = bytes_read /\ cmds' = cmds
      /\ fsm' = fsm /\ shifter' = shifter
      /\ rx' = rx /\ rw_cmd' = rw_cmd /\ regs' = regs /\ pointer' = pointer
      /\ bytes' = bytes /\ step' = step /\ value' = value
  BY DEF Hang, controller, device
<1>2. /\ ctrl_en' = ctrl_en /\ nack_det' = nack_det /\ held' = held
      /\ receiving' = receiving
  BY DEF Hang, controller, device
<1>3. ~ InTransfer /\ ~ InTransfer' /\ Now' = Now
  BY <1>1 DEF InTransfer, Now
<1>4. CodecTypeOK'
  <2>1. DriverTypeOK'
    BY <1>1, <1>2 DEF CodecInv, CodecTypeOK, DriverTypeOK
  <2>2. ControllerTypeOK'
    BY <1>1, <1>2 DEF CodecInv, CodecTypeOK, ControllerTypeOK
  <2>3. DeviceTypeOK'
    BY <1>1, <1>2 DEF CodecInv, CodecTypeOK, DeviceTypeOK
  <2> QED BY <1>1, <2>1, <2>2, <2>3 DEF CodecInv, CodecTypeOK
<1>5. DriverInv'
  BY <1>1, <1>2, <1>3 DEF CodecInv, DriverInv, Writes
<1>6. ControllerInv'
  BY <1>1, <1>2, <1>3 DEF CodecInv, ControllerInv, Empty
<1>7. ~ Live'
  BY <1>3 DEF Live
<1>8. BufferInv'
  BY <1>1, <1>3, <1>7 DEF BufferInv
<1>9. ReturnInv'
  BY <1>1 DEF ReturnInv, FirstReadIsRight, JustRead
<1> QED BY <1>4, <1>5, <1>6, <1>7, <1>8, <1>9, NotLive DEF CodecInv

-----------------------------------------------------------------------------
\* What the controller does leaves the driver alone.

LEMMA DriverKept ==
  ASSUME CodecInv, UNCHANGED <<driver, step, value>>, ctrl_en' = ctrl_en,
         nack_det => nack_det', held => held',
         InTransfer => bytes_read + Len(rx') <= IF receiving /\ sent > 0 THEN sent - 1
                                                ELSE 0
  PROVE  /\ DriverInv' /\ DriverTypeOK' /\ (InTransfer' <=> InTransfer) /\ Now' = Now
         /\ Written' = Written
<1>1. /\ pc' = pc /\ call' = call /\ buffer' = buffer /\ retry' = retry
      /\ status' = status /\ sent' = sent /\ bytes_read' = bytes_read /\ step' = step
  BY DEF driver
<1>2. receiving' = receiving
  BY DEF driver
<1>3. (InTransfer' <=> InTransfer) /\ Now' = Now /\ (Writes' <=> Writes)
  BY <1>1 DEF InTransfer, Now, Writes
<1>4. Written' = Written
  BY <1>1, <1>2 DEF Written
<1>5. DriverTypeOK'
  BY <1>1, <1>2 DEF CodecInv, CodecTypeOK, DriverTypeOK
<1>6. DriverInv'
  <2>1. /\ pc' # "ready" => step' <= Len(Script) /\ call' = IF Writes' THEN [tx |-> 4, rx |-> 0]
                                                   ELSE [tx |-> 2, rx |-> 2]
        /\ Len(buffer') = call'.tx
    BY <1>1, <1>3 DEF CodecInv, DriverInv
  <2>2. ctrl_en' <=> InTransfer'
    BY <1>3 DEF CodecInv, DriverInv
  <2>3. /\ pc' \in {"write", "check", "read"} => status' = "SUCCESS" /\ bytes_read' <= 1
        /\ InTransfer' /\ receiving' => ~ Writes'
    BY <1>1, <1>2, <1>3 DEF CodecInv, DriverInv
  <2>4. size' = size /\ (issue_stop' <=> issue_stop)
    BY <1>1, <1>2 DEF size, issue_stop
  <2>5. /\ pc' = "write" => sent' <= size'
        /\ pc' = "check" => 1 <= sent' /\ sent' <= size' + 1
        /\ pc' = "read" => receiving' /\ sent' = 3
    BY <1>1, <1>2, <2>4 DEF CodecInv, DriverInv
  <2>6. pc' = "wait" /\ status' = "SUCCESS" =>
          issue_stop' /\ sent' = size' + 1 /\ (receiving' => bytes_read' = 2)
    BY <1>1, <1>2, <2>4 DEF CodecInv, DriverInv
  <2>7. /\ pc' = "wait" /\ status' = "TIMEOUT" => held' \/ nack_det'
        /\ pc' = "wait" /\ status' = "NACK" => nack_det'
    BY <1>1 DEF CodecInv, DriverInv
  <2>8. InTransfer' =>
          bytes_read' + Len(rx') <= IF receiving' /\ sent' > 0 THEN sent' - 1 ELSE 0
    BY <1>1, <1>2, <1>3
  <2> QED BY <2>1, <2>2, <2>3, <2>5, <2>6, <2>7, <2>8 DEF DriverInv
<1> QED BY <1>3, <1>4, <1>5, <1>6

\* What is known of a transfer nothing has gone wrong in.
LEMMA LiveIs ==
  ASSUME CodecInv, Live
  PROVE  /\ status = "SUCCESS" /\ step \in 1..Len(Script)
         /\ Now.op \in {"Rd", "Wr"} /\ Now.reg \in DOMAIN RegsAtReset
         /\ Now.reg \in DeviceWord /\ Now.val \in DeviceWord
         /\ call = IF Writes THEN [tx |-> 4, rx |-> 0] ELSE [tx |-> 2, rx |-> 2]
         /\ Len(buffer) = IF Writes THEN 4 ELSE 2
         /\ Written <= Total /\ (~ receiving => Written = sent /\ (~ Writes => sent <= 3))
         /\ (receiving => ~ Writes /\ Written = sent + 3)
<1>1. CodecTypeOK /\ status \in Codes /\ InTransfer
  BY DEF CodecInv, CodecTypeOK, DriverTypeOK, Live
<1>2. status = "SUCCESS"
  BY <1>1 DEF CodecInv, DriverInv, Live, InTransfer, Codes
<1>3. /\ step <= Len(Script) /\ Len(buffer) = call.tx /\ (receiving => ~ Writes)
      /\ call = IF Writes THEN [tx |-> 4, rx |-> 0] ELSE [tx |-> 2, rx |-> 2]
  BY <1>1 DEF CodecInv, DriverInv, InTransfer
<1>4. step \in 1..Len(Script)
  <2>1. Len(Script) \in Nat
    BY CodecAssumption
  <2> QED BY <1>3, <2>1 DEF CodecInv, CodecTypeOK
<1>5. Len(buffer) = IF Writes THEN 4 ELSE 2
  BY <1>3
<1>6. size = IF Writes THEN 4 ELSE 2
  BY <1>3 DEF size
<1>7. sent <= size + 1
  <2>1. CASE pc = "write"
    BY <1>1, <1>6, <2>1, Numbers DEF CodecInv, DriverInv
  <2>2. CASE pc = "check"
    BY <2>2 DEF CodecInv, DriverInv
  <2>3. CASE pc = "read"
    <3>1. receiving /\ sent = 3
      BY <2>3 DEF CodecInv, DriverInv
    <3> QED BY <1>3, <1>6, <3>1
  <2>4. CASE pc = "wait"
    <3>1. sent = size + 1
      BY <1>2, <2>4 DEF CodecInv, DriverInv
    <3> QED BY <1>6, <3>1
  <2> QED BY <1>1, <2>1, <2>2, <2>3, <2>4 DEF InTransfer
<1>8. /\ (~ receiving => Written = sent /\ (~ Writes => sent <= 3))
      /\ (receiving => Written = sent + 3)
  BY <1>1, <1>6, <1>7, Numbers DEF Written
<1>9. Written <= Total
  BY <1>1, <1>3, <1>6, <1>7, <1>8, Numbers DEF Total
<1> QED BY <1>2, <1>3, <1>4, <1>5, <1>8, <1>9, NowIs

\* Where the controller is in a transfer.
LEMMA PlaceIs ==
  ASSUME CodecInv, Live
  PROVE  /\ 0 <= Done /\ Done <= Popped /\ Popped <= Written /\ Written <= Total
         /\ Popped = Done + Len(shifter) /\ Written = Popped + Len(cmds)
         /\ Total = IF Writes THEN 5 ELSE 6
<1>1. CodecTypeOK /\ 0 <= Done
  BY DEF CodecInv, CommandsInv
<1>2. Popped = Done + Len(shifter) /\ Written = Popped + Len(cmds)
      /\ Done <= Popped /\ Popped <= Written
  BY <1>1, Numbers DEF Done, Popped
<1> QED BY <1>1, <1>2, LiveIs DEF Total

LEMMA GenStartInv ==
  ASSUME CodecInv, GenStart, UNCHANGED <<step, value>>
  PROVE  CodecInv'
<1>1. /\ fsm \in {"start", "idle"} /\ cmds # <<>> /\ ~ nack_det /\ fsm' = "bus"
      /\ cmds' = cmds /\ shifter' = shifter /\ rx' = rx /\ rw_cmd' = rw_cmd
      /\ regs' = regs /\ pointer' = pointer /\ bytes' = bytes /\ step' = step
      /\ value' = value
  BY DEF GenStart, device
<1>2. ctrl_en' = ctrl_en /\ nack_det' = nack_det /\ held' = held
  BY DEF GenStart, device
<1>3. /\ pc' = pc /\ buffer' = buffer /\ retry' = retry /\ status' = status
      /\ bytes_read' = bytes_read
  BY DEF GenStart, driver
<1>4. CodecTypeOK /\ (InTransfer => bytes_read + Len(rx) <=
                        IF receiving /\ sent > 0 THEN sent - 1 ELSE 0)
  BY DEF CodecInv, DriverInv
<1>5. /\ DriverInv' /\ DriverTypeOK' /\ (InTransfer' <=> InTransfer) /\ Now' = Now
      /\ Written' = Written
  BY <1>1, <1>2, <1>4, DriverKept DEF GenStart
<1>6. CodecTypeOK'
  <2>1. ControllerTypeOK'
    BY <1>1, <1>2 DEF CodecInv, CodecTypeOK, ControllerTypeOK
  <2>2. DeviceTypeOK'
    BY <1>1, <1>2 DEF CodecInv, CodecTypeOK, DeviceTypeOK
  <2> QED BY <1>1, <1>5, <2>1, <2>2 DEF CodecInv, CodecTypeOK
<1>7. ControllerInv'
  BY <1>1, <1>2, <1>3, <1>5 DEF CodecInv, ControllerInv, Empty
<1>8. /\ (Live' <=> Live) /\ (Writes' <=> Writes) /\ Total' = Total
      /\ Popped' = Popped /\ Done' = Done
  BY <1>1, <1>2, <1>5 DEF Live, Writes, Total, Popped, Done
<1>9. Live => Popped = 0 /\ Done = 0 /\ rw_cmd = "none"
  <2> SUFFICES ASSUME Live PROVE Popped = 0 /\ Done = 0 /\ rw_cmd = "none"
    OBVIOUS
  <2>1. Len(cmds) >= 1
    BY <1>1, <1>4, Numbers
  <2>2. Done # Total
    BY <1>4, <2>1, PlaceIs, Numbers
  <2>3. fsm = "start" /\ Popped = 0
    BY <1>1, <2>2 DEF CodecInv, CommandsInv
  <2>4. Done = 0
    BY <1>4, <2>3, PlaceIs, Numbers
  <2> QED BY <2>3, <2>4 DEF CodecInv, ControllerInv, Live
<1>10. CommandsInv'
  BY <1>1, <1>3, <1>5, <1>8, <1>9 DEF CodecInv, CommandsInv, Total
<1>11. BusInv'
  BY <1>1, <1>3, <1>5, <1>8, <1>9 DEF CodecInv, BusInv, OnBus
<1>12. BufferInv'
  BY <1>1, <1>3, <1>5, <1>8 DEF CodecInv, BufferInv, Part
<1>13. ReturnInv'
  BY <1>1, <1>3, <1>5, <1>8 DEF CodecInv, ReturnInv, FirstReadIsRight, JustRead, Part
<1> QED BY <1>5, <1>6, <1>7, <1>10, <1>11, <1>12, <1>13 DEF CodecInv

LEMMA PopTxFifoInv ==
  ASSUME CodecInv, PopTxFifo, UNCHANGED <<step, value>>
  PROVE  CodecInv'
<1>1. /\ fsm = "bus" /\ shifter = <<>> /\ cmds # <<>> /\ shifter' = <<Head(cmds)>>
      /\ cmds' = Tail(cmds) /\ rw_cmd' = (IF Head(cmds).restart THEN "none" ELSE rw_cmd)
      /\ fsm' = fsm /\ rx' = rx /\ regs' = regs /\ pointer' = pointer
      /\ bytes' = bytes /\ step' = step /\ value' = value
  BY DEF PopTxFifo, device
<1>2. ctrl_en' = ctrl_en /\ nack_det' = nack_det /\ held' = held
  BY DEF PopTxFifo, device
<1>3. /\ pc' = pc /\ buffer' = buffer /\ retry' = retry /\ status' = status
      /\ bytes_read' = bytes_read
  BY DEF PopTxFifo, driver
<1>4. CodecTypeOK /\ cmds \in Seq(Commands) /\ FIFO_DEPTH \in Nat
      /\ (InTransfer => bytes_read + Len(rx) <=
            IF receiving /\ sent > 0 THEN sent - 1 ELSE 0)
  BY I2cAssumption DEF CodecInv, DriverInv, CodecTypeOK, ControllerTypeOK
<1>5. /\ DriverInv' /\ DriverTypeOK' /\ (InTransfer' <=> InTransfer) /\ Now' = Now
      /\ Written' = Written
  BY <1>1, <1>2, <1>4, DriverKept DEF PopTxFifo
<1>6. /\ cmds' \in Seq(Commands) /\ Len(cmds') = Len(cmds) - 1
      /\ \A i \in 1..Len(cmds) - 1 : cmds'[i] = cmds[i + 1]
      /\ Head(cmds) = cmds[1] /\ Head(cmds) \in Commands /\ Len(cmds) >= 1
  BY <1>1, <1>4, Tails
<1>7. /\ shifter' \in Seq(Commands) /\ Len(shifter') = 1 /\ shifter'[1] = cmds[1]
      /\ shifter' # <<>> /\ Len(shifter) = 0
  BY <1>1, <1>6
<1>8. CodecTypeOK'
  <2>1. Len(cmds') <= FIFO_DEPTH
    BY <1>4, <1>6, Numbers DEF CodecTypeOK, ControllerTypeOK
  <2>2. ControllerTypeOK'
    BY <1>1, <1>2, <1>6, <1>7, <2>1 DEF CodecInv, CodecTypeOK, ControllerTypeOK
  <2>3. DeviceTypeOK'
    BY <1>1, <1>2 DEF CodecInv, CodecTypeOK, DeviceTypeOK
  <2> QED BY <1>1, <1>5, <2>2, <2>3 DEF CodecInv, CodecTypeOK
<1>9. ~ Empty
  BY <1>1 DEF Empty
<1>10. ControllerInv'
  BY <1>1, <1>2, <1>3, <1>5, <1>9 DEF CodecInv, ControllerInv
<1>11. (Live' <=> Live) /\ (Writes' <=> Writes) /\ Total' = Total
  BY <1>2, <1>5 DEF Live, Writes, Total
<1>12. Popped' = Popped + 1 /\ Done' = Done /\ Done = Popped
  <2>1. Popped' = Popped + 1
    BY <1>4, <1>5, <1>6, Numbers DEF Popped
  <2> QED BY <1>4, <1>7, <2>1, Numbers DEF Done
<1>13. ASSUME Live
       PROVE  /\ 0 <= Done
              /\ \A i \in 1..Len(cmds) : IsCommand(cmds[i], Popped + i, Now.op, buffer)
              /\ ~ (fsm \in {"stop", "idle"}) /\ Done # Total
              /\ IsCommand(cmds[1], Popped', Now.op, buffer)
  <2>1. /\ 0 <= Done
        /\ \A i \in 1..Len(cmds) : IsCommand(cmds[i], Popped + i, Now.op, buffer)
        /\ ~ (fsm \in {"stop", "idle"}) /\ Done # Total
    BY <1>1, <1>13 DEF CodecInv, CommandsInv
  <2>2. 1 \in 1..Len(cmds)
    BY <1>4, <1>6, Numbers
  <2>3. IsCommand(cmds[1], Popped + 1, Now.op, buffer)
    BY <2>1, <2>2
  <2> QED BY <1>12, <2>1, <2>3
<1>14. CommandsInv'
  <2> SUFFICES ASSUME Live PROVE CommandsInv'
    BY <1>11 DEF CommandsInv
  <2>1. ASSUME NEW i \in 1..Len(cmds')
        PROVE  IsCommand(cmds'[i], Popped' + i, Now.op, buffer)
    <3>1. i \in 1..Len(cmds) - 1 /\ i \in Int /\ Len(cmds) \in Int /\ Popped \in Int
      BY <1>4, <1>6, Numbers
    <3>2. i + 1 \in 1..Len(cmds) /\ Popped' + i = Popped + (i + 1)
      BY <1>12, <3>1
    <3>3. cmds'[i] = cmds[i + 1]
      BY <1>6, <3>1
    <3> QED BY <1>13, <3>2, <3>3
  <2> QED BY <1>1, <1>3, <1>5, <1>7, <1>11, <1>12, <1>13, <2>1 DEF CommandsInv
<1>15. BusInv'
  <2> SUFFICES ASSUME Live PROVE BusInv'
    BY <1>11 DEF BusInv
  <2>1. cmds[1].restart <=> Popped' = 4 /\ Now.op = "Rd"
    BY <1>13 DEF IsCommand
  <2>2. Writes <=> Now.op # "Rd"
    BY LiveIs DEF Writes
  <2>3. rw_cmd = OnBus
    BY <1>1 DEF CodecInv, BusInv
  <2>4. CASE Popped' = 4 /\ Now.op = "Rd"
    <3>1. Done = 3
      BY <1>4, <1>12, <2>4, Numbers
    <3>2. OnBus' = "none" /\ rw_cmd' = "none"
      BY <1>1, <1>6, <1>11, <1>12, <2>1, <2>2, <2>4, <3>1 DEF OnBus
    <3> QED BY <1>1, <1>3, <1>5, <1>11, <1>12, <3>2 DEF CodecInv, BusInv
  <2>5. CASE ~ (Popped' = 4 /\ Now.op = "Rd")
    <3>1. ~ (Popped = 4 /\ Done = 3)
      BY <1>12
    <3>2. OnBus' = OnBus
      BY <1>11, <1>12, <2>2, <2>5, <3>1 DEF OnBus
    <3>3. rw_cmd' = rw_cmd
      BY <1>1, <1>6, <2>1, <2>5
    <3> QED BY <1>1, <1>3, <1>5, <1>11, <1>12, <2>3, <3>2, <3>3 DEF CodecInv, BusInv
  <2> QED BY <2>4, <2>5
<1>16. BufferInv'
  BY <1>1, <1>3, <1>5, <1>11 DEF CodecInv, BufferInv, Part
<1>17. ReturnInv'
  BY <1>1, <1>3, <1>5, <1>11 DEF CodecInv, ReturnInv, FirstReadIsRight, JustRead, Part
<1> QED BY <1>5, <1>8, <1>10, <1>14, <1>15, <1>16, <1>17 DEF CodecInv

\* The device answers on the bus only in a transfer nothing has gone wrong in.
LEMMA ShiftingIsLive ==
  ASSUME CodecInv, Shifting
  PROVE  /\ Live /\ InTransfer /\ ~ held /\ ~ nack_det
         /\ fsm = "bus" /\ shifter # <<>> /\ Len(shifter) = 1
         /\ shifter[1] \in Commands /\ Done = Popped - 1 /\ Popped \in 1..6
         /\ IsCommand(shifter[1], Popped, Now.op, buffer)
         /\ Popped <= Total /\ rw_cmd = OnBus
<1>1. fsm = "bus" /\ shifter # <<>> /\ ~ held /\ ~ Empty
  BY DEF Shifting, Empty
<1>2. Live /\ InTransfer
  BY <1>1 DEF CodecInv, ControllerInv, Live, InTransfer
<1>3. CodecTypeOK /\ shifter \in Seq(Commands)
  BY DEF CodecInv, CodecTypeOK, ControllerTypeOK
<1>4. Len(shifter) = 1
  BY <1>1, <1>3, Numbers
<1>5. shifter[1] \in Commands
  BY <1>3, <1>4, ElementOf
<1>6. Done = Popped - 1 /\ Popped \in 1..6 /\ Popped <= Total
  <2>1. /\ 0 <= Done /\ Popped = Done + 1 /\ Popped <= Total /\ Total \in {5, 6}
        /\ Popped \in Int /\ Done \in Int
    <3>1. Popped \in Int /\ Done \in Int
      BY <1>3, Numbers
    <3>2. /\ 0 <= Done /\ Popped = Done + Len(shifter) /\ Popped <= Written
          /\ Written <= Total /\ Total \in {5, 6}
      BY <1>2, PlaceIs
    <3>3. Written \in Int
      BY <1>3, Numbers
    <3> QED BY <1>4, <3>1, <3>2, <3>3
  <2> QED BY <2>1
<1>7. IsCommand(shifter[1], Popped, Now.op, buffer)
  BY <1>1, <1>2 DEF CodecInv, CommandsInv
<1>8. rw_cmd = OnBus
  BY <1>1, <1>2 DEF CodecInv, BusInv
<1> QED BY <1>1, <1>2, <1>4, <1>5, <1>6, <1>7, <1>8 DEF Live

\* One more command of the transfer is done; what it does to the device and to the
\* FIFO of the answers is left open.
LEMMA Shifts ==
  ASSUME CodecInv, Shifting, Shifted, UNCHANGED <<step, value>>,
         rx' \in Seq(Byte), Len(rx') <= FIFO_DEPTH,
         bytes_read + Len(rx') <= (IF receiving /\ sent > 0 THEN sent - 1 ELSE 0),
         DeviceTypeOK', rw_cmd' \in {"none", "R", "W"}
  PROVE  /\ CodecTypeOK' /\ DriverInv' /\ ControllerInv' /\ CommandsInv' /\ ReturnInv'
         /\ Now' = Now /\ Live' /\ InTransfer' /\ (Writes' <=> Writes)
         /\ Popped' = Popped /\ Done' = Popped
         /\ fsm' # "idle" /\ pc' = pc /\ buffer' = buffer /\ retry' = retry
         /\ bytes_read' = bytes_read
<1>1. /\ shifter' = <<>> /\ fsm' = (IF shifter[1].stop THEN "stop" ELSE "bus")
      /\ cmds' = cmds /\ step' = step /\ value' = value
  BY DEF Shifted
<1>2. ctrl_en' = ctrl_en /\ nack_det' = nack_det /\ held' = held
  BY DEF Shifted
<1>3. /\ pc' = pc /\ buffer' = buffer /\ retry' = retry /\ status' = status
      /\ bytes_read' = bytes_read
  BY DEF Shifted, driver
<1>4. CodecTypeOK /\ Live /\ InTransfer /\ ~ held /\ ~ nack_det
  BY ShiftingIsLive DEF CodecInv
<1>5. /\ DriverInv' /\ DriverTypeOK' /\ (InTransfer' <=> InTransfer) /\ Now' = Now
      /\ Written' = Written
  BY <1>2, DriverKept DEF Shifted
<1>6. CodecTypeOK'
  <2>1. shifter' \in Seq(Commands) /\ Len(shifter') = 0
    BY <1>1, EmptyIs
  <2>2. ControllerTypeOK'
    BY <1>1, <1>2, <2>1 DEF CodecInv, CodecTypeOK, ControllerTypeOK
  <2> QED BY <1>1, <1>5, <2>2 DEF CodecInv, CodecTypeOK
<1>7. ControllerInv'
  BY <1>1, <1>2, <1>3, <1>4, <1>5 DEF ControllerInv, InTransfer
<1>8. Popped' = Popped /\ Done' = Popped
  <2>1. Popped' = Popped
    BY <1>1, <1>5 DEF Popped
  <2>2. Len(shifter') = 0
    BY <1>1
  <2> QED BY <1>4, <2>1, <2>2, Numbers DEF Done
<1>9. Live' /\ (Writes' <=> Writes) /\ Total' = Total
  BY <1>2, <1>4, <1>5 DEF Live, Writes, Total
<1>10. CommandsInv'
  <2>1. fsm' \in {"stop", "idle"} <=> Done' = Total'
    <3>1. shifter[1].stop <=> Popped = IF Now.op = "Wr" THEN 5 ELSE 6
      BY ShiftingIsLive DEF IsCommand
    <3> QED BY <1>1, <1>8, <1>9, <3>1 DEF Total, Writes
  <2>2. 0 <= Done'
    BY <1>8, ShiftingIsLive
  <2>3. \A i \in 1..Len(cmds) : IsCommand(cmds[i], Popped + i, Now.op, buffer)
    BY <1>4 DEF CodecInv, CommandsInv
  <2> QED BY <1>1, <1>3, <1>5, <1>8, <2>1, <2>2, <2>3 DEF CommandsInv
<1>11. ReturnInv'
  BY <1>3, <1>4 DEF ReturnInv, FirstReadIsRight, JustRead, InTransfer
<1> QED BY <1>1, <1>3, <1>4, <1>5, <1>6, <1>7, <1>8, <1>9, <1>10, <1>11

LEMMA Gen7BitAddrInv ==
  ASSUME CodecInv, Gen7BitAddr, UNCHANGED <<step, value>>
  PROVE  CodecInv'
<1>1. /\ Shifting /\ rw_cmd = "none" /\ bytes' = <<>> /\ Shifted /\ rx' = rx
      /\ rw_cmd' = (IF shifter[1].byte % 2 = 1 THEN "R" ELSE "W")
      /\ regs' = regs /\ pointer' = pointer
  BY DEF Gen7BitAddr
<1>2. /\ Live /\ InTransfer /\ Done = Popped - 1 /\ Popped \in 1..6
      /\ IsCommand(shifter[1], Popped, Now.op, buffer) /\ OnBus = "none"
      /\ held' = held /\ CodecTypeOK
  BY <1>1, ShiftingIsLive DEF CodecInv, Shifted
<1>3. /\ CodecTypeOK' /\ DriverInv' /\ ControllerInv' /\ CommandsInv' /\ ReturnInv'
      /\ Now' = Now /\ Live' /\ InTransfer' /\ (Writes' <=> Writes)
      /\ Popped' = Popped /\ Done' = Popped
      /\ fsm' # "idle" /\ pc' = pc /\ buffer' = buffer /\ retry' = retry
      /\ bytes_read' = bytes_read
  <2>1. rx \in Seq(Byte) /\ Len(rx) <= FIFO_DEPTH
    BY <1>2 DEF CodecTypeOK, ControllerTypeOK
  <2>2. bytes_read + Len(rx) <= (IF receiving /\ sent > 0 THEN sent - 1 ELSE 0)
    BY <1>2 DEF CodecInv, DriverInv
  <2>3. bytes' \in Seq(Byte)
    BY <1>1
  <2>4. DeviceTypeOK'
    BY <1>1, <1>2, <2>3 DEF CodecTypeOK, DeviceTypeOK
  <2>5. rw_cmd' \in {"none", "R", "W"}
    BY <1>1
  <2> QED BY <1>1, <2>1, <2>2, <2>4, <2>5, Shifts
\* The address is the first command, or the fourth of a read.
<1>4. Now.op \in {"Rd", "Wr"} /\ (Writes <=> Now.op = "Wr")
  BY <1>2, LiveIs DEF Writes
<1>5. Popped = 1 \/ (Popped = 4 /\ ~ Writes)
  BY <1>2 DEF OnBus
<1>8. BusInv'
  <2>1. CASE Popped = 1
    <3>1. shifter[1].byte = 20
      BY <1>2, <2>1 DEF IsCommand, ByteOf
    <3>2. rw_cmd' = "W" /\ OnBus' = "W" /\ Done' = 1 /\ Done = 0
      BY <1>1, <1>2, <1>3, <2>1, <3>1 DEF OnBus
    <3>3. bytes_read' + Len(rx') = 0 \/ Writes
      BY <1>1, <1>2, <1>3, <3>2 DEF CodecInv, BusInv
    <3>4. Len(bytes') = 0 /\ \A i : i \notin 1..0
      BY <1>1
    <3> QED BY <1>3, <3>2, <3>3, <3>4 DEF BusInv
  <2>2. CASE Popped = 4 /\ ~ Writes
    <3>1. shifter[1].byte = 21
      BY <1>2, <1>4, <2>2 DEF IsCommand, ByteOf
    <3>2. rw_cmd' = "R" /\ OnBus' = "R" /\ Done' = 4 /\ Done = 3
      BY <1>1, <1>2, <1>3, <2>2, <3>1 DEF OnBus
    <3>3. bytes_read' + Len(rx') = 0
      BY <1>1, <1>2, <1>3, <2>2, <3>2 DEF CodecInv, BusInv
    <3>4. Len(bytes') = 0
      BY <1>1
    <3>5. retry = 0 => pointer = Now.reg
      BY <1>2, <3>2 DEF CodecInv, BusInv
    <3> QED BY <1>1, <1>3, <2>2, <3>2, <3>3, <3>4, <3>5 DEF BusInv
  <2> QED BY <1>5, <2>1, <2>2
<1>9. BufferInv'
  BY <1>1, <1>2, <1>3 DEF CodecInv, BufferInv, Part, InTransfer
<1> QED BY <1>3, <1>8, <1>9 DEF CodecInv

\* A byte that is sent is the next one of the buffer.
LEMMA SentIs ==
  ASSUME CodecInv, Shifting, rw_cmd = "W", NEW b, b = shifter[1].byte
  PROVE  /\ b \in Byte /\ Popped \in 2..5 /\ (~ Writes => Popped \in 2..3)
         /\ b = buffer[Popped - 1]
         /\ bytes \in Seq(Byte) /\ Len(bytes) = Popped - 2
         /\ \A i \in 1..Popped - 2 : bytes[i] = buffer[i]
         /\ bytes_read = 0 \/ Writes
         /\ ~ Writes => Len(rx) = 0
         /\ Writes \/ retry = 0 => buffer = IF Writes
              THEN <<Now.reg \div 256, Now.reg % 256, Now.val \div 256, Now.val % 256>>
              ELSE <<Now.reg \div 256, Now.reg % 256>>
<1>1. /\ Live /\ InTransfer /\ Done = Popped - 1 /\ Popped \in 1..6
      /\ IsCommand(shifter[1], Popped, Now.op, buffer) /\ OnBus = "W"
      /\ CodecTypeOK /\ b \in Byte /\ Popped <= Total
  BY ShiftingIsLive DEF CodecInv, Commands
<1>2. /\ Now.op \in {"Rd", "Wr"} /\ (Writes <=> Now.op = "Wr")
      /\ Total = (IF Writes THEN 5 ELSE 6)
  BY <1>1, LiveIs, PlaceIs DEF Writes
<1>3. Popped \in 2..5 /\ (~ Writes => Popped \in 2..3)
  BY <1>1, <1>2 DEF OnBus
<1>4. b = buffer[Popped - 1]
  <2>1. b = ByteOf(Popped, Now.op, buffer)
    BY <1>1 DEF IsCommand
  <2> QED BY <1>2, <1>3, <2>1 DEF ByteOf
<1>5. /\ bytes \in Seq(Byte) /\ Len(bytes) = Popped - 2
      /\ \A i \in 1..Popped - 2 : bytes[i] = buffer[i]
  <2>1. Len(bytes) = Done - 1 /\ \A i \in 1..Done - 1 : bytes[i] = buffer[i]
    BY <1>1 DEF CodecInv, BusInv
  <2>2. Done - 1 = Popped - 2
    BY <1>1
  <2> QED BY <1>1, <2>1, <2>2 DEF CodecTypeOK, DeviceTypeOK
<1>6. /\ bytes_read = 0 \/ Writes
      /\ ~ Writes => Len(rx) = 0
  <2>1. ~ Writes => bytes_read + Len(rx) = 0
    BY <1>1, <1>3 DEF CodecInv, BusInv
  <2> QED BY <1>1, <2>1, Numbers
<1>7. Writes \/ retry = 0 => buffer = IF Writes
         THEN <<Now.reg \div 256, Now.reg % 256, Now.val \div 256, Now.val % 256>>
         ELSE <<Now.reg \div 256, Now.reg % 256>>
  BY <1>1, <1>6 DEF CodecInv, BufferInv
<1> QED BY <1>1, <1>3, <1>4, <1>5, <1>6, <1>7

\* The last byte of a write puts the value of the script into its register.
LEMMA TxByteWrites ==
  ASSUME CodecInv, TxByte
  PROVE  \/ regs' = regs /\ ~ (Writes /\ Popped = 5)
         \/ /\ Writes /\ Popped = 5 /\ step \in 1..Len(Script)
            /\ Now.reg \in DOMAIN regs
            /\ regs' = [regs EXCEPT ![Now.reg] = Now.val]
<1> DEFINE b == shifter[1].byte
<1>1. /\ Shifting /\ rw_cmd = "W"
      /\ regs' = (IF Len(bytes) = 3 /\ pointer \in DOMAIN regs
                  THEN [regs EXCEPT ![pointer] = Word(bytes[3], b)] ELSE regs)
  BY DEF TxByte
<1> HIDE DEF b
<1>2. /\ Popped \in 2..5 /\ (~ Writes => Popped \in 2..3) /\ Len(bytes) = Popped - 2
  BY <1>1, SentIs DEF b
<1>3. CASE Popped # 5
  BY <1>1, <1>2, <1>3
<1>4. CASE Popped = 5
  <2>1. Writes /\ Len(bytes) = 3 /\ Live /\ Done = 4
    BY <1>1, <1>2, <1>4, ShiftingIsLive
  <2>2. pointer = Now.reg
    BY <2>1 DEF CodecInv, BusInv
  <2>3. /\ buffer = <<Now.reg \div 256, Now.reg % 256, Now.val \div 256, Now.val % 256>>
        /\ b = buffer[4] /\ bytes[3] = buffer[3]
    BY <1>1, <1>4, <2>1, SentIs DEF b
  <2>4. bytes[3] = Now.val \div 256 /\ b = Now.val % 256
    BY <2>3
  <2>5. /\ Now.reg \in DOMAIN RegsAtReset /\ Now.val \in DeviceWord
        /\ step \in 1..Len(Script)
    BY <2>1, LiveIs
  <2>6. Word(bytes[3], b) = Now.val
    BY <2>4, <2>5, TwoBytes
  <2>7. Now.reg \in DOMAIN regs
    BY <2>5 DEF CodecInv, CodecTypeOK, DeviceTypeOK
  <2> QED BY <1>1, <1>4, <2>1, <2>2, <2>5, <2>6, <2>7
<1> QED BY <1>3, <1>4

LEMMA TxByteInv ==
  ASSUME CodecInv, TxByte, UNCHANGED <<step, value>>
  PROVE  CodecInv'
<1> DEFINE b == shifter[1].byte
<1>1. /\ Shifting /\ rw_cmd = "W" /\ bytes' = Append(bytes, b) /\ Shifted /\ rx' = rx
      /\ pointer' = (IF Len(bytes) = 1 THEN Word(bytes[1], b) ELSE pointer)
      /\ regs' = (IF Len(bytes) = 3 /\ pointer \in DOMAIN regs
                  THEN [regs EXCEPT ![pointer] = Word(bytes[3], b)] ELSE regs)
      /\ rw_cmd' = rw_cmd
  BY DEF TxByte
<1>2. /\ Live /\ InTransfer /\ Done = Popped - 1 /\ held' = held /\ CodecTypeOK
      /\ b \in Byte
  BY <1>1, ShiftingIsLive DEF CodecInv, Shifted, Commands
<1>3. Now.reg \in DeviceWord
  BY <1>2, LiveIs
<1> HIDE DEF b
<1>4. /\ Popped \in 2..5 /\ (~ Writes => Popped \in 2..3)
      /\ b = buffer[Popped - 1]
      /\ bytes \in Seq(Byte) /\ Len(bytes) = Popped - 2
      /\ \A i \in 1..Popped - 2 : bytes[i] = buffer[i]
      /\ bytes_read = 0 \/ Writes
      /\ ~ Writes => Len(rx) = 0
      /\ Writes \/ retry = 0 => buffer = IF Writes
           THEN <<Now.reg \div 256, Now.reg % 256, Now.val \div 256, Now.val % 256>>
           ELSE <<Now.reg \div 256, Now.reg % 256>>
  BY <1>1, SentIs DEF b
<1>5. /\ bytes' \in Seq(Byte) /\ Len(bytes') = Popped - 1
      /\ \A i \in 1..Popped - 1 : bytes'[i] = buffer[i]
  <2>1. /\ bytes' \in Seq(Byte) /\ Len(bytes') = Len(bytes) + 1
        /\ \A i \in 1..Len(bytes) : bytes'[i] = bytes[i]
        /\ bytes'[Len(bytes) + 1] = b
    BY <1>1, <1>2, <1>4, Appends
  <2> QED BY <1>4, <2>1
<1>6. /\ pointer \in DeviceWord /\ regs \in [DOMAIN RegsAtReset -> DeviceWord]
      /\ pointer' \in DeviceWord /\ regs' \in [DOMAIN RegsAtReset -> DeviceWord]
  <2>1. pointer \in DeviceWord /\ regs \in [DOMAIN RegsAtReset -> DeviceWord]
    BY <1>2 DEF CodecTypeOK, DeviceTypeOK
  <2>2. pointer' \in DeviceWord
    <3>1. CASE Len(bytes) = 1
      BY <1>1, <1>2, <1>4, <3>1, ElementOf, WordIs
    <3> QED BY <1>1, <2>1, <3>1
  <2>3. regs' \in [DOMAIN RegsAtReset -> DeviceWord]
    <3>1. CASE Len(bytes) = 3 /\ pointer \in DOMAIN regs
      <4>1. 3 \in 1..Len(bytes)
        BY <3>1
      <4>2. bytes[3] \in Byte
        BY <1>4, <4>1, ElementOf
      <4>3. Word(bytes[3], b) \in DeviceWord
        BY <1>2, <4>2, WordIs
      <4> QED BY <1>1, <2>1, <3>1, <4>3
    <3> QED BY <1>1, <2>1, <3>1
  <2> QED BY <2>1, <2>2, <2>3
<1>7. /\ CodecTypeOK' /\ DriverInv' /\ ControllerInv' /\ CommandsInv' /\ ReturnInv'
      /\ Now' = Now /\ Live' /\ InTransfer' /\ (Writes' <=> Writes)
      /\ Popped' = Popped /\ Done' = Popped
      /\ fsm' # "idle" /\ pc' = pc /\ buffer' = buffer /\ retry' = retry
      /\ bytes_read' = bytes_read
  <2>1. rx \in Seq(Byte) /\ Len(rx) <= FIFO_DEPTH
    BY <1>2 DEF CodecTypeOK, ControllerTypeOK
  <2>2. bytes_read + Len(rx) <= (IF receiving /\ sent > 0 THEN sent - 1 ELSE 0)
    BY <1>2 DEF CodecInv, DriverInv
  <2>3. held' \in BOOLEAN
    BY <1>2 DEF CodecTypeOK, DeviceTypeOK
  <2>4. DeviceTypeOK'
    BY <1>5, <1>6, <2>3 DEF DeviceTypeOK
  <2>5. rw_cmd' \in {"none", "R", "W"}
    BY <1>1
  <2> QED BY <1>1, <2>1, <2>2, <2>4, <2>5, Shifts
<1>8. OnBus' = "W"
  BY <1>4, <1>7 DEF OnBus
<1>9. Popped >= 3 /\ (Writes \/ retry = 0) => pointer' = Now.reg
  <2>1. CASE Popped = 3
    <3>1. (Writes \/ retry = 0) => bytes[1] = Now.reg \div 256 /\ b = Now.reg % 256
      BY <1>4, <2>1
    <3>2. pointer' = Word(bytes[1], b)
      BY <1>1, <1>4, <2>1
    <3> QED BY <1>3, <3>1, <3>2, TwoBytes
  <2>2. CASE Popped > 3
    <3>1. pointer' = pointer /\ Done >= 3
      BY <1>1, <1>2, <1>4, <2>2
    <3> QED BY <1>2, <3>1 DEF CodecInv, BusInv
  <2> QED BY <1>4, <2>1, <2>2
<1>10. Writes /\ Popped = 5 => regs'[Now.reg] = Now.val
  BY TxByteWrites
<1>11. ~ Writes => regs' = regs
  BY <1>1, <1>4
<1>12. BusInv'
  <2>1. rw_cmd' = OnBus'
    BY <1>1, <1>8
  <2>2. Len(bytes') = Done' - 1 /\ \A i \in 1..Done' - 1 : bytes'[i] = buffer'[i]
    BY <1>5, <1>7
  <2>3. ~ Writes' => bytes_read' + Len(rx') = 0 /\ ~ (Done' > 4)
    BY <1>1, <1>2, <1>4, <1>7, Numbers
  <2>4. Done' >= 3 /\ (Writes' \/ retry' = 0) => pointer' = Now'.reg
    BY <1>7, <1>9
  <2>5. Writes' /\ Done' = 5 => regs'[Now'.reg] = Now'.val
    BY <1>7, <1>10
  <2> QED BY <1>8, <2>1, <2>2, <2>3, <2>4, <2>5 DEF BusInv
<1>13. BufferInv'
  BY <1>1, <1>2, <1>7, <1>11 DEF CodecInv, BufferInv, Part, InTransfer
<1> QED BY <1>7, <1>12, <1>13 DEF CodecInv

LEMMA RxByteInv ==
  ASSUME CodecInv, RxByte, UNCHANGED <<step, value>>
  PROVE  CodecInv'
<1> DEFINE b == IF bytes = <<>> THEN Pointed \div 256 ELSE Pointed % 256
<1>1. /\ Shifting /\ rw_cmd = "R" /\ bytes' = Append(bytes, b) /\ Shifted
      /\ rx' = Append(rx, b) /\ regs' = regs /\ pointer' = pointer
      /\ rw_cmd' = rw_cmd
  BY DEF RxByte
<1>2. /\ Live /\ InTransfer /\ Done = Popped - 1 /\ Popped \in 1..6
      /\ OnBus = "R" /\ held' = held /\ CodecTypeOK
  BY <1>1, ShiftingIsLive DEF CodecInv, Shifted
<1>3. Popped \in 5..6 /\ ~ Writes
  BY <1>2 DEF OnBus
<1>4. /\ Len(bytes) = Popped - 5 /\ bytes_read + Len(rx) = Popped - 5
      /\ (retry = 0 => pointer = Now.reg)
  BY <1>2, <1>3 DEF CodecInv, BusInv
<1>5. /\ bytes \in Seq(Byte) /\ rx \in Seq(Byte) /\ FIFO_DEPTH \in Nat /\ FIFO_DEPTH >= 2
      /\ pointer \in DeviceWord /\ regs \in [DOMAIN RegsAtReset -> DeviceWord]
      /\ bytes_read \in 0..2 /\ Len(rx) \in Nat
  BY <1>2, Numbers, I2cAssumption DEF CodecTypeOK, ControllerTypeOK, DeviceTypeOK
<1>6. Pointed \in DeviceWord /\ Pointed \div 256 \in Byte /\ Pointed % 256 \in Byte
  <2>1. 0 \in DeviceWord
    BY WordRange, WordsIs
  <2>2. Pointed \in DeviceWord
    BY <1>5, <2>1 DEF Pointed
  <2> QED BY <2>2, TwoBytes
<1>7. b \in Byte
  BY <1>6
<1>8. bytes = <<>> <=> Popped = 5
  BY <1>3, <1>4, <1>5, EmptyIs
<1>9. retry = 0 => b = Part(Popped - 4)
  <2> SUFFICES ASSUME retry = 0 PROVE b = Part(Popped - 4)
    OBVIOUS
  <2>1. Pointed = regs[Now.reg]
    BY <1>2, <1>4, <1>5, LiveIs DEF Pointed
  <2> QED BY <1>3, <1>8, <2>1 DEF Part
<1> HIDE DEF b
<1>10. /\ bytes' \in Seq(Byte) /\ Len(bytes') = Len(bytes) + 1
       /\ rx' \in Seq(Byte) /\ Len(rx') = Len(rx) + 1
       /\ \A i \in 1..Len(rx) : rx'[i] = rx[i]
       /\ rx'[Len(rx) + 1] = b
  BY <1>1, <1>5, <1>7, Appends
<1>11. Len(rx') <= FIFO_DEPTH
  BY <1>3, <1>4, <1>5, <1>10
<1>12. bytes_read + Len(rx') = Popped - 4
  BY <1>3, <1>4, <1>5, <1>10
<1>13. bytes_read + Len(rx') <= (IF receiving /\ sent > 0 THEN sent - 1 ELSE 0)
  <2>1. Popped <= Written /\ Written \in Int /\ sent \in Int
    BY <1>2, PlaceIs, Numbers
  <2>2. receiving /\ Written = sent + 3
    BY <1>2, <1>3, <2>1, LiveIs
  <2> QED BY <1>3, <1>12, <2>1, <2>2
<1>14. /\ CodecTypeOK' /\ DriverInv' /\ ControllerInv' /\ CommandsInv' /\ ReturnInv'
       /\ Now' = Now /\ Live' /\ InTransfer' /\ (Writes' <=> Writes)
       /\ Popped' = Popped /\ Done' = Popped
       /\ fsm' # "idle" /\ pc' = pc /\ buffer' = buffer /\ retry' = retry
       /\ bytes_read' = bytes_read
  <2>1. held' \in BOOLEAN
    BY <1>2 DEF CodecTypeOK, DeviceTypeOK
  <2>2. DeviceTypeOK'
    BY <1>1, <1>5, <1>10, <2>1 DEF DeviceTypeOK
  <2>3. rw_cmd' \in {"none", "R", "W"}
    BY <1>1
  <2> QED BY <1>1, <1>10, <1>11, <1>13, <2>2, <2>3, Shifts
<1>15. BusInv'
  <2>1. OnBus' = "R"
    BY <1>3, <1>14 DEF OnBus
  <2>2. Len(bytes') = Done' - 4
    BY <1>3, <1>4, <1>10, <1>14
  <2>3. bytes_read' + Len(rx') = IF Done' > 4 THEN Done' - 4 ELSE 0
    BY <1>3, <1>12, <1>14
  <2> QED BY <1>1, <1>3, <1>4, <1>14, <2>1, <2>2, <2>3 DEF BusInv
<1>16. BufferInv'
  <2>1. ASSUME retry = 0
        PROVE  /\ \A k \in 1..bytes_read : buffer[k] = Part(k)
               /\ \A k \in 1..Len(rx') : rx'[k] = Part(bytes_read + k)
    <3>1. /\ \A k \in 1..bytes_read : buffer[k] = Part(k)
          /\ \A k \in 1..Len(rx) : rx[k] = Part(bytes_read + k)
      BY <1>2, <1>3, <2>1 DEF CodecInv, BufferInv
    <3>2. bytes_read + (Len(rx) + 1) = Popped - 4
      BY <1>3, <1>4, <1>5
    <3>3. rx'[Len(rx) + 1] = Part(bytes_read + (Len(rx) + 1))
      BY <1>9, <1>10, <2>1, <3>2
    <3>4. ASSUME NEW k \in 1..Len(rx') PROVE rx'[k] = Part(bytes_read + k)
      <4>1. k \in 1..Len(rx) \/ k = Len(rx) + 1
        BY <1>5, <1>10
      <4> QED BY <1>10, <3>1, <3>3, <4>1
    <3> QED BY <3>1, <3>4
  <2>2. ~ Writes' /\ retry' = 0 /\ bytes_read' = 0 =>
          buffer' = <<Now'.reg \div 256, Now'.reg % 256>>
    BY <1>2, <1>14 DEF CodecInv, BufferInv
  <2>3. pc' # "try"
    BY <1>14 DEF InTransfer
  <2> QED BY <1>1, <1>3, <1>14, <2>1, <2>2, <2>3 DEF BufferInv, Part
<1> QED BY <1>14, <1>15, <1>16 DEF CodecInv

\* A refusal ends the transfer and empties the controller.
LEMMA NackInv ==
  ASSUME CodecInv, Nack, UNCHANGED <<step, value>>
  PROVE  CodecInv'
<1>1. /\ Shifting /\ fsm' = "stop" /\ shifter' = <<>> /\ cmds' = <<>> /\ rx' = <<>>
      /\ rw_cmd' = rw_cmd /\ regs' = regs /\ pointer' = pointer /\ bytes' = bytes
      /\ step' = step /\ value' = value
  BY DEF Nack, device
<1>2. ctrl_en' = ctrl_en /\ nack_det' = TRUE /\ held' = held
  BY DEF Nack, device
<1>3. /\ pc' = pc /\ buffer' = buffer /\ retry' = retry /\ bytes_read' = bytes_read
  BY DEF Nack, driver
<1>4. Live /\ InTransfer /\ CodecTypeOK
  BY <1>1, ShiftingIsLive DEF CodecInv
<1>5. /\ DriverInv' /\ DriverTypeOK' /\ (InTransfer' <=> InTransfer) /\ Now' = Now
      /\ Written' = Written
  <2>1. bytes_read + Len(rx) <= (IF receiving /\ sent > 0 THEN sent - 1 ELSE 0)
    BY <1>4 DEF CodecInv, DriverInv
  <2>2. Len(rx') = 0 /\ Len(rx) >= 0
    BY <1>1, <1>4, Numbers
  <2>3. bytes_read + Len(rx') <= (IF receiving /\ sent > 0 THEN sent - 1 ELSE 0)
    BY <1>4, <2>1, <2>2, Numbers
  <2> QED BY <1>1, <1>2, <2>3, DriverKept DEF Nack
<1>6. CodecTypeOK'
  <2>1. /\ cmds' \in Seq(Commands) /\ Len(cmds') = 0
        /\ shifter' \in Seq(Commands) /\ Len(shifter') = 0
        /\ rx' \in Seq(Byte) /\ Len(rx') = 0
    BY <1>1, EmptyIs
  <2>2. FIFO_DEPTH \in Nat /\ nack_det' \in BOOLEAN
    BY <1>2, I2cAssumption
  <2>3. ControllerTypeOK'
    BY <1>1, <1>2, <2>1, <2>2 DEF CodecInv, CodecTypeOK, ControllerTypeOK
  <2>4. DeviceTypeOK'
    BY <1>1, <1>2 DEF CodecInv, CodecTypeOK, DeviceTypeOK
  <2> QED BY <1>1, <1>5, <2>3, <2>4 DEF CodecInv, CodecTypeOK
<1>7. ControllerInv'
  BY <1>1, <1>3, <1>4, <1>5 DEF ControllerInv, Empty, InTransfer
<1>8. ~ Live' /\ pc' # "try"
  BY <1>2, <1>3, <1>4 DEF Live, InTransfer
<1>9. BufferInv'
  BY <1>3, <1>4, <1>5, <1>8 DEF CodecInv, BufferInv, Writes
<1>10. ReturnInv'
  BY <1>3, <1>4 DEF ReturnInv, FirstReadIsRight, JustRead, InTransfer
<1> QED BY <1>5, <1>6, <1>7, <1>8, <1>9, <1>10, NotLive DEF CodecInv

\* The bus comes to rest when the transfer is complete.
LEMMA GenStopInv ==
  ASSUME CodecInv, GenStop, UNCHANGED <<step, value>>
  PROVE  CodecInv'
<1>1. /\ fsm = "stop" /\ fsm' = (IF cmds = <<>> THEN "idle" ELSE "start")
      /\ rw_cmd' = "none" /\ cmds' = cmds /\ shifter' = shifter /\ rx' = rx
      /\ regs' = regs /\ pointer' = pointer /\ bytes' = bytes /\ step' = step
      /\ value' = value
  BY DEF GenStop, device
<1>2. ctrl_en' = ctrl_en /\ nack_det' = nack_det /\ held' = held /\ ~ held
  BY DEF GenStop, device
<1>3. /\ pc' = pc /\ buffer' = buffer /\ retry' = retry /\ bytes_read' = bytes_read
  BY DEF GenStop, driver
<1>4. InTransfer /\ CodecTypeOK
  <2>1. InTransfer
    BY <1>1, <1>2 DEF CodecInv, ControllerInv, InTransfer
  <2> QED BY <2>1 DEF CodecInv
<1>5. /\ DriverInv' /\ DriverTypeOK' /\ (InTransfer' <=> InTransfer) /\ Now' = Now
      /\ Written' = Written
  <2>1. bytes_read + Len(rx) <= (IF receiving /\ sent > 0 THEN sent - 1 ELSE 0)
    BY <1>4 DEF CodecInv, DriverInv
  <2> QED BY <1>1, <1>2, <2>1, DriverKept DEF GenStop
<1>6. CodecTypeOK'
  <2>1. ControllerTypeOK'
    BY <1>1, <1>2 DEF CodecInv, CodecTypeOK, ControllerTypeOK
  <2>2. DeviceTypeOK'
    BY <1>1, <1>2 DEF CodecInv, CodecTypeOK, DeviceTypeOK
  <2> QED BY <1>1, <1>5, <2>1, <2>2 DEF CodecInv, CodecTypeOK
<1>7. ControllerInv'
  BY <1>1, <1>2, <1>3, <1>4, <1>5 DEF CodecInv, ControllerInv, Empty, InTransfer
<1>8. /\ (Live' <=> Live) /\ (Writes' <=> Writes) /\ Total' = Total
      /\ Popped' = Popped /\ Done' = Done /\ OnBus' = OnBus
  BY <1>1, <1>2, <1>5 DEF Live, Writes, Total, Popped, Done, OnBus
<1>9. ASSUME Live
      PROVE  fsm' = "idle" /\ Done = Total
  <2>1. Done = Total
    BY <1>1, <1>9 DEF CodecInv, CommandsInv
  <2>2. Len(cmds) = 0
    BY <1>4, <1>9, <2>1, PlaceIs, Numbers
  <2>3. cmds = <<>>
    BY <1>4, <2>2, Numbers
  <2> QED BY <1>1, <2>1, <2>3
<1>10. CommandsInv'
  BY <1>1, <1>3, <1>5, <1>8, <1>9 DEF CodecInv, CommandsInv
<1>11. BusInv'
  BY <1>1, <1>3, <1>5, <1>8, <1>9 DEF CodecInv, BusInv
<1>12. BufferInv'
  BY <1>1, <1>3, <1>5, <1>8 DEF CodecInv, BufferInv, Part
<1>13. ReturnInv'
  BY <1>3, <1>4 DEF ReturnInv, FirstReadIsRight, JustRead, InTransfer
<1> QED BY <1>5, <1>6, <1>7, <1>10, <1>11, <1>12, <1>13 DEF CodecInv

\* From here on nothing goes right any more.
LEMMA HoldClockInv ==
  ASSUME CodecInv, HoldClock, UNCHANGED <<step, value>>
  PROVE  CodecInv'
<1>1. /\ fsm \in {"bus", "stop"} /\ fsm' = fsm /\ cmds' = cmds /\ shifter' = shifter
      /\ rx' = rx /\ rw_cmd' = rw_cmd /\ regs' = regs /\ pointer' = pointer
      /\ bytes' = bytes /\ step' = step /\ value' = value
  BY DEF HoldClock, controller
<1>2. ctrl_en' = ctrl_en /\ nack_det' = nack_det /\ held' = TRUE
  BY DEF HoldClock, controller
<1>3. /\ pc' = pc /\ buffer' = buffer /\ retry' = retry /\ bytes_read' = bytes_read
      /\ status' = status
  BY DEF HoldClock, driver
<1>4. /\ DriverInv' /\ DriverTypeOK' /\ (InTransfer' <=> InTransfer) /\ Now' = Now
      /\ Written' = Written
  <2>1. InTransfer =>
          bytes_read + Len(rx) <= (IF receiving /\ sent > 0 THEN sent - 1 ELSE 0)
    BY DEF CodecInv, DriverInv
  <2> QED BY <1>1, <1>2, <2>1, DriverKept DEF HoldClock
<1>5. CodecTypeOK'
  <2>1. ControllerTypeOK'
    BY <1>1, <1>2 DEF CodecInv, CodecTypeOK, ControllerTypeOK
  <2>2. held' \in BOOLEAN
    BY <1>2
  <2>3. DeviceTypeOK'
    BY <1>1, <2>2 DEF CodecInv, CodecTypeOK, DeviceTypeOK
  <2> QED BY <1>1, <1>4, <2>1, <2>3 DEF CodecInv, CodecTypeOK
<1>6. ControllerInv'
  BY <1>1, <1>2, <1>3, <1>4 DEF CodecInv, ControllerInv, Empty
<1>7. ~ Live' /\ (Writes' <=> Writes)
  BY <1>2, <1>4 DEF Live, Writes
<1>8. BufferInv'
  BY <1>3, <1>4, <1>7 DEF CodecInv, BufferInv
<1>9. ReturnInv'
  BY <1>1, <1>3, <1>4, <1>7 DEF CodecInv, ReturnInv, FirstReadIsRight, JustRead, Part
<1> QED BY <1>4, <1>5, <1>6, <1>7, <1>8, <1>9, NotLive DEF CodecInv

-----------------------------------------------------------------------------
\* Every step.

LEMMA CodecStutters == ASSUME CodecInv, UNCHANGED vars PROVE CodecInv'
<1>1. /\ pc' = pc /\ call' = call /\ buffer' = buffer /\ retry' = retry
      /\ status' = status /\ sent' = sent /\ bytes_read' = bytes_read
      /\ fsm' = fsm /\ cmds' = cmds /\ shifter' = shifter /\ rx' = rx
      /\ rw_cmd' = rw_cmd /\ regs' = regs /\ pointer' = pointer /\ bytes' = bytes
      /\ step' = step /\ value' = value
  BY DEF vars, driver, controller, device
<1>2. /\ ctrl_en' = ctrl_en /\ nack_det' = nack_det /\ held' = held
  BY DEF vars, driver, controller, device
<1>3. /\ DriverInv' /\ DriverTypeOK' /\ (InTransfer' <=> InTransfer) /\ Now' = Now
      /\ Written' = Written
  <2>1. InTransfer =>
          bytes_read + Len(rx) <= (IF receiving /\ sent > 0 THEN sent - 1 ELSE 0)
    BY DEF CodecInv, DriverInv
  <2> QED BY <1>1, <1>2, <2>1, DriverKept DEF vars
<1>4. CodecTypeOK'
  <2>1. ControllerTypeOK'
    BY <1>1, <1>2 DEF CodecInv, CodecTypeOK, ControllerTypeOK
  <2>2. DeviceTypeOK'
    BY <1>1, <1>2 DEF CodecInv, CodecTypeOK, DeviceTypeOK
  <2> QED BY <1>1, <1>3, <2>1, <2>2 DEF CodecInv, CodecTypeOK
<1>5. ControllerInv'
  BY <1>1, <1>2, <1>3 DEF CodecInv, ControllerInv, Empty
<1>6. /\ (Live' <=> Live) /\ (Writes' <=> Writes) /\ Total' = Total
      /\ Popped' = Popped /\ Done' = Done /\ OnBus' = OnBus
  BY <1>1, <1>2, <1>3 DEF Live, Writes, Total, Popped, Done, OnBus
<1>7. CommandsInv'
  BY <1>1, <1>3, <1>6 DEF CodecInv, CommandsInv
<1>8. BusInv'
  BY <1>1, <1>3, <1>6 DEF CodecInv, BusInv
<1>9. BufferInv'
  BY <1>1, <1>3, <1>6 DEF CodecInv, BufferInv, Part
<1>10. ReturnInv'
  BY <1>1, <1>3, <1>6 DEF CodecInv, ReturnInv, FirstReadIsRight, JustRead, Part
<1> QED BY <1>3, <1>4, <1>5, <1>7, <1>8, <1>9, <1>10 DEF CodecInv

LEMMA CodecStep == CodecInv /\ [Next]_vars => CodecInv'
<1> SUFFICES ASSUME CodecInv, [Next]_vars PROVE CodecInv'
  OBVIOUS
<1>1. ASSUME Driver, UNCHANGED <<step, value>> PROVE CodecInv'
  BY <1>1, TryInv, cmd_writeInv, FailInv, NextByteInv, TurnInv, LastByteInv, rx_readInv,
     ReadTimeoutInv, RetryInv, ReturnInvKept DEF Driver
<1>2. ASSUME Controller, UNCHANGED <<step, value>> PROVE CodecInv'
  BY <1>2, GenStartInv, PopTxFifoInv, Gen7BitAddrInv, TxByteInv, RxByteInv, NackInv,
     GenStopInv DEF Controller
<1>3. CASE Bus
  BY <1>1, <1>2, <1>3, HoldClockInv DEF Bus
<1>4. CASE Call \/ Returned \/ Hang
  BY <1>4, CallInv, ReturnedInv, HangInv
<1>5. CASE UNCHANGED vars
  BY <1>5, CodecStutters
<1> QED BY <1>3, <1>4, <1>5 DEF Next

LEMMA CodecInvariant == Spec => []CodecInv
<1>1. Init => CodecInv
  BY CodecInit
<1> QED
  BY <1>1, CodecStep, PTL DEF Spec

\* The driver never writes into a full FIFO, and the answers never overrun theirs:
\* the types hold.
THEOREM CodecTypeCorrect == Spec => []CodecTypeOK
<1>1. CodecInv => CodecTypeOK
  BY DEF CodecInv
<1> QED
  BY <1>1, CodecInvariant, PTL

\* Every call and every further try finds the controller disabled and, unless the
\* device blocks the bus, at rest with empty FIFOs.
THEOREM EveryTryStartsAfresh == Spec => []StartsAfresh
<1>1. CodecInv => StartsAfresh
  BY DEF CodecInv, ControllerInv, DriverInv, StartsAfresh, InTransfer, Empty
<1> QED
  BY <1>1, CodecInvariant, PTL

\* SGTL5000_Reg_Rd returns what the register holds if no NACK made it try again.
THEOREM FirstReadIsCorrect == Spec => []FirstReadIsRight
<1>1. CodecInv => FirstReadIsRight
  BY DEF CodecInv, ReturnInv
<1> QED
  BY <1>1, CodecInvariant, PTL

-----------------------------------------------------------------------------
\* The registers of the device change with the last byte of a write, once the step
\* of the script before it has come back.

LEMMA OnlyBytesWrite ==
  ASSUME Next, ~ TxByte, ~ Returned
  PROVE  regs' = regs /\ step' = step
<1>1. CASE Driver /\ UNCHANGED <<step, value>>
  BY <1>1 DEF Driver, Try, cmd_write, CmdTimeout, NackSeen, NextByte, Turn, LastByte,
     rx_read, ReadTimeout, Retry, Return, device
<1>2. CASE Controller /\ UNCHANGED <<step, value>>
  BY <1>2 DEF Controller, GenStart, PopTxFifo, Gen7BitAddr, RxByte, Nack, GenStop, device
<1>3. CASE HoldClock /\ UNCHANGED <<step, value>>
  BY <1>3 DEF HoldClock
<1>4. CASE Call \/ Hang
  BY <1>4 DEF Call, Hang, device
<1> QED BY <1>1, <1>2, <1>3, <1>4 DEF Next, Bus

LEMMA SetupStep ==
  ASSUME CodecInv, [Next]_vars
  PROVE  [Setup!WriteRegister \/ Setup!GoOn]_<<step, regs>>
<1>1. CASE UNCHANGED vars
  BY <1>1 DEF vars, device
<1>2. CASE TxByte /\ ~ Returned /\ Next
  <2>1. step' = step
    BY <1>2 DEF Next, Bus, Call, Hang
  <2>2. regs' = regs \/ Setup!WriteRegister
    <3>1. CASE regs' # regs
      <4>1. /\ Writes /\ step \in 1..Len(Script)
            /\ regs' = [regs EXCEPT ![Now.reg] = Now.val]
        BY <1>2, <3>1, TxByteWrites
      <4>2. step <= Len(Script)
        <5>1. Len(Script) \in Nat
          BY CodecAssumption
        <5> QED BY <4>1, <5>1
      <4> QED BY <2>1, <4>1, <4>2 DEF Setup!WriteRegister, Writes, Now
    <3> QED BY <3>1
  <2> QED BY <2>1, <2>2
<1>3. CASE Returned
  <2>1. pc = "returned" /\ status = "SUCCESS" /\ step' = step + 1 /\ regs' = regs
    BY <1>3 DEF Returned, device
  <2>2. step <= Len(Script) /\ (Writes => regs[Now.reg] = Now.val)
    BY <2>1 DEF CodecInv, DriverInv, ReturnInv
  <2> QED BY <2>1, <2>2 DEF Setup!GoOn, Writes, Now
<1>4. CASE Next /\ ~ TxByte /\ ~ Returned
  BY <1>4, OnlyBytesWrite
<1> QED BY <1>1, <1>2, <1>3, <1>4

\* NACKs, retries and time-outs do not show: the registers get their values one
\* after another, in the order of the script.
THEOREM SetUpInOrder == Spec => IsSetUpInOrder
<1>1. Init => Setup!SetupInit
  BY DEF Init, I2cInit, Setup!SetupInit
<1>2. CodecInv /\ [Next]_vars => [Setup!WriteRegister \/ Setup!GoOn]_<<step, regs>>
  BY SetupStep
<1> QED
  BY <1>1, <1>2, CodecInvariant, PTL DEF Spec, IsSetUpInOrder, Setup!SetupSpec
-----------------------------------------------------------------------------
(***************************************************************************)
(* What the set-up can still do: the steps of the script; the tries of     *)
(* this call, and whether one is under way; and the commands of this one   *)
(* to be written, to be shifted and to be ended, and what is to be read.   *)
(***************************************************************************)
CallsLeft == Len(Script) + 1 - step

TriesLeft ==
  IF pc = "ready" THEN 2 * Retries + 2
  ELSE IF pc = "try" THEN 2 * (Retries - retry) + 1
  ELSE IF InTransfer THEN 2 * (Retries - retry)
  ELSE IF pc = "returned" THEN 1 ELSE 0

DriversWork ==
  IF pc = "write" THEN 2 * (Total - Written) + 5
  ELSE IF pc = "check" THEN 2 * (Total - Written) + 6
  ELSE IF pc = "read" THEN 4 - bytes_read
  ELSE IF pc = "wait" THEN 1 ELSE 0

FsmsWork ==
  IF fsm = "start" THEN 3 ELSE IF fsm = "bus" THEN 2 ELSE IF fsm = "stop" THEN 1 ELSE 0

BussWork == 2 * Len(cmds) + Len(shifter) + FsmsWork + (IF held THEN 0 ELSE 1)

WorkLeft == 3 * DriversWork + BussWork

\* There is less of it left, in this order.
Nearer ==
  \/ CallsLeft' < CallsLeft
  \/ CallsLeft' = CallsLeft /\ TriesLeft' < TriesLeft
  \/ CallsLeft' = CallsLeft /\ TriesLeft' = TriesLeft /\ WorkLeft' < WorkLeft

\* None of the numbers falls below zero: the set-up cannot go on for ever.
LEMMA StillToWrite ==
  ASSUME CodecInv, pc \in {"write", "check"}
  PROVE  /\ Total \in {5, 6} /\ Written \in Int /\ Written <= Total
         /\ (pc = "write" => Written < Total)
<1>1. /\ call = IF Writes THEN [tx |-> 4, rx |-> 0] ELSE [tx |-> 2, rx |-> 2]
      /\ (receiving => ~ Writes)
      /\ (pc = "write" => sent <= size) /\ (pc = "check" => sent <= size + 1)
  BY DEF CodecInv, DriverInv, InTransfer
<1>2. size = IF Writes THEN 4 ELSE 2
  BY <1>1 DEF size
<1>3. sent \in Int /\ Written \in Int
  BY Numbers DEF CodecInv
<1>4. Written = sent + (IF receiving THEN 3 ELSE 0)
  BY DEF Written
<1> QED BY <1>1, <1>2, <1>3, <1>4 DEF Total

LEMMA LeftIsNatural ==
  ASSUME CodecInv
  PROVE  /\ CallsLeft \in Nat /\ TriesLeft \in Nat /\ WorkLeft \in Nat
         /\ DriversWork \in Nat /\ BussWork \in Nat
<1>1. CallsLeft \in Nat
  <2>1. Len(Script) \in Nat /\ step \in 1..(Len(Script) + 1)
    BY CodecAssumption DEF CodecInv, CodecTypeOK
  <2> QED BY <2>1 DEF CallsLeft
<1>2. TriesLeft \in Nat
  <2>1. Retries \in Nat /\ retry \in 0..(Retries - 1)
    BY I2cAssumption DEF CodecInv, CodecTypeOK, DriverTypeOK
  <2> QED BY <2>1 DEF TriesLeft
<1>3. DriversWork \in Nat
  <2>1. CASE pc \in {"write", "check"}
    BY <2>1, StillToWrite DEF DriversWork
  <2>2. CASE pc \notin {"write", "check"}
    BY <2>2, Numbers DEF CodecInv, DriversWork
  <2> QED BY <2>1, <2>2
<1>4. BussWork \in Nat
  BY Numbers DEF CodecInv, BussWork, FsmsWork
<1> QED BY <1>1, <1>2, <1>3, <1>4 DEF WorkLeft

\* The driver comes nearer to the end of a try, even if it leaves a command more
\* to the controller.
LEMMA DriverIsNearer ==
  ASSUME CodecInv, InTransfer, InTransfer', UNCHANGED <<step, retry>>,
         DriversWork' \in Int, BussWork' \in Int,
         DriversWork' < DriversWork, BussWork' <= BussWork + 2
  PROVE  Nearer
<1>1. CallsLeft' = CallsLeft
  BY DEF CallsLeft
<1>2. TriesLeft' = TriesLeft
  BY DEF TriesLeft, InTransfer
<1>3. WorkLeft' < WorkLeft
  BY LeftIsNatural DEF WorkLeft
<1> QED BY <1>1, <1>2, <1>3 DEF Nearer

\* So does the controller, with nothing from the driver, or the device.
LEMMA BusIsNearer ==
  ASSUME CodecInv, UNCHANGED <<driver, step>>, BussWork' \in Int, BussWork' < BussWork
  PROVE  Nearer
<1>1. /\ pc' = pc /\ retry' = retry /\ sent' = sent /\ receiving' = receiving
      /\ bytes_read' = bytes_read /\ step' = step
  BY DEF driver
<1>2. CallsLeft' = CallsLeft /\ TriesLeft' = TriesLeft
  BY <1>1 DEF CallsLeft, TriesLeft, InTransfer
<1>3. DriversWork' = DriversWork
  BY <1>1 DEF DriversWork, Total, Written, Writes, Now
<1>4. WorkLeft' < WorkLeft
  BY <1>3, LeftIsNatural DEF WorkLeft
<1> QED BY <1>2, <1>4 DEF Nearer

LEMMA DriverStepIsNearer ==
  ASSUME CodecInv, Driver, UNCHANGED <<step, value>>
  PROVE  Nearer
<1>0. /\ sent \in Int /\ bytes_read \in 0..2 /\ Written \in Int /\ Len(cmds) \in Nat
      /\ Len(shifter) \in {0, 1} /\ Total \in {5, 6}
      /\ retry \in 0..(Retries - 1) /\ Retries \in Nat \ {0}
  <2>1. CodecTypeOK /\ Total \in {5, 6} /\ retry \in 0..(Retries - 1)
    BY DEF CodecInv, CodecTypeOK, DriverTypeOK, Total
  <2> QED BY <2>1, Numbers, I2cAssumption
<1>1. Total' = Total /\ CallsLeft' = CallsLeft
  BY DEF Total, Writes, Now, CallsLeft
<1>2. CASE Try
  <2>1. pc = "try" /\ pc' = "write" /\ retry' = retry
    BY <1>2 DEF Try
  <2>2. TriesLeft' < TriesLeft
    BY <1>0, <2>1 DEF TriesLeft, InTransfer
  <2> QED BY <1>1, <2>2 DEF Nearer
<1>3. CASE cmd_write
  <2>1. /\ pc = "write" /\ pc' = "check" /\ sent' = sent + 1 /\ receiving' = receiving
        /\ retry' = retry /\ fsm' = fsm /\ shifter' = shifter /\ held' = held
        /\ cmds' = IF nack_det THEN <<>> ELSE Append(cmds, NextCommand)
    BY <1>3 DEF cmd_write, Put, device
  <2>2. Len(cmds') \in Nat /\ Len(cmds') <= Len(cmds) + 1
    <3>1. cmds \in Seq(Commands) /\ NextCommand \in Commands
      BY <2>1, NextIs DEF CodecInv, CodecTypeOK, ControllerTypeOK
    <3>2. Len(Append(cmds, NextCommand)) = Len(cmds) + 1
      BY <3>1, Appends
    <3> QED BY <1>0, <2>1, <3>2
  <2>3. Written' = Written + 1
    BY <1>0, <2>1 DEF Written
  <2>4. DriversWork' = DriversWork - 1 /\ DriversWork \in Int
    BY <1>0, <1>1, <2>1, <2>3 DEF DriversWork
  <2>5. BussWork' \in Int /\ BussWork' <= BussWork + 2
    <3>1. shifter' = shifter /\ held' = held /\ FsmsWork' = FsmsWork
      BY <2>1 DEF FsmsWork
    <3>2. FsmsWork \in 0..3
      BY DEF FsmsWork
    <3> QED BY <1>0, <2>2, <3>1, <3>2 DEF BussWork
  <2> QED BY <2>1, <2>4, <2>5, DriverIsNearer DEF InTransfer
<1>4. CASE \/ CmdTimeout \/ NackSeen \/ NextByte \/ Turn \/ LastByte \/ rx_read
           \/ ReadTimeout
  <2>1. /\ cmds' = cmds /\ shifter' = shifter /\ fsm' = fsm /\ held' = held
        /\ retry' = retry
    BY <1>4 DEF CmdTimeout, NackSeen, NextByte, Turn, LastByte, rx_read, ReadTimeout,
       Fail, controller, device
  <2>2. BussWork' = BussWork
    BY <2>1 DEF BussWork, FsmsWork
  <2>3. InTransfer /\ InTransfer'
    BY <1>4 DEF CmdTimeout, NackSeen, NextByte, Turn, LastByte, rx_read, ReadTimeout,
       Fail, InTransfer
  <2>4. DriversWork' \in Int /\ DriversWork' < DriversWork
    <3>1. pc \in {"write", "check"} => Written <= Total
      BY StillToWrite
    <3>2. CASE CmdTimeout \/ NackSeen
      BY <1>0, <3>1, <3>2 DEF CmdTimeout, NackSeen, Fail, DriversWork
    <3>3. CASE NextByte
      <4>1. /\ pc = "check" /\ pc' = "write" /\ Written' = Written
        BY <3>3 DEF NextByte, Written
      <4> QED BY <1>0, <1>1, <4>1 DEF DriversWork
    <3>4. CASE Turn
      <4>1. /\ pc = "check" /\ pc' = "write" /\ sent > size /\ ~ issue_stop
            /\ receiving' = TRUE /\ sent' = 0
        BY <3>4 DEF Turn
      <4>2. /\ ~ receiving /\ ~ Writes /\ size = 2 /\ sent <= size + 1
        BY <4>1 DEF CodecInv, DriverInv, InTransfer, issue_stop, size
      <4>3. Written' = Written
        BY <1>0, <4>1, <4>2 DEF Written
      <4> QED BY <1>0, <1>1, <4>1, <4>3 DEF DriversWork
    <3>5. CASE LastByte
      <4>1. pc = "check" /\ pc' \in {"read", "wait"} /\ bytes_read' = bytes_read
        BY <3>5 DEF LastByte
      <4> QED BY <1>0, <3>1, <4>1 DEF DriversWork
    <3>6. CASE rx_read
      <4>1. /\ pc = "read" /\ bytes_read' = bytes_read + Len(<<Head(rx)>>)
            /\ pc' = IF bytes_read + 1 < size THEN "read" ELSE "wait"
        BY <3>6 DEF rx_read, Store
      <4>2. bytes_read' = bytes_read + 1
        BY <4>1
      <4>3. bytes_read <= 1
        BY <4>1 DEF CodecInv, DriverInv
      <4> QED BY <1>0, <4>1, <4>2, <4>3 DEF DriversWork
    <3>7. CASE ReadTimeout
      BY <1>0, <3>7 DEF ReadTimeout, Fail, DriversWork
    <3> QED BY <1>4, <3>2, <3>3, <3>4, <3>5, <3>6, <3>7
  <2>5. BussWork' \in Int /\ BussWork' <= BussWork + 2
    BY <2>2, LeftIsNatural
  <2> QED BY <2>1, <2>3, <2>4, <2>5, DriverIsNearer
<1>5. CASE Retry
  <2>1. pc = "wait" /\ pc' = "try" /\ retry' = retry + 1
    BY <1>5 DEF Retry, Over
  <2>2. TriesLeft' < TriesLeft
    BY <1>0, <2>1 DEF TriesLeft, InTransfer
  <2> QED BY <1>1, <2>2 DEF Nearer
<1>6. CASE Return
  <2>1. pc = "wait" /\ pc' = "returned"
    BY <1>6 DEF Return, Over
  <2>2. TriesLeft' < TriesLeft
    BY <1>0, <2>1 DEF TriesLeft, InTransfer
  <2> QED BY <1>1, <2>2 DEF Nearer
<1> QED BY <1>2, <1>3, <1>4, <1>5, <1>6 DEF Driver

LEMMA ControllerStepIsNearer ==
  ASSUME CodecInv, Controller, UNCHANGED <<step, value>>
  PROVE  Nearer
<1>1. Len(cmds) \in Nat /\ Len(shifter) \in {0, 1}
  BY Numbers DEF CodecInv
<1>2. UNCHANGED <<driver, step>>
  BY DEF Controller, GenStart, PopTxFifo, Gen7BitAddr, TxByte, RxByte, Nack, GenStop,
     Shifted
<1>3. BussWork' \in Int /\ BussWork' < BussWork
  <2>1. CASE GenStart
    <3>1. /\ fsm \in {"start", "idle"} /\ cmds # <<>> /\ ~ nack_det /\ fsm' = "bus"
          /\ cmds' = cmds /\ shifter' = shifter /\ held' = held
      BY <2>1 DEF GenStart, device
    <3>2. fsm = "start"
      <4> SUFFICES ASSUME fsm = "idle" PROVE FALSE
        BY <3>1
      <4>1. ~ held /\ ~ Empty /\ Len(cmds) >= 1
        BY <1>1, <3>1, Numbers DEF CodecInv, ControllerInv, Empty
      <4>2. Live
        BY <3>1, <4>1 DEF CodecInv, CodecTypeOK, DriverTypeOK, ControllerInv, InTransfer,
           Live
      <4>3. Done = Total
        BY <4>2 DEF CodecInv, CommandsInv
      <4> QED BY <1>1, <4>1, <4>2, <4>3, PlaceIs, Numbers DEF CodecInv
    <3> QED BY <1>1, <3>1, <3>2 DEF BussWork, FsmsWork
  <2>2. CASE PopTxFifo
    <3>1. /\ shifter = <<>> /\ cmds # <<>> /\ shifter' = <<Head(cmds)>>
          /\ cmds' = Tail(cmds) /\ fsm' = fsm /\ held' = held
      BY <2>2 DEF PopTxFifo, device
    <3>2. Len(shifter) = 0 /\ Len(shifter') = 1
      BY <3>1
    <3>3. Len(cmds') = Len(cmds) - 1
      BY <3>1, Tails DEF CodecInv, CodecTypeOK, ControllerTypeOK
    <3> QED BY <1>1, <3>1, <3>2, <3>3 DEF BussWork, FsmsWork
  <2>3. CASE Gen7BitAddr \/ TxByte \/ RxByte
    <3>1. /\ Shifting /\ shifter' = <<>> /\ cmds' = cmds /\ held' = held
          /\ fsm' \in {"stop", "bus"}
      BY <2>3 DEF Gen7BitAddr, TxByte, RxByte, Shifted
    <3>2. fsm = "bus" /\ Len(shifter) = 1 /\ Len(shifter') = 0
      BY <3>1, ShiftingIsLive
    <3> QED BY <1>1, <3>1, <3>2 DEF BussWork, FsmsWork
  <2>4. CASE Nack
    <3>1. /\ Shifting /\ shifter' = <<>> /\ cmds' = <<>> /\ held' = held /\ fsm' = "stop"
      BY <2>4 DEF Nack, device
    <3>2. fsm = "bus" /\ Len(shifter) = 1 /\ Len(shifter') = 0 /\ Len(cmds') = 0
      BY <3>1, ShiftingIsLive
    <3> QED BY <1>1, <3>1, <3>2 DEF BussWork, FsmsWork
  <2>5. CASE GenStop
    <3>1. /\ fsm = "stop" /\ fsm' = (IF cmds = <<>> THEN "idle" ELSE "start") /\ ~ held
          /\ cmds' = cmds /\ shifter' = shifter /\ held' = held
      BY <2>5 DEF GenStop, device
    <3>2. cmds = <<>>
      <4>1. CASE nack_det
        BY <4>1 DEF CodecInv, ControllerInv, Empty
      <4>2. CASE ~ nack_det
        <5>1. Live
          BY <3>1, <4>2 DEF CodecInv, ControllerInv, InTransfer, Live
        <5>2. Done = Total
          BY <3>1, <5>1 DEF CodecInv, CommandsInv
        <5>3. Len(cmds) = 0
          BY <1>1, <5>1, <5>2, PlaceIs, Numbers DEF CodecInv
        <5> QED BY <5>3, Numbers DEF CodecInv
      <4> QED BY <4>1, <4>2
    <3> QED BY <1>1, <3>1, <3>2 DEF BussWork, FsmsWork
  <2> QED BY <2>1, <2>2, <2>3, <2>4, <2>5 DEF Controller
<1> QED BY <1>2, <1>3, BusIsNearer

LEMMA SetupStepIsNearer == ASSUME CodecInv, Next PROVE Nearer
<1>1. CASE Driver /\ UNCHANGED <<step, value>>
  BY <1>1, DriverStepIsNearer
<1>2. CASE Controller /\ UNCHANGED <<step, value>>
  BY <1>2, ControllerStepIsNearer
<1>3. CASE HoldClock /\ UNCHANGED <<step, value>>
  <2>1. /\ ~ held /\ held' = TRUE /\ cmds' = cmds /\ shifter' = shifter /\ fsm' = fsm
        /\ UNCHANGED driver
    BY <1>3 DEF HoldClock, controller
  <2>2. BussWork' \in Int /\ BussWork' < BussWork
    BY <2>1, Numbers DEF CodecInv, BussWork, FsmsWork
  <2> QED BY <1>3, <2>1, <2>2, BusIsNearer
<1>4. CASE Call \/ Hang
  <2>1. CallsLeft' = CallsLeft
    BY <1>4 DEF Call, Hang, CallsLeft
  <2>2. Retries \in Nat \ {0}
    BY I2cAssumption
  <2>3. TriesLeft' < TriesLeft
    BY <1>4, <2>2 DEF Call, Hang, TriesLeft, InTransfer
  <2> QED BY <2>1, <2>3 DEF Nearer
<1>5. CASE Returned
  <2>1. Len(Script) \in Nat /\ step \in Int /\ step' = step + 1
    BY <1>5, CodecAssumption DEF CodecInv, CodecTypeOK, Returned
  <2> QED BY <2>1 DEF CallsLeft, Nearer
<1> QED BY <1>1, <1>2, <1>3, <1>4, <1>5 DEF Next, Bus

(***************************************************************************)
(* Why SetupEnds: no step of main, the driver or the controller can be     *)
(* repeated for ever.  Each one comes nearer to the end: a step of the     *)
(* script, a try of the call, or work of this try is behind it, whatever   *)
(* the device refuses and whenever it blocks the bus, and none of the      *)
(* three numbers can fall for ever.                                        *)
(***************************************************************************)
THEOREM SetupRunsDown ==
  Spec => [][Nearer]_vars /\ [](CallsLeft \in Nat /\ TriesLeft \in Nat /\ WorkLeft \in Nat)
<1>1. CodecInv /\ [Next]_vars => [Nearer]_vars
  BY SetupStepIsNearer
<1>2. CodecInv => CallsLeft \in Nat /\ TriesLeft \in Nat /\ WorkLeft \in Nat
  BY LeftIsNatural
<1> QED
  BY <1>1, <1>2, CodecInvariant, PTL DEF Spec
=============================================================================
