------------------------------ MODULE JtagUart ------------------------------
(***************************************************************************)
(* The driver of the console: altera_avalon_jtag_uart_init.c, _write.c,    *)
(* _read.c and _ioctl.c, built without an operating system, over the FIFOs *)
(* and interrupts of FinalProject1_soc_jtag_uart_0.v, with the alarm that  *)
(* looks every second whether the host is still there.                     *)
(*                                                                         *)
(* One processor runs the program and, at any point of it, the interrupt   *)
(* routine or the clock's, neither of which is interrupted.  The host may  *)
(* type, take what is printed, fall silent or go at any time.              *)
(*                                                                         *)
(* Bytes are numbered from 1 in the order in which the program prints, and *)
(* in which the host types them.                                           *)
(***************************************************************************)
EXTENDS Alarms, Sequences

CONSTANTS
  BUF_LEN,          \* of tx_buf and rx_buf, 2048 in the code
  WRITE_DEPTH, READ_DEPTH,           \* of the FIFOs of the hardware, 64 each
  WRITE_THRESHOLD, READ_THRESHOLD,   \* of their interrupts, 8 each
  TicksPerSecond,
  INT_MAX,
  DEFAULT_TIMEOUT,
  Plays             \* bounds: bytes printed and typed, how often the host goes, what
                    \* time-outs are set, whether there are other alarms

ASSUME UartAssumption ==
  /\ BUF_LEN \in Nat /\ BUF_LEN >= 2
  /\ WRITE_DEPTH \in Nat \ {0} /\ WRITE_THRESHOLD \in 0..WRITE_DEPTH - 1
  /\ READ_DEPTH \in Nat \ {0} /\ READ_THRESHOLD \in 0..READ_DEPTH - 1
  /\ TicksPerSecond \in 1..TickRange - 2 /\ "uart" \in Alarms
  /\ INT_MAX \in Nat /\ DEFAULT_TIMEOUT \in 2..INT_MAX - 2
  /\ Plays \subseteq [tx : Nat, rx : Nat, leaves : Nat,
                     timeouts : SUBSET Nat, timers : BOOLEAN]

VARIABLES
  \* the driver's record
  timeout, irq_enable, host_inactive,
  rx_in, rx_out, tx_in, tx_out, rx_buf, tx_buf,
  \* the program: a call of the driver
  pc, nonblock,
  todo,    \* count or space
  moved,   \* ptr - start or ptr - buffer
  n,
  at,      \* the local out of a write, the local in of a read
  \* the interrupt routine
  isr, control,
  \* the hardware
  wfifo, rfifo, ac, pause_irq,
  \* the host and what passed the ends of the line
  connected, printed, heard, typed, taken,
  play

record  == <<timeout, irq_enable, host_inactive, rx_in, rx_out, tx_in, tx_out, rx_buf, tx_buf>>
program == <<pc, nonblock, todo, moved, n, at, printed, taken>>
routine == <<isr, control>>
wires   == <<wfifo, rfifo, ac, pause_irq>>
host    == <<connected, heard, typed, play>>
vars    == <<record, program, routine, wires, host, alarmVars>>

Numbers(first, count) == [i \in 1..count |-> first + i - 1]

-----------------------------------------------------------------------------
\* The hardware.  The control register holds what the driver wrote last, which
\* is irq_enable at every point where the program can be interrupted.

ipen_AE == "WE" \in irq_enable /\ Len(wfifo) <= WRITE_THRESHOLD
ipen_AF == "RE" \in irq_enable /\ (pause_irq \/ READ_DEPTH - Len(rfifo) <= READ_THRESHOLD)

\* The host has typed a byte.
TypesByte ==
  /\ connected /\ typed < play.rx /\ Len(rfifo) < READ_DEPTH
  /\ typed' = typed + 1

HostTypes ==
  /\ TypesByte
  /\ rfifo' = Append(rfifo, typed + 1) /\ ac' = TRUE
  /\ UNCHANGED <<record, program, routine, wfifo, pause_irq, connected, heard, play, alarmVars>>

\* The host has nothing more to type for now.
HostPauses ==
  /\ connected
  /\ ac' = TRUE /\ pause_irq' = (pause_irq \/ rfifo # <<>>)
  /\ UNCHANGED <<record, program, routine, wfifo, rfifo, host, alarmVars>>

HostTakes ==
  /\ connected /\ wfifo # <<>>
  /\ heard' = Append(heard, Head(wfifo)) /\ wfifo' = Tail(wfifo)
  /\ UNCHANGED <<record, program, routine, rfifo, ac, pause_irq, connected, typed, play, alarmVars>>

HostLeaves ==
  /\ connected /\ play.leaves > 0
  /\ connected' = FALSE /\ play' = [play EXCEPT !.leaves = @ - 1]
  /\ UNCHANGED <<record, program, routine, wires, heard, typed, alarmVars>>

HostComes ==
  /\ ~ connected /\ connected' = TRUE
  /\ UNCHANGED <<record, program, routine, wires, heard, typed, play, alarmVars>>

-----------------------------------------------------------------------------
\* altera_avalon_jtag_uart_irq

IrqEnter ==
  /\ isr = "off" /\ (ipen_AE \/ ipen_AF)
  /\ isr' = "control"
  /\ UNCHANGED <<record, program, control, wires, host, alarmVars>>

NoControl == [RAVAIL |-> FALSE, WI |-> FALSE, WSPACE |-> 0]

\* What the rest of this pass goes by, the space in the FIFO included.  RAVAIL
\* is that of the byte read last; before the first one is assumed to be there.
IrqControl ==
  /\ isr = "control"
  /\ IF ipen_AE \/ ipen_AF
     THEN /\ control' = [RAVAIL |-> TRUE, WI |-> ipen_AE, WSPACE |-> WRITE_DEPTH - Len(wfifo)]
          /\ isr' = IF ipen_AF THEN "read" ELSE "write"
     ELSE control' = NoControl /\ isr' = "off"
  /\ UNCHANGED <<record, program, wires, host, alarmVars>>

rx_next == (rx_in + 1) % BUF_LEN

rx_full == rx_next = rx_out

\* The end of the receive loop: where more is available the buffer is taken to
\* be full.
EndRead(ravail) ==
  /\ irq_enable' = IF ravail THEN irq_enable \ {"RE"} ELSE irq_enable
  /\ isr' = IF control.WI THEN "write" ELSE "control"

IrqFull ==
  /\ isr = "read" /\ rx_full
  /\ EndRead(control.RAVAIL)
  /\ UNCHANGED <<timeout, host_inactive, rx_in, rx_out, tx_in, tx_out, rx_buf, tx_buf>>
  /\ UNCHANGED <<program, control, wires, host, alarmVars>>

IrqByte ==
  /\ isr = "read" /\ ~ rx_full /\ rfifo # <<>>
  /\ rx_buf' = [rx_buf EXCEPT ![rx_in] = Head(rfifo)]
  /\ rx_in' = rx_next
  /\ rfifo' = Tail(rfifo) /\ pause_irq' = FALSE
  /\ control' = [control EXCEPT !.RAVAIL = Len(rfifo) > 1]
  /\ UNCHANGED <<timeout, irq_enable, host_inactive, rx_out, tx_in, tx_out, tx_buf>>
  /\ UNCHANGED <<program, isr, wfifo, ac, host, alarmVars>>

\* No byte was valid; one that comes in the very cycle of the read is not, but
\* it is already counted as available.
IrqNoByte ==
  /\ isr = "read" /\ ~ rx_full /\ rfifo = <<>>
  /\ pause_irq' = FALSE
  /\ \/ EndRead(FALSE) /\ UNCHANGED <<rfifo, ac, typed>>
     \/ TypesByte /\ rfifo' = <<typed + 1>> /\ ac' = TRUE /\ EndRead(TRUE)
  /\ UNCHANGED <<timeout, host_inactive, rx_in, rx_out, tx_in, tx_out, rx_buf, tx_buf>>
  /\ UNCHANGED <<program, control, wfifo, connected, heard, play, alarmVars>>

Least(i, j) == IF i < j THEN i ELSE j

Queued(in, out) == (in - out) % BUF_LEN

\* How many bytes go to the FIFO: as many as it had space for.
Sends == Least(Queued(tx_in, tx_out), control.WSPACE)

\* Mutant: the interrupt is turned off although the buffer was not emptied.
StillEnabled_Never == irq_enable \ {"WE"}
StillEnabled == IF Sends < control.WSPACE THEN irq_enable \ {"WE"} ELSE irq_enable

\* A byte written to the full FIFO is dropped.
Fitting(bytes) == SubSeq(bytes, 1, Least(Len(bytes), WRITE_DEPTH))

IrqWrite ==
  /\ isr = "write"
  /\ wfifo' = Fitting(wfifo \o [i \in 1..Sends |-> tx_buf[(tx_out + i - 1) % BUF_LEN]])
  /\ tx_out' = (tx_out + Sends) % BUF_LEN
  /\ irq_enable' = StillEnabled
  /\ isr' = "control"
  /\ UNCHANGED <<timeout, host_inactive, rx_in, rx_out, tx_in, rx_buf, tx_buf>>
  /\ UNCHANGED <<program, control, rfifo, ac, pause_irq, host, alarmVars>>

-----------------------------------------------------------------------------
\* The clock.  Its routine does not interrupt the other one.

\* altera_avalon_jtag_uart_timeout.
LooksForHost ==
  /\ ac' = FALSE
  /\ host_inactive' = CASE ac -> 0
                        [] ~ ac /\ host_inactive < INT_MAX - 2 -> host_inactive + 1
                        [] OTHER -> host_inactive

\* The alarms of others answer anything, if there are any.
Answers ==
  {answer \in [Alarms -> 0..TickRange - 1] :
     /\ answer["uart"] = TicksPerSecond
     /\ ~ play.timers => \A a \in Alarms \ {"uart"} : answer[a] = 0}

Tick ==
  /\ isr = "off"
  /\ \E next_callback \in Answers : alt_tick(next_callback)
  /\ IF "uart" \in Called THEN LooksForHost ELSE UNCHANGED <<ac, host_inactive>>
  /\ UNCHANGED <<timeout, irq_enable, rx_in, rx_out, tx_in, tx_out, rx_buf, tx_buf>>
  /\ UNCHANGED <<program, routine, wfifo, rfifo, pause_irq, host>>

OtherAlarms ==
  /\ play.timers /\ isr = "off"
  /\ \E a \in Alarms \ {"uart"} :
       alt_alarm_stop(a) \/ \E ticks \in 0..TickRange - 2 : alt_alarm_start(a, ticks)
  /\ UNCHANGED <<record, program, routine, wires, host>>

-----------------------------------------------------------------------------
\* The program.  Its locals n and at are 0 where they are not used any more.

Runs(p) == isr = "off" /\ pc = p

HostGone == host_inactive >= timeout

Call(name) ==
  /\ Runs("idle")
  /\ pc' = name /\ moved' = 0 /\ n' = 0 /\ at' = 0
  /\ nonblock' \in BOOLEAN
  /\ UNCHANGED <<printed, taken, record, routine, wires, host, alarmVars>>

CallWrite == \E count \in 1..play.tx - printed : Call("write") /\ todo' = count

CallRead == play.rx > 0 /\ \E space \in 1..BUF_LEN : Call("read") /\ todo' = space

CallClose == Call("close") /\ todo' = 0

\* A call returns how many bytes it has moved, and the next one goes on from
\* there; where there are none it returns an error, EIO if it has waited.
Return ==
  /\ pc' = "idle"
  /\ moved' = 0 /\ todo' = 0 /\ n' = 0 /\ at' = 0 /\ nonblock' = FALSE

\* Mutant: the byte that tells full from empty is used when tx_out is 0, too.
Room_ToTheEnd(in, out) == IF in < out THEN out - 1 - in ELSE BUF_LEN - in

\* The bytes that can be copied to tx_buf in one piece.
Room(in, out) ==
  CASE in < out -> out - 1 - in
    [] in >= out /\ out > 0 -> BUF_LEN - in
    [] OTHER -> BUF_LEN - 1 - in

WriteLooks ==
  /\ Runs("write")
  /\ at' = IF todo > 0 THEN tx_out ELSE at
  /\ n' = Least(Room(tx_in, tx_out), todo)
  /\ pc' = IF n' = 0 THEN "kick" ELSE "copy_in"
  /\ UNCHANGED <<nonblock, todo, moved, printed, taken>>
  /\ UNCHANGED <<record, routine, wires, host, alarmVars>>

\* The bytes are copied behind those that are queued,
WriteCopies ==
  /\ Runs("copy_in")
  /\ tx_buf' = [i \in 0..BUF_LEN - 1 |->
                  IF i \in tx_in..tx_in + n - 1 THEN printed + moved + i - tx_in + 1 ELSE tx_buf[i]]
  /\ pc' = "move_in"
  /\ UNCHANGED <<nonblock, todo, moved, n, at, printed, taken>>
  /\ UNCHANGED <<timeout, irq_enable, host_inactive, rx_in, rx_out, tx_in, tx_out, rx_buf>>
  /\ UNCHANGED <<routine, wires, host, alarmVars>>

\* and only then does the routine see them.
WriteMoves ==
  /\ Runs("move_in")
  /\ tx_in' = (tx_in + n) % BUF_LEN
  /\ moved' = moved + n /\ todo' = todo - n /\ n' = 0 /\ at' = 0 /\ pc' = "write"
  /\ UNCHANGED <<nonblock, printed, taken>>
  /\ UNCHANGED <<timeout, irq_enable, host_inactive, rx_in, rx_out, tx_out, rx_buf, tx_buf>>
  /\ UNCHANGED <<routine, wires, host, alarmVars>>

\* Mutant: the routine is only kicked if bytes are left.
Kicked_IfMore == IF todo > 0 THEN irq_enable \cup {"WE"} ELSE irq_enable
Kicked == irq_enable \cup {"WE"}

\* With interrupts off; then the call is over unless it has to wait.
WriteKicks ==
  /\ Runs("kick")
  /\ irq_enable' = Kicked
  /\ IF todo > 0 /\ ~ nonblock
     THEN pc' = "await_space" /\ UNCHANGED <<nonblock, todo, moved, n, at, printed>>
     ELSE Return /\ printed' = printed + moved
  /\ UNCHANGED <<timeout, host_inactive, rx_in, rx_out, tx_in, tx_out, rx_buf, tx_buf>>
  /\ UNCHANGED <<taken, routine, wires, host, alarmVars>>

\* Mutant: a host that has gone is waited for.
SpaceMade_HostOrNot == at # tx_out
SpaceMade == at # tx_out \/ HostGone

\* One quiet second is enough to give up after the wait.
WriteAwaits ==
  /\ Runs("await_space") /\ SpaceMade
  /\ IF host_inactive > 0
     THEN Return /\ printed' = printed + moved
     ELSE pc' = "write" /\ at' = 0 /\ UNCHANGED <<nonblock, todo, moved, n, printed>>
  /\ UNCHANGED <<taken, record, routine, wires, host, alarmVars>>

\* Mutant: the piece is not cut at the end of rx_buf.
Available_PastEnd(in, out) == (in - out) % BUF_LEN

\* Mutant: equal pointers are taken for a full buffer.
Available_Equal(in, out) == IF in > out THEN in - out ELSE BUF_LEN - out

\* The bytes that can be copied from rx_buf in one piece.
Available(in, out) == IF in >= out THEN in - out ELSE BUF_LEN - out

ReadLooks ==
  /\ Runs("read")
  /\ at' = rx_in
  /\ n' = Least(Available(rx_in, rx_out), todo)
  /\ pc' = CASE n' > 0 -> "copy_out"
             [] n' = 0 /\ (moved > 0 \/ nonblock) -> "enable"
             [] OTHER -> "await_byte"
  /\ UNCHANGED <<nonblock, todo, moved, printed, taken>>
  /\ UNCHANGED <<record, routine, wires, host, alarmVars>>

\* The bytes are copied to the caller,
ReadCopies ==
  /\ Runs("copy_out")
  /\ taken' = taken \o [i \in 1..n |-> rx_buf[rx_out + i - 1]]
  /\ pc' = "move_out"
  /\ UNCHANGED <<nonblock, todo, moved, n, at, printed>>
  /\ UNCHANGED <<record, routine, wires, host, alarmVars>>

\* and only then the routine may use their places again.
ReadMoves ==
  /\ Runs("move_out")
  /\ rx_out' = (rx_out + n) % BUF_LEN
  /\ moved' = moved + n /\ todo' = todo - n /\ n' = 0 /\ at' = 0
  /\ pc' = IF n = todo THEN "enable" ELSE "read"
  /\ UNCHANGED <<nonblock, printed, taken>>
  /\ UNCHANGED <<timeout, irq_enable, host_inactive, rx_in, tx_in, tx_out, rx_buf, tx_buf>>
  /\ UNCHANGED <<routine, wires, host, alarmVars>>

\* Mutant: the loop goes on until a byte has come and the host has gone.
ByteCame_AndGone == at # rx_in /\ HostGone
ByteCame == at # rx_in \/ HostGone

ReadAwaits ==
  /\ Runs("await_byte") /\ ByteCame
  /\ pc' = IF at = rx_in THEN "enable" ELSE "read"
  /\ at' = 0
  /\ UNCHANGED <<nonblock, todo, moved, n, printed, taken>>
  /\ UNCHANGED <<record, routine, wires, host, alarmVars>>

\* Mutant: only after a read that got all it asked for.
Reopened_IfFilled == IF todo = 0 THEN irq_enable \cup {"RE"} ELSE irq_enable

Reopened == IF moved > 0 THEN irq_enable \cup {"RE"} ELSE irq_enable

ReadEnables ==
  /\ Runs("enable")
  /\ irq_enable' = Reopened
  /\ Return
  /\ UNCHANGED <<timeout, host_inactive, rx_in, rx_out, tx_in, tx_out, rx_buf, tx_buf>>
  /\ UNCHANGED <<printed, taken, routine, wires, host, alarmVars>>

\* altera_avalon_jtag_uart_close
Close ==
  /\ Runs("close")
  /\ tx_out = tx_in \/ HostGone \/ nonblock
  /\ pc' = "idle" /\ nonblock' = FALSE
  /\ UNCHANGED <<todo, moved, n, at, printed, taken>>
  /\ UNCHANGED <<record, routine, wires, host, alarmVars>>

\* TIOCSTIMEOUT; what is not a time is taken for ever.
SetTimeout(arg) ==
  /\ Runs("idle") /\ timeout # INT_MAX
  /\ timeout' = IF arg \in 2..INT_MAX - 1 THEN arg ELSE INT_MAX - 1
  /\ UNCHANGED <<irq_enable, host_inactive, rx_in, rx_out, tx_in, tx_out, rx_buf, tx_buf>>
  /\ UNCHANGED <<program, routine, wires, host, alarmVars>>

-----------------------------------------------------------------------------
\* altera_avalon_jtag_uart_init, which starts the alarm at the first tick.

UartInit ==
  /\ play \in Plays
  /\ nticks = 0
  /\ alarms = [a \in Alarms |-> IF a = "uart" THEN Started(TicksPerSecond) ELSE Off]
  /\ timeout = DEFAULT_TIMEOUT /\ irq_enable = {"RE"} /\ host_inactive = 0
  /\ rx_in = 0 /\ rx_out = 0 /\ tx_in = 0 /\ tx_out = 0
  /\ rx_buf = [i \in 0..BUF_LEN - 1 |-> 0] /\ tx_buf = [i \in 0..BUF_LEN - 1 |-> 0]
  /\ pc = "idle" /\ nonblock = FALSE
  /\ todo = 0 /\ moved = 0 /\ n = 0 /\ at = 0
  /\ isr = "off" /\ control = NoControl
  /\ wfifo = <<>> /\ rfifo = <<>> /\ ac = FALSE /\ pause_irq = FALSE
  /\ connected \in BOOLEAN
  /\ printed = 0 /\ heard = <<>> /\ typed = 0 /\ taken = <<>>

\* The program goes on with the call it has made.
Program ==
  \/ WriteLooks \/ WriteCopies \/ WriteMoves \/ WriteKicks \/ WriteAwaits
  \/ ReadLooks \/ ReadCopies \/ ReadMoves \/ ReadAwaits \/ ReadEnables
  \/ Close

Interrupt == IrqEnter \/ IrqControl \/ IrqFull \/ IrqByte \/ IrqNoByte \/ IrqWrite

UartNext ==
  \/ CallWrite \/ CallRead \/ CallClose
  \/ \E arg \in play.timeouts : SetTimeout(arg)
  \/ Program \/ Interrupt
  \/ Tick \/ OtherAlarms
  \/ HostTypes \/ HostPauses \/ HostTakes \/ HostLeaves \/ HostComes

\* The processor runs, the clock ticks, and a host that stays takes what is
\* printed and pauses at times.  It need not type, nor the program call.
Fairness ==
  /\ WF_vars(Program) /\ WF_vars(Interrupt) /\ WF_vars(Tick)
  /\ WF_vars(HostTakes) /\ WF_vars(HostPauses)

UartSpec == UartInit /\ [][UartNext]_vars /\ Fairness

-----------------------------------------------------------------------------
\* Properties.

writing == pc \in {"write", "copy_in", "move_in", "kick", "await_space"}

Handed == printed + (IF writing THEN moved ELSE 0)

\* The types of the registers, the locals and the bytes under way.
UartTypeOK ==
  /\ AlarmTypeOK
  /\ timeout \in 2..INT_MAX - 1 /\ host_inactive \in 0..INT_MAX - 2
  /\ irq_enable \subseteq {"RE", "WE"}
  /\ {rx_in, rx_out, tx_in, tx_out} \subseteq 0..BUF_LEN - 1
  /\ n \in Nat
  /\ pc \in {"copy_in", "move_in"} => n \in 1..BUF_LEN - tx_in
  /\ pc \in {"copy_out", "move_out"} => n \in 1..BUF_LEN - rx_out
  /\ Len(wfifo) <= WRITE_DEPTH /\ Len(rfifo) <= READ_DEPTH
  /\ pause_irq => rfifo # <<>>

\* The processor never sleeps through bytes to send: while tx_buf holds any, and
\* no write is about to kick, the interrupt that sends them is on.
SendIsAwake ==
  tx_in # tx_out /\ pc \notin {"write", "copy_in", "move_in", "kick"} => "WE" \in irq_enable

\* The receive interrupt is only off while there is something to read, whose
\* reader turns it on again, although the routine takes a byte that came in the
\* cycle of its last look for a sign that the buffer is full.
ReceiveIsAwake ==
  "RE" \notin irq_enable =>
    \/ rx_in # rx_out
    \/ moved > 0 /\ pc \in {"read", "copy_out", "move_out", "enable"}

PrintLine == INSTANCE ByteLine WITH
  Capacity <- BUF_LEN - 1 + WRITE_DEPTH, put <- Numbers(1, Handed), got <- heard

TypeLine == INSTANCE ByteLine WITH
  Capacity <- BUF_LEN - 1 + READ_DEPTH, put <- Numbers(1, typed), got <- taken

\* What the program prints, going by what its calls returned, reaches the host
\* in order, nothing twice and nothing lost, whatever the interrupt routine
\* does between two steps of a call and however often calls are cut short.
PrintsInOrder == PrintLine!ByteLineSpec

\* The same of what the host types.
ReadsInOrder == TypeLine!ByteLineSpec

\* Once the host stays, everything printed reaches it.
HostHearsAll == <>[]connected => []<>(Len(heard) = Handed)

\* A call that waits for a byte is over once the host, which stays, has typed one.
ReadWakes == <>[]connected => ((pc = "await_byte" /\ rfifo # <<>>) ~> (pc # "await_byte"))

\* A write or a close returns, whether the host stays or goes, unless a time-out
\* was set that is for ever.
WriteReturns == (timeout < INT_MAX - 1 /\ (writing \/ pc = "close")) ~> (pc = "idle")
=============================================================================
