# Pac-Man on an FPGA: the verification project

The repository is a Pac-Man game for an Intel MAX 10 board. The game itself is
SystemVerilog (`FinalProject1.sv`, `FSM.sv`, `ball.sv`, `ghost.sv`,
`Color_Mapper.sv`, ...); a NIOS II processor beside it runs C
(`software/FinalProject1`) that talks to a USB keyboard through a MAX3421E host
controller and to an SGTL5000 audio codec, and writes the code of the pressed
key into a register the game reads.

## 1. Inventory

| Part | State it keeps | Operations | Works with |
|---|---|---|---|
| Screens, `FSM.sv` | `State`: Intro, Start, Game, End | one transition a frame | reads the keycode, `caught_check`, `game_over_check`; everything else reads its state |
| Pac-Man, `Move_Ball` in `ball.sv` | position (10 bits an axis), motion | reset, halt, steer, hold | keycode, FSM state, walls |
| Pellets, `Pellet_Grid` in `ball.sv` | `grid_pellet`, `score`, `play` | reset, eat, quiet | Pac-Man's position; `score` ends the game, `play` starts the chomp |
| Ghosts, `ghost.sv` (four instances) | position, motion, `direction`, `X_Disp`, `Y_Disp` | reset, halt, wait for the first key, chase, patrol | walls, Pac-Man's position, keycode, FSM state |
| Collision, `ghost.sv` and `ball.sv` | none (combinational) | `X_Caught`, `Y_Caught`, `caught_check` | the FSM |
| Maze, `ball.sv` | constants | twelve lookups for each sprite | Pac-Man, ghosts |
| Scan, `VGA_controller.sv` | counters of pixels and lines, syncs | count, reset | its vertical sync is the clock of the game |
| Picture, `Color_Mapper.sv` | none but the pixel clock's registers | layers by priority, digits of the score | reads all positions, pellets, screen and score |
| Chomp, `FinalProject1.sv`, `shift_reg.sv`, `pacman_chomp_pcm.sv` | `audio_address`, `counter`, two shift registers | step, load, shift | `play`, the codec's clocks |
| USB host, `usb_kb/transfer.c`, `MAX3421E.c` | task state, device table, delays | interrupt handler, task state machine | MAX3421E over SPI |
| USB transfers, `usb_kb/transfer.c` | endpoint records with saved toggles, counters of NAKs and retries | control reads and writes, polls, each packet with retry | the controller's FIFO and result, the device's own toggle |
| HID class driver, `usb_kb/HID.c` | the two HID device records | probe, poll | USB host |
| Main loop, `main.c` | `device`, debug flags, keycode | poll, print, re-initialise | USB host, HID, keycode register |
| Codec set-up, `main.c`, `sgtl5000.c` | the codec's registers | 11 registers read or written in order | I2C driver |
| I2C driver, `altera_avalon_i2c.c` | the state of a call; controller with two FIFOs | enable, write commands, look for NACKs, receive, retry, disable | the controller works commands off while they are written |
| Console driver, `altera_avalon_jtag_uart_*.c` | two circular buffers, interrupt mask, count of silent seconds | write, read, close, ioctl; interrupt routine, look for the host | `printf` of the whole program; alarms; the host at the other end of the cable |
| System clock, `alt_tick.c`, `alt_alarm_start.c` | `_alt_nticks`, list of alarms | tick, start, stop, call back | the console driver, USB delays |
| Generated and vendor code | - | rest of BSP, HAL, SoC, ROM images | - |

All sprites, the pellets and the FSM are clocked by the vertical sync, so a
frame is one step of all of them at once, each reading what the others held
*before* the edge. `KEY[0]` resets them asynchronously. The keycode is written
by the processor at any time.

What is hard here: the delays between these parts. A sprite moves by the motion
it chose a frame ago while it looks around from where it is now; the collision
test sees positions of the last edge and the FSM acts on it one frame later;
the ghosts steer by a displacement sampled a frame earlier; pellets are eaten
on every screen. None of it can be tested one component at a time, and whether
a sprite can be steered into a wall depends on sequences of keys nobody tries.
`PROJECT.json` lists these hazards at their lines.

The sound has no frame: the codec clocks it. The clock of the sample ROM is a
counter made from the same edge that changes the ROM's address, so which sample
a word gets depends on the build, and the sample changes while one shift register
loads and the other shifts.

The USB host is one polling loop, but the controller and the person who plugs
devices in and out act at any time between two of its register accesses. Three
parts of the program write `usb_task_state`: the bus probe, the interrupt
handler, which *increments* it, and the task state machine; what each writes is
right only in the order in which the loop happens to call them. Interrupts are
polled, so they are seen late, in a state they do not belong to.

Below that loop a transfer is a series of packets, each of which may be lost on
the way, or its handshake may; the device then sends it again, and one bit, the
toggle, kept at both ends and saved between transfers by the program, tells it
from a new one. The I2C driver writes commands into a FIFO while the controller
works them off, so a refusal is noticed late, in a later command or in the other
half of the transfer, and the whole call is tried again from the buffer it has
been receiving into. The console driver shares two circular buffers and the
interrupt mask with its interrupt routine and has no lock for the indices; the order in
which it copies, moves an index and switches an interrupt is all it relies on.

What makes the parts correct:

* sprites never enter walls, and no lookup leaves the arrays;
* ghosts never pass through Pac-Man, and the game never ends without a cause;
* ghosts start with the player, steer by fresh data, and do not get stuck;
* the score is that of the pellets eaten, winning means an empty maze, and the
  end screen does not change any more;
* while the USB host says RUNNING, the device it polls is plugged in, listens
  at that address and is of the class the loop takes it for; a device that is
  pulled out stops being polled; only a keyboard's reports become keys;
* a transfer ends; what a control read returns is what the device sent; polling is a
  channel from the keyboard to `main` that neither loses nor repeats a report;
* the codec's registers are written in the order of `main.c`, each before the
  next, and a call finds the controller as the first one did;
* every byte printed or typed gets through once and in order, nobody sleeps while
  bytes wait, and calls return when the host has gone;
* alarms are called after the ticks they asked for, over the wrap of the clock;
* the codec hears one whole sample in each half of a period, the same on both
  ears, and each chomp to its end; a picture shows one state of the game, and
  shows it truly.

## 2. Modules

| Module | What it models | Extends |
|---|---|---|
| `Maze` | cells, lookups (`Probe`, `Clear`), the corridor a maze encloses | |
| `Pacman` | `Move_Ball` | `Maze` |
| `Ghosts` | `ghost.sv`, one record of registers per instance | `Maze` |
| `Chase` | the ghosts while Pac-Man stands still, and which mazes lead them on | `Ghosts` |
| `Pellets` | `Pellet_Grid` | `Maze` |
| `GameFSM` | `FSM.sv` | |
| `Game` | the composition under one frame clock, with reset | the four above |
| `GameRules` | abstract: what the player is promised | |
| `UsbHost` | the main loop, the interrupt handler, the task state machine and the HID probes, with controller, bus and person | |
| `Transfer` | the packets, retries and toggles of `transfer.c`, the polls and probes built on them, with controller and keyboard | |
| `ReportChannel` | abstract: what polling promises | |
| `I2c` | the polled driver, the controller behind it and the device's side of the bus | |
| `Codec` | the script of `main.c`, `SGTL5000_Reg_Rd` and `_Wr` | `I2c` |
| `CodecSetup` | abstract: registers written in order | |
| `Alarms` | `alt_tick`, `alt_alarm_start`, `alt_alarm_stop` | |
| `Countdown` | abstract: alarms as numbers of ticks that are left | |
| `JtagUart` | the console driver, its interrupt routine, the hardware's FIFOs, the host | `Alarms` |
| `ByteLine` | abstract: a line of bytes with bounded room | |
| `Chomp` | the player of the chomp, bit by bit | |
| `Scan` | `VGA_controller.sv` | |
| `Picture` | `Color_Mapper.sv`: which layer is shown at which pixel | `Game` |
| `RealMaze` | the walls and pellets of `ball.sv` as sets of cells | |
| `MC*` | instances for TLC; `MCAlone` runs Pac-Man, a ghost, the chomp and the scan side by side, each alone | |
| `SpritesProofs` | theorems about the maze, Pac-Man and the ghosts, each alone | `Pacman`, `Ghosts` |
| `ChaseProofs` | the theorem about the chase | `Chase`, `SpritesProofs` |
| `GameProofs` | theorems about pellets, the game and its picture | `Picture`, `SpritesProofs` |
| `UsbProofs`, `TransferProofs`, `CodecProofs` | theorems about the module of that name | `UsbHost`, `Transfer`, `Codec` |
| `UartProofs` | theorems about the alarms and the console driver; that it is a line of bytes | `JtagUart` |
| `SignalProofs` | theorems about the chomp and the scan | `Chomp`, `Scan` |

### How state and actions correspond to the code

* `pac` is the record of `Ball_X_Pos`, `Ball_Y_Pos` (`x`, `y`) and
  `Ball_X_Motion`, `Ball_Y_Motion` (`mx`, `my`). The motion 10'd1023 is -1; the
  sums are taken modulo 2^10 (`Wrap`), as the registers do. `PacReset`,
  `PacHalt`, `PacSteer`, `PacHold` and `PacWait` are the branches of
  `Move_Ball`. `PacSteer` moves by the *old* motion, as the nonblocking
  assignments do.
* `ghost[g]` has the registers of one instance. The two long branches of
  `Move_Ghost`, for chasing and patrolling ghosts, each repeat the same
  decision for four directions: go on, or turn one of the ways across, or turn
  back. `Order` is the order of the tests and `Takes` the condition of each;
  `Chosen` is the first that holds. `X_Disp`, `Y_Disp` are 32 bits and signed in
  the code, and the differences they hold never need more.
* `grid_wall` and `grid_pellet` are the sets of the cells whose bit is 1.
  `Probe(s, d, o)` is the cell one pixel beyond the edge of sprite `s` on side
  `d`, moved `o` pixels along it: `map_check_ur` is `Probe(s, "up", 6)`.
* `Frame(key)` is one vertical sync: FSM, pellets, Pac-Man and ghosts step
  together. `Reset` is `KEY[0]`. `play`, `X_Disp` and `Y_Disp` are left as they
  are by a reset, as in the code; without a reset value they power up as zero.
* `CorridorAssumption` replaces the picture of the maze: a corridor is a set of
  open cells that can only be left through a wall. TLC checks it for the real
  maze (`RealMaze`), where the ends of rows 7 and 11, the room in the middle
  and column 19 (a twentieth bit the rows do not give) are open but not part of
  it.
* `UsbHost`. `pc` is where the processor is in the loop of `main.c`. The interrupt
  handler is three actions (read `HIRQ`, probe the bus, acknowledge), the
  initialisation three (reset, probe, acknowledge), so that the person and the
  controller can act in between; one pass of `USB_Task` is one action for each
  state it tells apart, and the body of the loop one action for each branch.
  `usb_task_state` is the byte of the code, its increment is modulo 2^8 and the
  masks are computed (`Masked`). `seen` is the local `HIRQ` of `MaxIntHandler`;
  `devtable`, `tmp_addr`, `hid_addr` (`hid_device.addr`), `device` and
  `runningdebugflag` are the variables of the code. `delay_over` stands for the
  comparison of the clock with `usb_delay`.
* Abstracted in `UsbHost`: a control transfer or a poll is one step that may
  fail at any time and can succeed only if the device listens at the address
  and speed it is sent at (`Reachable`); a SET_ADDRESS may be taken and its
  answer be lost. The configuration descriptor is the class it leads to.
  LEDs, printing and `errorflag`, which only controls printing, are left out,
  and so is the frame generation bit, which MODE_FS_HOST and MODE_LS_HOST set
  already.
* `Transfer`. `XferDispatchPkt` is the loop launch, result, relaunch; the
  transfers above it are what its return leads to (`ReadPacket`, `StatusStageEnds`,
  `NoDataStage`). One transaction on the bus is one step with all its outcomes: the token lost
  (`Fails`), a NAK (`Busy`), the packet received and the handshake seen or lost
  (`ReceivesData`), a packet sent again (`Duplicate`). The two limits are counted
  apart, as in the code. The deadline they share is five seconds, and 200 NAKs take a small part
  of it: it is reached only if the controller does not finish a transaction at all, which is
  the result `none`. A run begins before the first keyboard has its address. The contents of a packet
  is its number; `have` is how many packets the device answers with. OUT
  transfers, which no caller uses, and the SPI accesses of a register are left out.
  Plugging in anew makes the device forget its address, toggles and packets, and
  `SET_CONFIGURATION` resets the toggle of the polled endpoint; `HID_init` resets that of the host.
* `I2c`. A call of the driver is a series of steps between which the controller
  acts: each command written (`cmd_write`), each NACK seen, each byte read, each
  time-out. The buffer, the counters and the status are those of the code. A
  command is a record of its byte and the two flags. The device may refuse any
  byte (`Nack`: the controller then drops what it has and empties both FIFOs) or
  hold the clock for ever (`HoldClock`). The program is the only master, so
  arbitration is never lost. The two time-outs of the driver
  happen only if the device holds the clock or nothing more can come: 100,000
  polls are far longer than the transfers they wait for. `Junk` is what reading
  the empty FIFO returns. The registers that `main.c` does not depend on hold 1
  after reset, which stands for their reset values.
* `Alarms`. `alt_tick` is one action: no interrupt comes between its steps. `nticks`
  and the times are modulo `TickRange`, 2^32 in the code. An alarm of 2^32 - 1 ticks
  is left out: its time would be the present.
* `JtagUart`. A write is `WriteLooks` (reads both indices and computes the room), `WriteCopies`
  (fills slots), `WriteMoves` (moves `tx_in`), `WriteKicks` (switches the interrupt on) and
  `WriteAwaits`; a read is `ReadLooks`, `ReadCopies`, `ReadMoves` (`rx_out`), `ReadAwaits` and
  `ReadEnables`. The routine and the tick may run between any two of them but are
  not interrupted themselves; only the hardware and the host act between their steps. Reading
  the data register in the cycle in which a byte arrives is possible
  (`IrqNoByte`): the register says "nothing" while the byte counts as available. Build
  without an operating system, so no semaphores; `close` is that of the driver.
  Locals that are dead are set to zero to keep the states apart.
* `Chomp`. A bit is its word and its number. The codec's two clocks are the
  actions `BitEdge` and `WordEdge`. `late` is the build's choice of reading the ROM
  before or after its address changes. Where the address is read late and is
  odd, the last word of a chomp is that of address 15800, one past the ROM: its value is
  whatever the memory block returns.
* `Scan`. `vs` is low in lines 489 and 490, as `vc + 1` is compared; the comment
  (`VGA_controller.sv:98`) says 490 and 491. The game does not care. Letting go of
  the reset makes a game frame at the first pixel.
* `Picture`. `Layer` is the priority of `RGB_Display`; colours, the pictures of
  sprites, the font, and the one or two pixels that ROMs and registers delay are left
  out. The last row of the end screen (`Color_Mapper.sv:80`) reads past the
  23,600 pixels of its ROM.
* Assumed of the MAX3421E: its J and K status follow the bus, a bus reset ends
  and sets BUSEVENT, it may or may not raise CONDET with it (the comment at
  `MAX3421E.c:168` says it does), its oscillator starts.

## 3. What TLC checks

| Run | Instance | Question |
|---|---|---|
| `alone` | real maze. Pac-Man with all keys, screens and resets; a ghost that chases a Pac-Man on any side of it in each frame (it uses only the signs of its displacement, so positions next to it stand for all); a ghost that chases one who stands at each of 183 places, until it has caught him (`Chase`); the chomp; the scan at its real size, for which `ScanAssumption` is evaluated | can a sprite be steered or lured into a wall, does a chaser stop, do the ears agree, is each chomp played through? |
| `patrol` | real maze, ghosts r and o | do they stay mid-corridor and go round all four sides of the maze again and again? |
| `game` | 10-cell maze with a crossing, a ring and dead ends, one chaser, two pellets; any key and reset in any frame | the invariants that relate components, and whether the game starts evenly (`EvenStart`) |
| `rules` | 5-cell lane | `Game` implements `GameRules`, safety and liveness |
| `real_game` | the shipped game with four ghosts and 150 pellets, first 250 frames of every play in which keys are held until a wall stops Pac-Man | do the four ghosts keep one pixel behind Pac-Man (`EvenPace`), and is the picture that of the game? |
| `usb` | a low-speed keyboard, a full-speed mouse, two addresses; up to five times something is plugged in or out, illegal bus states included, at any point | is what is polled, and taken for keys, always what is there, and does polling stop when it goes? |
| `transfer` | a keyboard of two reports, control reads of up to two packets, both limits 2, plugged in anew once; every transaction may fail in every way | do transfers end, are reads intact, does polling implement `ReportChannel`, does every report arrive? |
| `codec` | `main.c`'s script, FIFO of four, two tries | is the set-up in order (`CodecSetup`), does it end? |
| `uart` | buffers of three, FIFOs of one (to the host) and two, a clock of three values; six plays of printing, typing, leaving and other alarms | bytes once and in order (`ByteLine`), nobody sleeps, calls return, alarms on time (`Countdown`) |
| `usb_address`, `usb_settle` | as `usb`, two plug events | two statements of comments that the code does not keep: TLC finds each violated |
| `codec_retry` | as `codec` | a read that is tried again reads the same register: TLC finds it violated |

Bounds. Nothing is bounded in the first four runs but the maze, the number of
ghosts and pellets: registers are finite, and the score cannot exceed the
pellets. `real_game` is bounded by `MaxFrames` = 250, about four seconds of
play, enough to meet a ghost (the nearest start 64 pixels away), to be caught
and to see the end screen. The 10-cell maze has what decides a ghost's
behaviour: a crossing (`map_check` = 4), corners, dead ends and a loop.

The chomp in `alone` has 10 samples and 4 bits, against 15,800 and 32: the address has
to run through, end and start again, with the play flag set or not at each step;
the number is even like that of the code, because which addresses are read, and which
of them is the last, depends on it. The scan has its real numbers.

`usb` is bounded by `MaxEvents` = 5 plug events: a device that is there from
the start can be pulled out, replaced, pulled out again and replaced again,
which is more than it takes for an entry of the device table to be left
behind, for a bus event of the first attachment to meet the second, and for
`device` of `main` to outlive its device. Two free addresses are enough to
have one left behind, one in use and none left. No other quantity is bounded;
the theorems of section 4 hold for any number of events and addresses.

`transfer`: limits of 2 are reached, and not reached, by NAKs and by time-outs apart and
together (the code has 200 and 3); two packets have a first and a last; two reports can follow
each other with the handshake of the first lost; one new attachment meets the
toggle of the old one. The theorems hold for any.

`codec`: the FIFO has its real depth of four, which a read of six commands does not fit
into; two tries stand for 10,000. `Junk`, what reading the empty FIFO gives, is
{0, 160}: nothing, or a byte left from an earlier read (the identification begins with 160), which
makes a different register number of what the retry sends.

`uart`: a buffer of three with its one empty slot takes pieces that end
at the end of the array and pieces that do not, and holds more than the FIFO to the host, as in the code (2048 and 64),
so that the routine may send a part of it only. Four bytes are printed in one play, one more than
buffer and FIFO hold together, so a write has to wait, and the host may leave while it waits, or
before, or in the middle of taking what was printed; in another the host types four, as many as
buffer and FIFO hold. A clock of three values wraps all the time. Whether the host is there is decided within
`DEFAULT_TIMEOUT` = 2 silent seconds (10 in the code), one tick each.

What the three violations show (`findings` in `PROJECT.json` has the lines):

* `usb_address`: the two requests of `GetDriverandReport` go to address 1 while
  the device has address 2. Needs an enumeration that failed, and a bus event
  left pending that makes 0x02 of the state that would have cleared the table.
* `usb_settle`: the increment in the handler skips the state that starts the
  200 ms delay, so the next state sees the delay of an earlier device over.
* `codec_retry`: `SGTL5000_Reg_Rd` receives into the two bytes that hold the
  register number. If the device refuses a byte late, the read times out, stores
  what the empty FIFO returns, and only then finds the refusal; the retry sends what
  was stored. The read succeeds with the value of another register.

Seen on the way, without a run: the wait for the first start of frame does not
wait (`transfer.c:298`, `|` for `&`); the guard at `MAX3421E.c:168` that ignores the
connection interrupt of a bus reset looks at a state that `USB_Task` may have left,
so the attachment starts over; milliseconds wrap every 71 minutes
(`transfer.c:144`, `277`), so a delay that is set just before never ends; a write to the
console that had to wait gives up with `-EIO` after one silent second, although the
time-out is ten and space has been made (`write.c:187`, `214`), and the interrupt
routine may take a byte that comes in the cycle of its last look for a full
buffer (`init.c:157`), which `ReceiveIsAwake` shows to be harmless.

Fairness. `Spec` assumes only WF of `Tick`: the frame clock does not stop. It
is generated by `VGA_controller.sv` from the 50 MHz clock, and only holding
`KEY[0]` for ever would stop it. Nothing is assumed about the player. In
`PatrolSpec` the same assumption is made of `PatrolMove`, whose guard (the
game's screen) holds throughout. `UsbSpec` assumes WF of the processor (no wait of the
loop is without end once the oscillator runs), of the end of a bus reset (50 ms, done by the
controller) and of the clock passing the delay; nothing of the person, of frames
or of any transfer succeeding. `Transfer` assumes that a transfer goes on once begun (WF; the
program does nothing else), that the loop polls and that a poll succeeds again and
again (SF): without it no report can be promised; `TransfersEnd` needs only the first. `Codec`
assumes WF of the driver and the caller (a sequential program) and of
the controller (clocked hardware), nothing of the device. `UartSpec` assumes WF of the
program, the interrupt routine and the tick, and, of a host that stays, that it takes what is
printed and pauses at times. That part is an assumption about the terminal program
on the PC, which is not in this repository; `HostHearsAll` and `ReadWakes` are stated for a host that
stays, `WriteReturns` for one that may also go.

What the player meets and no property promises: a chasing ghost can freeze
when Pac-Man moves. It decides to turn at a crossing, overshoots by the pixel
of its old motion, and is then blocked on both sides while Pac-Man is in line
with it. `alone` shows that this does not happen as long as Pac-Man has stood still since the start, and
`ChaserNeverStops` in which mazes it does not. Neither says anything of a Pac-Man who has
moved and then stands: a ghost that his moving froze can stay frozen then.

## 4. What is proved

The theorems about the game hold for *every* maze that encloses its corridor, every start in
it, any number of ghosts of either kind and every layout of pellets:
`MazeIsEnclosed`, `PacStartsInCorridor`, `GhostAssumption`, `PelletAssumption`
and `GameAssumption` are the assumptions, and TLC checks each of them for the
instances it runs, the shipped one included. `PictureAssumption` adds, for the
picture alone, that the pellets lie within 30 rows and 19 columns and that the score
has four digits at most.

* Walls (`SpritesProofs`). `PacStaysInCorridor`
  is not inductive: it says nothing of the motion, by which the next frame
  moves without a look. `PacInv` adds that the place *ahead* is in the corridor
  too. The key lemma, `LookThenMove`: if the sprite and the place ahead of it
  are within the corridor and the lookups of direction d are clear, then so is
  the place ahead after turning to d. It holds although the lookups are made
  from the old place, because they reach 9 pixels out and 5 or 6 across while
  only 4 are claimed. For patrolling ghosts, which look at a single pixel a
  side, `GhostInv` says that they are in the middle of the cell on the axis
  across their motion; they turn only where blocked, which is mid-cell on the
  other axis as well (`BlockedMidColumn`, `BlockedMidRow`).
* The chase (`ChaseProofs`). `ChaserNeverStops`: if Pac-Man has stood still since the start, wherever that
  is, no chaser comes to a stop before one has caught him. It holds in every maze that leads on (`WaysLeadOn`): from
  each cell of the corridor lead at least two ways, or one that *faces* the corridor, which
  means that no cell of the corridor lies behind a ghost that goes that way, in line. In a dead end that does
  not, a Pac-Man who stands behind the ghost keeps it there: it is in line with him, so neither way across
  is his. The shipped maze has two dead ends, both in row 9 (columns 1 and 17), and both face the corridor;
  TLC evaluates the assumption on it. `Chasing` is the invariant, on the numbers
  of one ghost; with the direction it has it names the *last step* e, which the registers no longer tell
  once it has turned. It says
  what the ghost knew when it chose its direction (`Informed`, `Looked`, `TurnsToHim`), that its cell has a
  way out ahead or behind (`HasWay`), and how far off its lane it may be, since it turns a pixel late at every crossing
  (`KeepsLane`): it is on pixel 7 or 8, or two pixels beside Pac-Man's own lane (`Aside`), or on
  its way back to it (`Regains`). That the ghost is never off its lane for another reason is
  what keeps both of its lookups on the way ahead out of the walls. `FindsWay`, `KeepsChasing` and `StartsChasing`
  are the arguments about numbers, one case for each direction and choice; the others connect them
  to the registers.
* The game (`GameProofs`). `GameInv` conjoins the components' invariants with
  the properties and two facts about rest (Pac-Man rests on no pellet, nobody
  moves before the game). `NoPassThrough` follows from `FrameApart`: a ghost not
  yet noticed is 14 pixels away on an axis and two sprites close in by at most
  2 a frame, so the frame that notices starts at 12 or more and the end screen
  at 10 or more, where all motion is cleared.
* `GameFollowsRules`: each frame, by the screen it starts from, is a step of
  `GameRules` or leaves the abstract state alone (`FrameFollowsRules`).
* The start (`GameEvenStart`). A ghost and Pac-Man each decide for themselves which key counts,
  and a reset can come before any of their frames. The ghosts set off all at once, on a
  steering key that finds Pac-Man at his start, and he takes his first motion in no frame that
  leaves one waiting. The invariant behind it is `WaitTogether`: either all ghosts are idle
  at their places and Pac-Man is at his start, or none is idle. It does not say that they
  move in the same frame, and they do not: he moves in the frame after the key, they
  in the one after that. What this costs them is `EvenPace` of `real_game`: one pixel, which they
  neither make up nor add to at any turn, as long as he never stops.
* The picture (`GameProofs`). `GamePictureTells` and `GamePelletsGo` need no invariant of
  their own beyond `GameInv`; they are about numbers. `Color_Mapper` finds a sprite
  by subtraction in 10 bits and draws it a row lower than the square in which it
  eats. `MiddleIsSeen` and `LitIsShown` say that what the registers hold is shown at its
  place, `FarIsNotNear` that nothing else is, because the places of sprites are
  far enough from the borders for no subtraction to wrap (`SpritesPlaces`, from the corridor).
  That pellets go under Pac-Man is an
  action property: a pellet that a frame takes is covered by him
  (`EatenIsCovered`), and one that is left is not covered whole, whether it is in his cell
  (`LeftIsUncovered`) or in one around it (`OtherCellIsFar`).
* The USB host (`UsbProofs`), for any devices and any number of addresses and
  plug events, from `UsbAssumption` alone. `UsbIInv` adds to the
  types and `RunningMeansConnected` what the order of the loop guarantees:
  `HandlerOrder` (between probe and acknowledgement the state is one that
  `MAX_busprobe` leaves, so the increment can reach two unnamed states but
  neither RUNNING nor, from ERROR, DETACHED); `ResetIsOver` (a bus event seen
  while a reset is awaited is that of this reset, since `transfer.c:286` clears
  the older one, so no device that has been addressed is reset behind the
  program's back); `NoGap` and `TableIsFresh` (addresses are used in order, so
  the last entry, which `GetDriverandReport` takes, is the newest); and
  `FlagIsFresh` (once RUNNING is lost, the states on the way back take more
  than one pass of the loop, and the first pass clears `runningdebugflag`).
  `DeviceIsThePluggedOne` and `KeysComeFromAKeyboard` follow without any
  assumption on how fast devices are swapped.
* Transfers (`TransferProofs`), for any limits, packets, reports and attachments,
  from `TransferAssumption` alone. `ReadsAreIntact` needs `ReadInv`: which stage a
  transfer is in fixes the token (`Stages`); a successful IN leaves a packet in the
  controller (`DataAfterIn`), so 0xf0 is never returned; what has been read is a prefix of the
  answer, and the device holds the rest, with or without the packet just received, depending on
  its toggle (`ReadStages`). `PollingIsAChannel` is the
  refinement: what is under way is the report in the controller followed by the
  one the keyboard holds, unless that is the same. `ChanInv` says that the
  keyboard holds one at most (`OneReport`), that only a running device is polled
  (`PollsWhenRunning`), that the controller's toggle is the saved one until a packet comes
  (`PollToggle`), that a keyboard with nothing to send and the host agree on the next toggle
  (`Agree`), and how they come to agree when it is configured (`WriteStages`).
  `TransfersRunDown` is the argument behind `TransfersEnd` that needs no fairness: every step of a
  transfer returns, or lowers the stages and packets still to come (`StagesLeft`), or leaves these
  and lowers the tries of this packet (`TriesLeft`), or finds its result; `Room`, that a packet is
  asked for only while some are wanted, keeps these numbers from falling below zero. That the
  steps are taken is the fairness, and stays with TLC.
* Alarms (`UartProofs`): `AlarmsAreCalledOnTime` maps `Alarms` to `Countdown`
  for any set of alarms and any size of the clock. `Left` is the time an alarm
  still has to wait, computed from its time, its flag and the clock; `WaitsAhead`,
  the invariant, says that it is at least one tick and less than the clock has
  values, so that the flag says "beyond the wrap" if and only if it is.
* The console driver (`UartProofs`), for any sizes. `UartInv` is the types with `SendIsAwake`,
  `ReceiveIsAwake` and `ReadsWhereByte` (when the routine starts to read, a byte is in the
  buffer or in the FIFO, so that what it leaves when it turns the interrupt off is not an
  empty buffer). What makes `SendIsAwake` inductive: a write leaves
  `kick` with the interrupt on, and the routine turns it off only with an
  empty buffer, in a step in which the program cannot move.

* The console as a line of bytes (`UartProofs`), for any sizes. `LineOut` says which
  byte each slot holds: what the host has heard, then what waits in the FIFO,
  then what waits in the circular buffer from `tx_out` on are the numbers of the bytes
  printed, without a gap; `LineIn` says the same of the bytes typed, taken,
  in `rx_buf` and in the FIFO. Two facts make them inductive. A write copies by
  the room it has computed earlier, and the routine can only have enlarged it since
  (`RoomLeft`; `BytesLeft` for a read); the routine sends by the space it has read
  earlier, and the host can only have enlarged it (`SpaceLeft`). The lemmas about the
  circle (`SlotIs`, `MovedOn`, `PutsIn`, ...) say that what is copied in goes to slots in which nothing
  waits, in one piece or around the end of the array. No lock is needed since
  each index is moved by one side only, after the copy. The copy and the move are separate
  steps of the program: between them, `Copied` says that the bytes in the next `n` slots are the
  ones that come next, and `Freed` counts the bytes whose slots a read has given back:
  those it has copied still lie in theirs, which the routine does not reach before `rx_out` has moved.
* The codec's set-up (`CodecProofs`), for any script, any number of tries, any FIFO that holds two
  bytes or more, and whatever the empty FIFO returns. The commands of a transfer are
  numbered; `Written`, `Popped` and `Done` say how many the driver has written, the
  controller has taken and the bus has done. `CodecInv` says, as long as nothing has
  gone wrong (`Live`: no refusal, no held clock), that FIFO and shifter hold
  the commands from `Done` to `Written` (`CommandsInv`), that the device has got the
  bytes of the buffer up to there and points at the register of the script (`BusInv`),
  and that buffer and receive FIFO together hold the bytes of the register read
  so far (`BufferInv`). `Receives` is the step at which a read takes answers into the
  buffer it has sent from: by then everything sent from it is done. Once something has gone
  wrong nothing is claimed of the bus; what is kept is that the controller is emptied by
  a refusal and that the driver cannot take the transfer for complete (`DriverInv`,
  `ControllerInv`, `Finished`), from which `EveryTryStartsAfresh` follows. In a
  retried *write* the buffer is still the one of the call; in a retried read it may not
  be, which is why `FirstReadIsRight` asks for no retry and why
  `codec_retry` finds the other reads violated. `SetUpInOrder` is the refinement: only the
  last byte of a write changes a register (`TxByteWrites`), to the value of the script.
  `SetupRunsDown` is the part of `SetupEnds` that needs no fairness: every step, the device's
  included, lowers the steps of the script still to come (`CallsLeft`), or leaves these and
  lowers the tries of the call (`TriesLeft`), or leaves both and lowers the work of this try
  (`WorkLeft`: the commands to write, to shift and to end, and the bytes to read). It needs
  `CodecInv`, since only a controller that has nothing left after the stop (`PlaceIs`) or after
  a refusal (`Empty`) cannot start again within a try.
* The chomp and the scan (`SignalProofs`), for words of any width, chomps of any length and
  pictures of any size whose sync begins after the lines shown (`ChompAssumption`,
  `ScanAssumption`). `EarsHearTheSame` needs to know in which half of a period the codec
  is and how far each register has shifted (`Halves`): the one that speaks holds
  the sample it loaded in the half before, even while that changes.
  `ChompIsPlayedThrough` needs how far the address is ahead of the sample in either build
  (`Position`), `FramesOnlyBetweenPictures` that the sync is a pixel late (`ScanInv`).

Some theorems state invariants that no run names any more, since the runs have a property that
implies them or reaches further: `PacTypeCorrect`, `PacLooksDefined`,
`GhostTypeCorrect`, `GhostLooksDefined`, `GameTypeCorrect`, `GameScoreSettles` (its abstract form is
in `GameRules`), `ReceiveErrorNever`, `AlarmsWaitAhead`. `FramesOnlyBetweenPictures` is proved for all numbers
that meet `ScanAssumption`, and nothing else moves the edges of the sync, so no run checks it again.

Only model-checked: all liveness (`PatrolGoesRound`, `UnplugStopsPolling`, `TransfersEnd`,
`ReportArrives`, `SetupEnds`, `HostHearsAll`, `ReadWakes`, `WriteReturns`, the
liveness part of `KeepsTheRules`), since fairness and ENABLED are out of the prover's reach, and
`EvenPace`, which depends on the shape of the shipped maze and on how it is played. Every other property of a passing run is a theorem.

## 5. Plan

Done: the game, the USB host, its transfers, the codec's set-up over the I2C
driver, the console over the system clock, the chomp, the scan and the picture.
What could follow:

1. A control transfer of `UsbHost` as the abstraction that `Transfer` implements, so
   that the two are checked as one.
2. What a retried read of the codec still promises: that it changes no register is in
   `SetUpInOrder`; which registers it may return is open.

## 6. Not modelled, and why

* `HexDriver.sv` and the sprite, map and font ROMs: constant tables. A model could only
  repeat them.
* The interrupt-driven calls of the I2C driver and 10-bit addresses: the program calls neither.
  Its timing registers count clock cycles, of which the model has none.
* The file layer of the HAL (`alt_open`, `alt_write`, ...), `alt_log_printf.c` and the
  start-up code: a table of function pointers to the drivers, or not built in this
  configuration.
* `system.h`, the `*_regs.h` headers, `sgtl5000.h`, `FinalProject1_soc`: generated or vendor
  declarations of addresses, masks and wires. They are the larger part of the files
  counted as source and have no behaviour of their own; of the generated
  hardware, the state machine of the I2C controller and the JTAG UART are modelled
  because the drivers depend on their timing.
* The keycode register is sampled by the game without a synchroniser
  (`FinalProject1.sv:233`); metastability is not something TLC can speak about.
* `errorflag`, LEDs and the text that is printed.
