---------------------------- MODULE UartProofs -----------------------------
(***************************************************************************)
(* Alarms are called exactly on time, for any number of them, any          *)
(* intervals and any range of the clock: the time and the flag of an alarm *)
(* together determine the ticks it still waits for (Left), which every     *)
(* tick lowers by one.  The driver of the console never sleeps through a   *)
(* byte, and loses none, for buffers of any size.                          *)
(***************************************************************************)
EXTENDS JtagUart, TLAPS

\* The wrap of a sum of two values of the clock.
LEMMA Wrapped ==
  ASSUME NEW x \in Nat, x < 2 * TickRange
  PROVE  x % TickRange = IF x < TickRange THEN x ELSE x - TickRange
<1> USE AlarmAssumption
<1>1. CASE x < TickRange
  BY <1>1
<1>2. CASE ~ (x < TickRange)
  <2> DEFINE y == x - TickRange
  <2>1. y \in Nat /\ y < TickRange /\ x = y + TickRange
    BY <1>2
  <2>2. y % TickRange = y
    BY <2>1
  <2>3. (y + TickRange) % TickRange = y % TickRange
    BY <2>1
  <2> QED BY <1>2, <2>1, <2>2, <2>3
<1> QED BY <1>1, <1>2

Clock == 0..TickRange - 1

AlarmRecord == [running : BOOLEAN, time : Clock, rollover : BOOLEAN]

\* The clock after a tick.
LEMMA NextTick ==
  ASSUME nticks \in Clock
  PROVE  /\ now \in Clock
         /\ now = IF nticks = TickRange - 1 THEN 0 ELSE nticks + 1
<1>1. nticks + 1 \in Nat /\ nticks + 1 < 2 * TickRange
  BY AlarmAssumption DEF Clock
<1> QED BY <1>1, Wrapped, AlarmAssumption DEF now, Clock

\* An alarm set d ticks ahead has a time of the clock, and its flag is right.
LEMMA SetAhead ==
  ASSUME NEW since \in Clock, NEW d \in 1..TickRange - 1
  PROVE  LET alarm == Set((since + d) % TickRange, since)
         IN  /\ alarm \in AlarmRecord /\ alarm.running
             /\ alarm.rollover => alarm.time + TickRange - since = d
             /\ ~ alarm.rollover => alarm.time - since = d
<1> DEFINE sum == since + d
<1>1. sum \in Nat /\ sum < 2 * TickRange
  BY AlarmAssumption DEF Clock
<1>2. sum % TickRange = IF sum < TickRange THEN sum ELSE sum - TickRange
  BY <1>1, Wrapped
<1>3. sum % TickRange \in Clock
  BY <1>1, <1>2, AlarmAssumption DEF Clock
<1>4. (sum % TickRange < since) <=> ~ (sum < TickRange)
  BY <1>1, <1>2, AlarmAssumption DEF Clock
<1> DEFINE time == sum % TickRange
           alarm == Set(time, since)
<1> HIDE DEF time
<1>5. alarm.running /\ alarm.time = time /\ (alarm.rollover <=> time < since)
  BY DEF Set
<1>6. alarm \in AlarmRecord
  <2>1. (time < since) \in BOOLEAN
    BY <1>3 DEF time
  <2> QED BY <1>3, <2>1, Zenon DEF Set, AlarmRecord, time
<1> HIDE DEF alarm
<1>7. alarm.rollover => alarm.time + TickRange - since = d
  BY <1>1, <1>2, <1>4, <1>5, AlarmAssumption DEF Clock, time
<1>8. ~ alarm.rollover => alarm.time - since = d
  BY <1>1, <1>2, <1>4, <1>5, AlarmAssumption DEF Clock, time
<1> QED BY <1>5, <1>6, <1>7, <1>8 DEF alarm, time

LEMMA OffIsAlarm == Off \in AlarmRecord /\ ~ Off.running
<1>1. 0 \in Clock
  BY AlarmAssumption DEF Clock
<1> QED BY <1>1, Zenon DEF Off, AlarmRecord

AlarmInv == AlarmTypeOK /\ WaitsAhead

\* An alarm that a tick calls back is due at that tick.
LEMMA CalledWhenDue ==
  ASSUME nticks \in Clock, NEW alarm \in AlarmRecord, alarm.running,
         Left(alarm) \in 1..TickRange - 1
  PROVE  /\ Waits(alarm, now) <=> Left(alarm) > 1
         /\ ~ Waits(alarm, now) => alarm.time = now
<1>1. alarm.time \in Clock /\ alarm.rollover \in BOOLEAN
  BY DEF AlarmRecord
<1>2. now \in Clock /\ now = IF nticks = TickRange - 1 THEN 0 ELSE nticks + 1
  BY NextTick
<1>3. CASE alarm.rollover
  <2>1. Left(alarm) = alarm.time + TickRange - nticks
    BY <1>3 DEF Left
  <2>2. Waits(alarm, now) <=> (now # 0 \/ alarm.time > now)
    BY <1>3 DEF Waits
  <2> QED BY <1>1, <1>2, <2>1, <2>2, AlarmAssumption DEF Clock
<1>4. CASE ~ alarm.rollover
  <2>1. Left(alarm) = alarm.time - nticks
    BY <1>4 DEF Left
  <2>2. Waits(alarm, now) <=> alarm.time > now
    BY <1>4 DEF Waits
  <2> QED BY <1>1, <1>2, <2>1, <2>2, AlarmAssumption DEF Clock
<1> QED BY <1>3, <1>4

\* What a tick makes of one alarm.
LEMMA TickOfOne ==
  ASSUME nticks \in Clock, NEW alarm \in AlarmRecord,
         alarm.running => Left(alarm) \in 1..TickRange - 1,
         NEW answer \in Clock, nticks' = now
  PROVE  LET next == After(alarm, answer)
             left == CASE ~ next.running -> 0
                       [] next.running /\ next.rollover -> next.time + TickRange - nticks'
                       [] OTHER -> next.time - nticks'
         IN  /\ next \in AlarmRecord
             /\ next.running => left \in 1..TickRange - 1
             /\ left = CASE Left(alarm) = 0 -> 0
                         [] Left(alarm) = 1 -> answer
                         [] OTHER -> Left(alarm) - 1
<1>1. now \in Clock /\ now = IF nticks = TickRange - 1 THEN 0 ELSE nticks + 1
  BY NextTick
<1>2. alarm.time \in Clock /\ alarm.rollover \in BOOLEAN /\ alarm.running \in BOOLEAN
  BY DEF AlarmRecord
<1>3. CASE ~ alarm.running
  <2>1. After(alarm, answer) = alarm
    BY <1>3 DEF After
  <2>2. Left(alarm) = 0
    BY <1>3 DEF Left
  <2> QED BY <1>3, <2>1, <2>2
<1>4. CASE alarm.running /\ Waits(alarm, now)
  <2> DEFINE next == After(alarm, answer)
  <2>1. next = [alarm EXCEPT !.rollover = alarm.rollover /\ now # 0]
    BY <1>4 DEF After
  <2>2. /\ next \in AlarmRecord /\ next.running /\ next.time = alarm.time
        /\ next.rollover <=> (alarm.rollover /\ now # 0)
    BY <1>4, <2>1 DEF AlarmRecord
  <2>3. Left(alarm) \in 2..TickRange - 1
    BY <1>4, CalledWhenDue, AlarmAssumption
  <2>4. CASE alarm.rollover /\ now # 0
    <3>1. next.rollover /\ Left(alarm) = alarm.time + TickRange - nticks
      BY <1>4, <2>2, <2>4 DEF Left
    <3> QED BY <1>1, <1>2, <2>2, <2>3, <2>4, <3>1, AlarmAssumption DEF Clock
  <2>5. CASE alarm.rollover /\ now = 0
    <3>1. ~ next.rollover /\ Left(alarm) = alarm.time + TickRange - nticks
      BY <1>4, <2>2, <2>5 DEF Left
    <3>2. nticks = TickRange - 1
      BY <1>1, <2>5, AlarmAssumption DEF Clock
    <3> QED BY <1>1, <1>2, <2>2, <2>3, <2>5, <3>1, <3>2, AlarmAssumption DEF Clock
  <2>6. CASE ~ alarm.rollover
    <3>1. ~ next.rollover /\ Left(alarm) = alarm.time - nticks
      BY <1>4, <2>2, <2>6 DEF Left
    <3>2. nticks # TickRange - 1
      BY <1>2, <2>3, <3>1, AlarmAssumption DEF Clock
    <3> QED BY <1>1, <1>2, <2>2, <2>3, <2>6, <3>1, <3>2, AlarmAssumption DEF Clock
  <2> QED BY <2>4, <2>5, <2>6
<1>5. CASE alarm.running /\ ~ Waits(alarm, now)
  <2>1. alarm.time = now /\ Left(alarm) = 1
    BY <1>5, CalledWhenDue, AlarmAssumption
  <2>2. CASE answer = 0
    <3>1. After(alarm, answer) = Off
      BY <1>5, <2>2 DEF After
    <3>2. Off \in AlarmRecord /\ ~ Off.running
      BY OffIsAlarm
    <3> QED BY <2>1, <2>2, <3>1, <3>2
  <2>3. CASE answer # 0
    <3>1. After(alarm, answer) = Set((now + answer) % TickRange, now)
      BY <1>5, <2>1, <2>3 DEF After
    <3>2. answer \in 1..TickRange - 1
      BY <2>3, AlarmAssumption DEF Clock
    <3> DEFINE next == Set((now + answer) % TickRange, now)
    <3>3. /\ next \in AlarmRecord /\ next.running
          /\ next.rollover => next.time + TickRange - now = answer
          /\ ~ next.rollover => next.time - now = answer
      BY <1>1, <3>2, SetAhead
    <3> HIDE DEF next
    <3> QED BY <2>1, <2>3, <3>1, <3>2, <3>3 DEF next
  <2> QED BY <2>2, <2>3
<1> QED BY <1>3, <1>4, <1>5

-----------------------------------------------------------------------------
\* The steps of Alarms.

Counts == [a \in Alarms |-> Left(alarms[a])]

LEMMA AlarmStart ==
  ASSUME AlarmInv, NEW a \in Alarms, NEW ticks \in 0..TickRange - 2, alt_alarm_start(a, ticks)
  PROVE  /\ AlarmInv'
         /\ Counts[a] = 0 /\ Counts' = [Counts EXCEPT ![a] = ticks + 1]
<1> USE DEF AlarmInv
<1>1. nticks \in Clock /\ alarms \in [Alarms -> AlarmRecord]
  BY DEF AlarmTypeOK, AlarmRecord, Clock
<1>2. ticks + 1 \in 1..TickRange - 1 /\ ticks + nticks + 1 = nticks + (ticks + 1)
  BY <1>1, AlarmAssumption DEF Clock
<1> DEFINE started == Started(ticks)
<1>3. /\ started \in AlarmRecord /\ started.running
      /\ started.rollover => started.time + TickRange - nticks = ticks + 1
      /\ ~ started.rollover => started.time - nticks = ticks + 1
  <2>1. started = Set((nticks + (ticks + 1)) % TickRange, nticks)
    BY <1>2 DEF Started
  <2> QED BY <1>1, <1>2, <2>1, SetAhead
<1> HIDE DEF started
<1>4. /\ alarms' = [alarms EXCEPT ![a] = started] /\ nticks' = nticks
      /\ ~ alarms[a].running
  BY DEF alt_alarm_start, started
<1>5. alarms' \in [Alarms -> AlarmRecord]
  BY <1>1, <1>3, <1>4
<1>6. Left(alarms[a]) = 0 /\ Left(alarms[a])' = ticks + 1
  BY <1>1, <1>3, <1>4, <1>5 DEF Left
<1>7. \A b \in Alarms \ {a} : alarms'[b] = alarms[b] /\ Left(alarms[b])' = Left(alarms[b])
  BY <1>1, <1>4 DEF Left
<1>8. WaitsAhead'
  BY <1>2, <1>5, <1>6, <1>7 DEF WaitsAhead
<1>9. AlarmTypeOK'
  BY <1>1, <1>4, <1>5 DEF AlarmTypeOK, AlarmRecord, Clock
<1> QED BY <1>6, <1>7, <1>8, <1>9 DEF Counts

LEMMA AlarmStop ==
  ASSUME AlarmInv, NEW a \in Alarms, alt_alarm_stop(a)
  PROVE  AlarmInv' /\ Counts' = [Counts EXCEPT ![a] = 0]
<1> USE DEF AlarmInv
<1>1. nticks \in Clock /\ alarms \in [Alarms -> AlarmRecord]
  BY DEF AlarmTypeOK, AlarmRecord, Clock
<1>2. alarms' = [alarms EXCEPT ![a] = Off] /\ nticks' = nticks
  BY DEF alt_alarm_stop
<1>3. alarms' \in [Alarms -> AlarmRecord]
  BY <1>1, <1>2, OffIsAlarm
<1>4. ~ alarms'[a].running /\ Left(alarms[a])' = 0
  BY <1>1, <1>2, OffIsAlarm DEF Left
<1>5. \A b \in Alarms \ {a} : alarms'[b] = alarms[b] /\ Left(alarms[b])' = Left(alarms[b])
  BY <1>1, <1>2 DEF Left
<1>6. WaitsAhead'
  BY <1>3, <1>4, <1>5 DEF WaitsAhead
<1>7. AlarmTypeOK'
  BY <1>1, <1>2, <1>3 DEF AlarmTypeOK, AlarmRecord, Clock
<1> QED BY <1>4, <1>5, <1>6, <1>7 DEF Counts

LEMMA AlarmTick ==
  ASSUME AlarmInv, NEW answer \in [Alarms -> Clock], alt_tick(answer)
  PROVE  /\ AlarmInv'
         /\ Counts' = [a \in Alarms |-> CASE Counts[a] = 0 -> 0
                                          [] Counts[a] = 1 -> answer[a]
                                          [] OTHER -> Counts[a] - 1]
<1> USE DEF AlarmInv
<1>1. nticks \in Clock /\ alarms \in [Alarms -> AlarmRecord]
  BY DEF AlarmTypeOK, AlarmRecord, Clock
<1>2. nticks' = now /\ alarms' = [a \in Alarms |-> After(alarms[a], answer[a])]
  BY DEF alt_tick
<1>3. now \in Clock
  BY <1>1, NextTick
<1>4. ASSUME NEW a \in Alarms
      PROVE  /\ alarms'[a] \in AlarmRecord
             /\ alarms'[a].running => Left(alarms[a])' \in 1..TickRange - 1
             /\ Left(alarms[a])' = CASE Left(alarms[a]) = 0 -> 0
                                      [] Left(alarms[a]) = 1 -> answer[a]
                                      [] OTHER -> Left(alarms[a]) - 1
  <2>1. alarms[a] \in AlarmRecord /\ answer[a] \in Clock
    BY <1>1
  <2>2. alarms[a].running => Left(alarms[a]) \in 1..TickRange - 1
    BY DEF WaitsAhead
  <2>3. alarms'[a] = After(alarms[a], answer[a])
    BY <1>2
  <2> QED BY <1>1, <1>2, <2>1, <2>2, <2>3, TickOfOne DEF Left
<1>5. WaitsAhead'
  BY <1>4 DEF WaitsAhead
<1>6. AlarmTypeOK'
  BY <1>2, <1>3, <1>4 DEF AlarmTypeOK, AlarmRecord, Clock
<1> QED BY <1>4, <1>5, <1>6 DEF Counts

-----------------------------------------------------------------------------
\* The alarms of the composed system.

LEMMA UartAlarmInit ==
  ASSUME UartInit
  PROVE  AlarmInv
<1>1. 0 \in Clock /\ TicksPerSecond + 1 \in 1..TickRange - 1 /\ nticks = 0
  BY AlarmAssumption, UartAssumption DEF Clock, UartInit
<1> DEFINE started == Started(TicksPerSecond)
<1>2. /\ started \in AlarmRecord /\ started.running
      /\ started.rollover => started.time + TickRange - 0 = TicksPerSecond + 1
      /\ ~ started.rollover => started.time - 0 = TicksPerSecond + 1
  <2>1. started = Set((0 + (TicksPerSecond + 1)) % TickRange, 0)
    BY <1>1, UartAssumption DEF Started
  <2> QED BY <1>1, <2>1, SetAhead
<1> HIDE DEF started
<1>3. /\ alarms \in [Alarms -> AlarmRecord]
      /\ \A a \in Alarms : alarms[a] = IF a = "uart" THEN started ELSE Off
  BY <1>2, OffIsAlarm DEF UartInit, started
<1>4. \A a \in Alarms : alarms[a].running => alarms[a] = started
  BY <1>3, OffIsAlarm
<1>5. started.running => Left(started) \in 1..TickRange - 1
  BY <1>1, <1>2 DEF Left
<1>6. WaitsAhead
  BY <1>4, <1>5 DEF WaitsAhead
<1>7. AlarmTypeOK
  BY <1>1, <1>3 DEF AlarmTypeOK, AlarmRecord, Clock
<1> QED BY <1>6, <1>7 DEF AlarmInv

\* Only the clock and the users of alarms touch them.
LEMMA OthersLeaveAlarms ==
  ASSUME [UartNext]_vars
  PROVE  Tick \/ OtherAlarms \/ UNCHANGED alarmVars
<1>1. CASE UNCHANGED vars
  BY <1>1 DEF vars
<1>2. CASE CallWrite \/ CallRead \/ CallClose \/ \E arg \in play.timeouts : SetTimeout(arg)
  BY <1>2 DEF CallWrite, CallRead, CallClose, Call, SetTimeout
<1>3. CASE Program
  BY <1>3 DEF Program, WriteLooks, WriteCopies, WriteMoves, WriteKicks, WriteAwaits,
     ReadLooks, ReadCopies, ReadMoves, ReadAwaits, ReadEnables, Close
<1>4. CASE Interrupt
  BY <1>4 DEF Interrupt, IrqEnter, IrqControl, IrqFull, IrqByte, IrqNoByte, IrqWrite
<1>5. CASE HostTypes \/ HostPauses \/ HostTakes \/ HostLeaves \/ HostComes
  BY <1>5 DEF HostTypes, HostPauses, HostTakes, HostLeaves, HostComes
<1> QED BY <1>1, <1>2, <1>3, <1>4, <1>5 DEF UartNext

LEMMA UartAlarmStep ==
  ASSUME AlarmInv, [UartNext]_vars
  PROVE  AlarmInv' /\ [Ahead!Next]_Counts
<1>1. CASE Tick
  <2>1. PICK answer \in Answers : alt_tick(answer)
    BY <1>1 DEF Tick
  <2>2. answer \in [Alarms -> Clock]
    BY <2>1 DEF Answers, Clock
  <2>3. /\ AlarmInv'
        /\ Counts' = [a \in Alarms |-> CASE Counts[a] = 0 -> 0
                                         [] Counts[a] = 1 -> answer[a]
                                         [] OTHER -> Counts[a] - 1]
    BY <2>1, <2>2, AlarmTick
  <2>4. Ahead!Elapse(answer)
    BY <2>3 DEF Ahead!Elapse, Counts
  <2> QED BY <2>2, <2>3, <2>4 DEF Ahead!Next, Clock
<1>2. CASE OtherAlarms
  <2>1. PICK a \in Alarms :
          alt_alarm_stop(a) \/ \E ticks \in 0..TickRange - 2 : alt_alarm_start(a, ticks)
    BY <1>2 DEF OtherAlarms
  <2>2. CASE alt_alarm_stop(a)
    <3>1. AlarmInv' /\ Counts' = [Counts EXCEPT ![a] = 0]
      BY <2>2, AlarmStop
    <3>2. Ahead!Cancel(a)
      BY <3>1 DEF Ahead!Cancel, Counts
    <3> QED BY <3>1, <3>2 DEF Ahead!Next
  <2>3. ASSUME NEW ticks \in 0..TickRange - 2, alt_alarm_start(a, ticks)
        PROVE  AlarmInv' /\ [Ahead!Next]_Counts
    <3>1. AlarmInv' /\ Counts[a] = 0 /\ Counts' = [Counts EXCEPT ![a] = ticks + 1]
      BY <2>3, AlarmStart
    <3>2. Ahead!Begin(a, ticks)
      BY <3>1 DEF Ahead!Begin, Counts
    <3> QED BY <3>1, <3>2 DEF Ahead!Next
  <2> QED BY <2>1, <2>2, <2>3
<1>3. CASE UNCHANGED alarmVars
  <2>1. nticks' = nticks /\ alarms' = alarms
    BY <1>3 DEF alarmVars
  <2>2. AlarmInv'
    BY <2>1 DEF AlarmInv, AlarmTypeOK, WaitsAhead, Left
  <2>3. Counts' = Counts
    BY <2>1 DEF Counts, Left
  <2> QED BY <2>2, <2>3
<1> QED BY <1>1, <1>2, <1>3, OthersLeaveAlarms

\* The times and the flags of alarms never point back, however often the clock
\* wraps (alt_alarm_start, alt_tick).
THEOREM AlarmsWaitAhead == UartSpec => []WaitsAhead
<1>1. UartInit => AlarmInv
  BY UartAlarmInit
<1>2. AlarmInv /\ [UartNext]_vars => AlarmInv'
  BY UartAlarmStep
<1>3. AlarmInv => WaitsAhead
  BY DEF AlarmInv
<1> QED BY <1>1, <1>2, <1>3, PTL DEF UartSpec

\* Every alarm is called after exactly the ticks that were asked for: alt_tick
\* implements the abstract Countdown.
THEOREM AlarmsAreCalledOnTime == UartSpec => CalledOnTime
<1>1. UartInit => AlarmInv
  BY UartAlarmInit
<1>2. AlarmInv => Ahead!CountdownInit
  <2>1. SUFFICES ASSUME AlarmInv, NEW a \in Alarms
                 PROVE  Left(alarms[a]) \in 0..TickRange - 1
    BY DEF Ahead!CountdownInit
  <2>2. CASE alarms[a].running
    BY <2>1, <2>2 DEF AlarmInv, WaitsAhead
  <2>3. CASE ~ alarms[a].running
    BY <2>3, AlarmAssumption DEF Left
  <2> QED BY <2>2, <2>3
<1>3. AlarmInv /\ [UartNext]_vars => AlarmInv' /\ [Ahead!Next]_Counts
  BY UartAlarmStep
<1> QED BY <1>1, <1>2, <1>3, PTL DEF UartSpec, CalledOnTime, Ahead!CountdownSpec, Counts

-----------------------------------------------------------------------------
\* The driver.  That nothing sleeps is inductive with the types and with what
\* the interrupt routine relies on: it only reads where there was a byte, which
\* is in rx_buf when the FIFO is empty.

TypesOfRecord ==
  /\ timeout \in 2..INT_MAX - 1 /\ host_inactive \in 0..INT_MAX - 2
  /\ irq_enable \subseteq {"RE", "WE"}
  /\ rx_in \in 0..BUF_LEN - 1 /\ rx_out \in 0..BUF_LEN - 1
  /\ tx_in \in 0..BUF_LEN - 1 /\ tx_out \in 0..BUF_LEN - 1
  /\ tx_buf \in [0..BUF_LEN - 1 -> Nat]

TypesOfProgram ==
  /\ n \in Nat /\ todo \in Nat /\ moved \in Nat /\ printed \in Nat
  /\ pc \in {"copy_in", "move_in"} => n \in 1..BUF_LEN - tx_in
  /\ pc \in {"copy_out", "move_out"} => n \in 1..BUF_LEN - rx_out
  /\ pc \in {"copy_in", "move_in", "copy_out", "move_out"} => n <= todo

TypesOfRoutine == control \in [RAVAIL : BOOLEAN, WI : BOOLEAN, WSPACE : 0..WRITE_DEPTH]

TypesOfWires ==
  /\ wfifo \in Seq(Nat) /\ Len(wfifo) <= WRITE_DEPTH
  /\ rfifo \in Seq(Nat) /\ Len(rfifo) <= READ_DEPTH
  /\ pause_irq => rfifo # <<>>

TypesOfHost ==
  /\ typed \in Nat
  /\ play \in [tx : Nat, rx : Nat, leaves : Nat, timeouts : SUBSET Nat, timers : BOOLEAN]

Types == TypesOfRecord /\ TypesOfProgram /\ TypesOfRoutine /\ TypesOfWires /\ TypesOfHost

ReadsWhereByte == isr = "read" => rx_in # rx_out \/ rfifo # <<>>

UartInv == Types /\ SendIsAwake /\ ReceiveIsAwake /\ ReadsWhereByte

LEMMA TypesAreOK == Types /\ AlarmTypeOK => UartTypeOK
BY DEF Types, TypesOfRecord, TypesOfProgram, TypesOfWires, UartTypeOK

LEMMA UartInitially == UartInit => UartInv
<1> SUFFICES ASSUME UartInit PROVE UartInv
  OBVIOUS
<1> USE UartAssumption
<1>1. TypesOfRecord /\ TypesOfProgram
  BY DEF UartInit, TypesOfRecord, TypesOfProgram
<1>2. TypesOfRoutine /\ TypesOfWires /\ TypesOfHost
  BY DEF UartInit, TypesOfRoutine, TypesOfWires, TypesOfHost, NoControl
<1> QED BY <1>1, <1>2 DEF UartInit, UartInv, Types, SendIsAwake, ReceiveIsAwake, ReadsWhereByte

\* A step that leaves a part of the state alone leaves its types alone.
LEMMA SameTypes ==
  ASSUME Types
  PROVE  /\ UNCHANGED record => TypesOfRecord'
         /\ UNCHANGED <<program, record>> => TypesOfProgram'
         /\ UNCHANGED routine => TypesOfRoutine'
         /\ UNCHANGED wires => TypesOfWires'
         /\ UNCHANGED host => TypesOfHost'
<1>1. UNCHANGED record => TypesOfRecord'
  BY DEF record, Types, TypesOfRecord
<1>2. UNCHANGED <<program, record>> => TypesOfProgram'
  BY DEF record, program, Types, TypesOfProgram
<1>3. UNCHANGED routine => TypesOfRoutine'
  BY DEF routine, Types, TypesOfRoutine
<1>4. UNCHANGED wires => TypesOfWires'
  BY DEF wires, Types, TypesOfWires
<1>5. UNCHANGED host => TypesOfHost'
  BY DEF host, Types, TypesOfHost
<1> QED BY <1>1, <1>2, <1>3, <1>4, <1>5

\* What is awake stays so where nothing of it changes.
LEMMA SameAwake ==
  ASSUME SendIsAwake, ReceiveIsAwake, ReadsWhereByte, UNCHANGED <<record, program, isr>>,
         rfifo # <<>> => rfifo' # <<>>
  PROVE  SendIsAwake' /\ ReceiveIsAwake' /\ ReadsWhereByte'
BY DEF record, program, SendIsAwake, ReceiveIsAwake, ReadsWhereByte, writing

\* The host.
LEMMA HostStep ==
  ASSUME UartInv, HostTypes \/ HostPauses \/ HostTakes \/ HostLeaves \/ HostComes
  PROVE  UartInv'
<1> USE UartAssumption DEF UartInv
<1>1. UNCHANGED <<record, program, routine>>
  BY DEF HostTypes, HostPauses, HostTakes, HostLeaves, HostComes
<1>2. isr' = isr
  BY <1>1 DEF routine
<1>3. CASE HostTypes
  <2>1. typed \in Nat /\ rfifo \in Seq(Nat) /\ Len(rfifo) < READ_DEPTH
    BY <1>3 DEF HostTypes, TypesByte, Types, TypesOfHost, TypesOfWires
  <2>2. /\ rfifo' = Append(rfifo, typed + 1) /\ typed' = typed + 1
        /\ wfifo' = wfifo /\ pause_irq' = pause_irq /\ play' = play
    BY <1>3 DEF HostTypes, TypesByte
  <2>3. rfifo' \in Seq(Nat) /\ Len(rfifo') = Len(rfifo) + 1 /\ rfifo' # <<>>
    BY <2>1, <2>2
  <2>4. TypesOfWires' /\ TypesOfHost'
    BY SMTT(30), <2>1, <2>2, <2>3 DEF Types, TypesOfWires, TypesOfHost
  <2> QED BY <1>1, <1>2, <2>3, <2>4, SameTypes, SameAwake DEF Types
<1>4. CASE HostPauses
  <2>1. TypesOfWires'
    BY <1>4 DEF HostPauses, Types, TypesOfWires
  <2>2. UNCHANGED host /\ rfifo' = rfifo
    BY <1>4 DEF HostPauses
  <2> QED BY <1>1, <1>2, <2>1, <2>2, SameTypes, SameAwake DEF Types
<1>5. CASE HostTakes
  <2>1. wfifo \in Seq(Nat) /\ wfifo # <<>> /\ Len(wfifo) <= WRITE_DEPTH
    BY <1>5 DEF HostTakes, Types, TypesOfWires
  <2>2. /\ wfifo' = Tail(wfifo) /\ rfifo' = rfifo /\ pause_irq' = pause_irq
        /\ typed' = typed /\ play' = play
    BY <1>5 DEF HostTakes
  <2>3. wfifo' \in Seq(Nat) /\ Len(wfifo') = Len(wfifo) - 1
    BY <2>1, <2>2
  <2>4. TypesOfWires' /\ TypesOfHost'
    BY <2>1, <2>2, <2>3 DEF Types, TypesOfWires, TypesOfHost
  <2> QED BY <1>1, <1>2, <2>2, <2>4, SameTypes, SameAwake DEF Types
<1>6. CASE HostLeaves \/ HostComes
  <2>1. UNCHANGED wires /\ typed' = typed
    BY <1>6 DEF HostLeaves, HostComes
  <2>2. play' = play \/ (play.leaves > 0 /\ play' = [play EXCEPT !.leaves = @ - 1])
    BY <1>6 DEF HostLeaves, HostComes
  <2>3. TypesOfHost'
    BY <2>1, <2>2 DEF Types, TypesOfHost
  <2>4. rfifo' = rfifo
    BY <2>1 DEF wires
  <2> QED BY <1>1, <1>2, <2>1, <2>3, <2>4, SameTypes, SameAwake DEF Types
<1> QED BY <1>3, <1>4, <1>5, <1>6

\* The next slot of a circular buffer is another one.
LEMMA NextSlot ==
  ASSUME NEW i \in 0..BUF_LEN - 1
  PROVE  (i + 1) % BUF_LEN \in 0..BUF_LEN - 1 /\ (i + 1) % BUF_LEN # i
<1> USE UartAssumption
<1>1. CASE i = BUF_LEN - 1
  <2>1. i + 1 = BUF_LEN
    BY <1>1
  <2>2. BUF_LEN % BUF_LEN = 0
    OBVIOUS
  <2> QED BY <1>1, <2>1, <2>2
<1>2. CASE i # BUF_LEN - 1
  <2>1. i + 1 \in 0..BUF_LEN - 1
    BY <1>2
  <2>2. (i + 1) % BUF_LEN = i + 1
    BY <2>1
  <2> QED BY <2>1, <2>2
<1> QED BY <1>1, <1>2

\* What is queued between two slots, and where it ends.
LEMMA QueuedBetween ==
  ASSUME NEW in \in 0..BUF_LEN - 1, NEW out \in 0..BUF_LEN - 1
  PROVE  /\ Queued(in, out) \in 0..BUF_LEN - 1
         /\ (out + Queued(in, out)) % BUF_LEN = in
<1> USE UartAssumption DEF Queued
<1>1. CASE in >= out
  <2>1. in - out \in 0..BUF_LEN - 1
    BY <1>1
  <2>2. (in - out) % BUF_LEN = in - out
    BY <2>1
  <2>3. out + Queued(in, out) = in
    BY <2>2
  <2> QED BY <2>1, <2>2, <2>3
<1>2. CASE in < out
  <2>1. in - out + BUF_LEN \in 0..BUF_LEN - 1
    BY <1>2
  <2>2. (in - out + BUF_LEN) % BUF_LEN = in - out + BUF_LEN
    BY <2>1
  <2>3. (in - out + BUF_LEN) % BUF_LEN = (in - out) % BUF_LEN
    OBVIOUS
  <2>4. out + Queued(in, out) = in + BUF_LEN
    BY <2>2, <2>3
  <2>5. (in + BUF_LEN) % BUF_LEN = in % BUF_LEN
    OBVIOUS
  <2>6. in % BUF_LEN = in
    OBVIOUS
  <2> QED BY <2>1, <2>2, <2>3, <2>4, <2>5, <2>6
<1> QED BY <1>1, <1>2

LEMMA Remainder ==
  ASSUME NEW x \in Nat
  PROVE  x % BUF_LEN \in 0..BUF_LEN - 1
BY UartAssumption

\* What the FIFO takes of the bytes written to it.
LEMMA FittingFits ==
  ASSUME NEW bytes \in Seq(Nat)
  PROVE  Fitting(bytes) \in Seq(Nat) /\ Len(Fitting(bytes)) <= WRITE_DEPTH
<1> USE UartAssumption
<1> DEFINE len == Least(Len(bytes), WRITE_DEPTH)
<1>1. len \in 0..Len(bytes) /\ len <= WRITE_DEPTH
  BY DEF Least
<1>2. Fitting(bytes) = SubSeq(bytes, 1, len)
  BY DEF Fitting
<1> HIDE DEF len
<1>3. SubSeq(bytes, 1, len) \in Seq(Nat) /\ Len(SubSeq(bytes, 1, len)) = len
  BY <1>1
<1> QED BY <1>1, <1>2, <1>3

\* The interrupt routine.
LEMMA InterruptStep ==
  ASSUME UartInv, Interrupt
  PROVE  UartInv'
<1> USE UartAssumption DEF UartInv
<1>1. CASE IrqEnter
  <2>1. /\ UNCHANGED <<record, program, wires, host>>
        /\ control' = control /\ isr' = "control"
    BY <1>1 DEF IrqEnter
  <2>2. TypesOfRoutine'
    BY <2>1 DEF Types, TypesOfRoutine
  <2>3. SendIsAwake' /\ ReceiveIsAwake' /\ ReadsWhereByte'
    BY <2>1 DEF SendIsAwake, ReceiveIsAwake, ReadsWhereByte, writing, record, program
  <2> QED BY <2>1, <2>2, <2>3, SameTypes DEF Types
<1>2. CASE IrqControl
  <2>1. UNCHANGED <<record, program, wires, host>>
    BY <1>2 DEF IrqControl
  <2>2. WRITE_DEPTH - Len(wfifo) \in 0..WRITE_DEPTH
    BY DEF Types, TypesOfWires
  <2>3. TypesOfRoutine'
    <3>1. ipen_AE \in BOOLEAN
      BY DEF ipen_AE
    <3>2. \/ control' = [RAVAIL |-> TRUE, WI |-> ipen_AE, WSPACE |-> WRITE_DEPTH - Len(wfifo)]
          \/ control' = [RAVAIL |-> FALSE, WI |-> FALSE, WSPACE |-> 0]
      BY <1>2 DEF IrqControl, NoControl
    <3>3. 0 \in 0..WRITE_DEPTH
      OBVIOUS
    <3>4. \A r, w \in BOOLEAN : \A s \in 0..WRITE_DEPTH :
            [RAVAIL |-> r, WI |-> w, WSPACE |-> s]
              \in [RAVAIL : BOOLEAN, WI : BOOLEAN, WSPACE : 0..WRITE_DEPTH]
      BY Zenon
    <3>5. /\ [RAVAIL |-> TRUE, WI |-> ipen_AE, WSPACE |-> WRITE_DEPTH - Len(wfifo)]
               \in [RAVAIL : BOOLEAN, WI : BOOLEAN, WSPACE : 0..WRITE_DEPTH]
          /\ [RAVAIL |-> FALSE, WI |-> FALSE, WSPACE |-> 0]
               \in [RAVAIL : BOOLEAN, WI : BOOLEAN, WSPACE : 0..WRITE_DEPTH]
      BY <2>2, <3>1, <3>3, <3>4, Zenon
    <3> QED BY <3>2, <3>5, Zenon DEF TypesOfRoutine
  <2>4. isr' = "read" => ipen_AF
    BY <1>2 DEF IrqControl
  <2>5. ipen_AF => rfifo # <<>>
    BY DEF ipen_AF, Types, TypesOfWires
  <2>6. SendIsAwake' /\ ReceiveIsAwake'
    BY <2>1 DEF SendIsAwake, ReceiveIsAwake, writing, record, program
  <2>7. ReadsWhereByte'
    BY <2>1, <2>4, <2>5 DEF ReadsWhereByte, wires
  <2> QED BY <2>1, <2>3, <2>6, <2>7, SameTypes DEF Types
<1>3. CASE IrqFull
  <2>1. /\ UNCHANGED <<timeout, host_inactive, rx_in, rx_out, tx_in, tx_out, rx_buf, tx_buf>>
        /\ UNCHANGED <<program, control, wires, host>>
        /\ irq_enable' \in {irq_enable, irq_enable \ {"RE"}} /\ isr' \in {"write", "control"}
    BY <1>3 DEF IrqFull, EndRead
  <2>2. TypesOfRecord' /\ TypesOfProgram' /\ TypesOfRoutine'
    BY <2>1 DEF Types, TypesOfRecord, TypesOfProgram, TypesOfRoutine, program
  <2>3. rx_in # rx_out
    <3>1. rx_in \in 0..BUF_LEN - 1
      BY DEF Types, TypesOfRecord
    <3> QED BY <1>3, <3>1, NextSlot DEF IrqFull, rx_full, rx_next
  <2>4. SendIsAwake' /\ ReceiveIsAwake' /\ ReadsWhereByte'
    BY <2>1, <2>3 DEF SendIsAwake, ReceiveIsAwake, ReadsWhereByte, writing, program
  <2> QED BY <2>1, <2>2, <2>4, SameTypes DEF Types
<1>4. CASE IrqByte
  <2>1. /\ UNCHANGED <<timeout, irq_enable, host_inactive, rx_out, tx_in, tx_out, tx_buf>>
        /\ UNCHANGED <<program, isr, wfifo, host>>
        /\ rx_in' = rx_next /\ rfifo' = Tail(rfifo) /\ ~ pause_irq'
        /\ control' = [control EXCEPT !.RAVAIL = Len(rfifo) > 1]
        /\ ~ rx_full /\ rfifo # <<>>
    BY <1>4 DEF IrqByte
  <2>2. rx_in' \in 0..BUF_LEN - 1 /\ rx_in' # rx_out
    BY <2>1, NextSlot DEF Types, TypesOfRecord, rx_next, rx_full
  <2>3. TypesOfRecord' /\ TypesOfProgram'
    BY <2>1, <2>2 DEF Types, TypesOfRecord, TypesOfProgram, program
  <2>4. TypesOfRoutine'
    <3>1. (Len(rfifo) > 1) \in BOOLEAN
      BY DEF Types, TypesOfWires
    <3> QED BY <2>1, <3>1 DEF Types, TypesOfRoutine
  <2>5. TypesOfWires'
    <3>1. rfifo \in Seq(Nat) /\ Len(rfifo) <= READ_DEPTH
      BY DEF Types, TypesOfWires
    <3>2. rfifo' \in Seq(Nat) /\ Len(rfifo') = Len(rfifo) - 1
      BY <2>1, <3>1
    <3> QED BY <2>1, <3>1, <3>2 DEF Types, TypesOfWires
  <2>6. SendIsAwake' /\ ReceiveIsAwake' /\ ReadsWhereByte'
    BY <2>1, <2>2 DEF SendIsAwake, ReceiveIsAwake, ReadsWhereByte, writing, program
  <2> QED BY <2>1, <2>3, <2>4, <2>5, <2>6, SameTypes DEF Types
<1>5. CASE IrqNoByte
  <2>1. /\ UNCHANGED <<timeout, host_inactive, rx_in, rx_out, tx_in, tx_out, rx_buf, tx_buf>>
        /\ UNCHANGED <<program, control, wfifo, play>>
        /\ isr = "read" /\ rfifo = <<>> /\ ~ pause_irq'
        /\ irq_enable' \in {irq_enable, irq_enable \ {"RE"}} /\ isr' \in {"write", "control"}
        /\ \/ rfifo' = rfifo /\ typed' = typed
           \/ rfifo' = <<typed + 1>> /\ typed' = typed + 1
    BY <1>5 DEF IrqNoByte, EndRead, TypesByte
  <2>2. TypesOfRecord' /\ TypesOfProgram' /\ TypesOfRoutine'
    BY <2>1 DEF Types, TypesOfRecord, TypesOfProgram, TypesOfRoutine, program
  <2>3. TypesOfHost'
    BY <2>1 DEF Types, TypesOfHost
  <2>4. TypesOfWires'
    <3>1. rfifo \in Seq(Nat) /\ Len(rfifo) <= READ_DEPTH /\ typed \in Nat
      BY DEF Types, TypesOfWires, TypesOfHost
    <3>2. <<typed + 1>> \in Seq(Nat) /\ Len(<<typed + 1>>) = 1
      BY <3>1
    <3>3. rfifo' = rfifo \/ rfifo' = <<typed + 1>>
      BY <2>1
    <3>4. rfifo' = <<typed + 1>> => rfifo' \in Seq(Nat) /\ Len(rfifo') = 1
      BY <3>2, Zenon
    <3>5. rfifo' \in Seq(Nat) /\ Len(rfifo') <= READ_DEPTH
      <4>1. CASE rfifo' = rfifo
        BY <3>1, <4>1
      <4>2. CASE rfifo' = <<typed + 1>>
        BY <3>4, <4>2
      <4> QED BY <3>3, <4>1, <4>2
    <3> QED BY <2>1, <3>5 DEF Types, TypesOfWires
  <2>5. rx_in # rx_out
    BY <2>1 DEF ReadsWhereByte
  <2>6. SendIsAwake' /\ ReceiveIsAwake' /\ ReadsWhereByte'
    BY <2>1, <2>5 DEF SendIsAwake, ReceiveIsAwake, ReadsWhereByte, writing, program
  <2> QED BY <2>2, <2>3, <2>4, <2>6 DEF Types
<1>6. CASE IrqWrite
  <2>1. /\ UNCHANGED <<timeout, host_inactive, rx_in, rx_out, tx_in, rx_buf, tx_buf>>
        /\ UNCHANGED <<program, control, rfifo, pause_irq, host>>
        /\ irq_enable' = StillEnabled /\ isr' = "control"
        /\ tx_out' = (tx_out + Sends) % BUF_LEN
        /\ wfifo' = Fitting(wfifo \o [i \in 1..Sends |-> tx_buf[(tx_out + i - 1) % BUF_LEN]])
    BY <1>6 DEF IrqWrite
  <2>2. /\ tx_in \in 0..BUF_LEN - 1 /\ tx_out \in 0..BUF_LEN - 1
        /\ tx_buf \in [0..BUF_LEN - 1 -> Nat] /\ control.WSPACE \in 0..WRITE_DEPTH
    BY DEF Types, TypesOfRecord, TypesOfRoutine
  <2>3. /\ Queued(tx_in, tx_out) \in 0..BUF_LEN - 1
        /\ (tx_out + Queued(tx_in, tx_out)) % BUF_LEN = tx_in
    BY <2>2, QueuedBetween
  <2>4. /\ Sends \in Nat
        /\ Sends < control.WSPACE => Sends = Queued(tx_in, tx_out)
    BY SMTT(30), <2>2, <2>3 DEF Sends, Least
  <2>5. tx_out' \in 0..BUF_LEN - 1
    <3>1. tx_out + Sends \in Nat
      BY <2>2, <2>4
    <3> QED BY <2>1, <3>1, Remainder
  <2>6. irq_enable' \subseteq irq_enable /\ (irq_enable' # irq_enable => tx_in = tx_out')
        /\ ("RE" \in irq_enable => "RE" \in irq_enable')
    BY <2>1, <2>3, <2>4 DEF StillEnabled
  <2>7. TypesOfRecord' /\ TypesOfProgram' /\ TypesOfRoutine'
    BY <2>1, <2>5, <2>6 DEF Types, TypesOfRecord, TypesOfProgram, TypesOfRoutine, program
  <2>8. TypesOfWires'
    <3> DEFINE bytes == [i \in 1..Sends |-> tx_buf[(tx_out + i - 1) % BUF_LEN]]
    <3>1. \A i \in 1..Sends : (tx_out + i - 1) % BUF_LEN \in 0..BUF_LEN - 1
      <4>1. SUFFICES ASSUME NEW i \in 1..Sends
                     PROVE  (tx_out + i - 1) % BUF_LEN \in 0..BUF_LEN - 1
        OBVIOUS
      <4>2. tx_out + i - 1 \in Nat
        BY <2>2, <2>4
      <4> QED BY <4>2, Remainder
    <3>2. bytes \in Seq(Nat)
      BY <2>2, <2>4, <3>1
    <3> HIDE DEF bytes
    <3>3. wfifo \o bytes \in Seq(Nat)
      BY <3>2 DEF Types, TypesOfWires
    <3>4. Fitting(wfifo \o bytes) \in Seq(Nat) /\ Len(Fitting(wfifo \o bytes)) <= WRITE_DEPTH
      BY <3>3, FittingFits
    <3> QED BY <2>1, <3>4 DEF Types, TypesOfWires, bytes
  <2>9. SendIsAwake'
    <3>1. CASE irq_enable' # irq_enable
      BY <2>1, <2>6, <3>1 DEF SendIsAwake
    <3>2. CASE irq_enable' = irq_enable /\ tx_in # tx_out
      BY <2>1, <3>2 DEF SendIsAwake, writing, program
    <3>3. CASE irq_enable' = irq_enable /\ tx_in = tx_out
      <4>1. Queued(tx_in, tx_out) = 0
        BY <2>2, <3>3 DEF Queued
      <4>2. Sends = 0
        BY <2>2, <4>1 DEF Sends, Least
      <4>3. tx_out' = tx_out
        BY <2>1, <2>3, <3>3, <4>1, <4>2
      <4> QED BY <2>1, <3>3, <4>3 DEF SendIsAwake
    <3> QED BY <3>1, <3>2, <3>3
  <2>10. ReceiveIsAwake' /\ ReadsWhereByte'
    BY <2>1, <2>6 DEF ReceiveIsAwake, ReadsWhereByte, program
  <2> QED BY <2>1, <2>7, <2>8, <2>9, <2>10, SameTypes DEF Types
<1> QED BY <1>1, <1>2, <1>3, <1>4, <1>5, <1>6 DEF Interrupt

\* The program: how much a write and a read can move in one piece.
LEMMA RoomFits ==
  ASSUME NEW in \in 0..BUF_LEN - 1, NEW out \in 0..BUF_LEN - 1
  PROVE  Room(in, out) \in 0..BUF_LEN - in
BY UartAssumption DEF Room

LEMMA AvailableFits ==
  ASSUME NEW in \in 0..BUF_LEN - 1, NEW out \in 0..BUF_LEN - 1
  PROVE  Available(in, out) \in 0..BUF_LEN - out
BY UartAssumption DEF Available

LEMMA LeastOfTwo ==
  ASSUME NEW i \in Nat, NEW j \in Nat
  PROVE  Least(i, j) \in Nat /\ Least(i, j) <= i /\ Least(i, j) <= j
BY DEF Least

LEMMA CallStep ==
  ASSUME UartInv, CallWrite \/ CallRead \/ CallClose
  PROVE  UartInv'
<1> USE UartAssumption DEF UartInv
<1>1. /\ pc = "idle" /\ pc' \in {"write", "read", "close"} /\ isr = "off"
      /\ moved' = 0 /\ n' = 0 /\ printed' = printed
      /\ UNCHANGED <<record, routine, wires, host>>
  BY DEF CallWrite, CallRead, CallClose, Call, Runs
<1>2. todo' \in Nat
  <2>1. play.tx \in Nat /\ printed \in Nat
    BY DEF Types, TypesOfHost, TypesOfProgram
  <2> QED BY <2>1 DEF CallWrite, CallRead, CallClose
<1>3. TypesOfProgram'
  BY <1>1, <1>2 DEF Types, TypesOfProgram
<1>4. SendIsAwake' /\ ReceiveIsAwake' /\ ReadsWhereByte'
  BY <1>1 DEF SendIsAwake, ReceiveIsAwake, ReadsWhereByte, record, routine
<1> QED BY <1>1, <1>3, <1>4, SameTypes DEF Types

LEMMA TimeoutStep ==
  ASSUME UartInv, NEW arg, SetTimeout(arg)
  PROVE  UartInv'
<1> USE UartAssumption DEF UartInv
<1>1. /\ timeout' \in 2..INT_MAX - 1
      /\ UNCHANGED <<irq_enable, host_inactive, rx_in, rx_out, tx_in, tx_out, rx_buf, tx_buf>>
      /\ UNCHANGED <<program, routine, wires, host>>
  BY DEF SetTimeout
<1>2. TypesOfRecord' /\ TypesOfProgram'
  BY <1>1 DEF Types, TypesOfRecord, TypesOfProgram, program
<1>3. SendIsAwake' /\ ReceiveIsAwake' /\ ReadsWhereByte'
  BY <1>1 DEF SendIsAwake, ReceiveIsAwake, ReadsWhereByte, program, routine, wires
<1> QED BY <1>1, <1>2, <1>3, SameTypes DEF Types

LEMMA WriteStep ==
  ASSUME UartInv, WriteLooks \/ WriteCopies \/ WriteMoves \/ WriteKicks \/ WriteAwaits
  PROVE  UartInv'
<1> USE UartAssumption DEF UartInv
<1>1. /\ tx_in \in 0..BUF_LEN - 1 /\ tx_out \in 0..BUF_LEN - 1
      /\ n \in Nat /\ todo \in Nat /\ moved \in Nat /\ printed \in Nat
  BY DEF Types, TypesOfRecord, TypesOfProgram
<1>2. CASE WriteLooks
  <2>1. /\ UNCHANGED <<todo, moved, printed, record, routine, wires, host>>
        /\ pc = "write" /\ isr = "off" /\ n' = Least(Room(tx_in, tx_out), todo)
        /\ pc' = IF n' = 0 THEN "kick" ELSE "copy_in"
    BY <1>2 DEF WriteLooks, Runs
  <2>2. n' \in 0..BUF_LEN - tx_in /\ n' <= todo
    <3>1. Room(tx_in, tx_out) \in 0..BUF_LEN - tx_in
      BY <1>1, RoomFits
    <3>2. Room(tx_in, tx_out) \in Nat /\ Room(tx_in, tx_out) <= BUF_LEN - tx_in
      BY <1>1, <3>1
    <3>3. n' \in Nat /\ n' <= Room(tx_in, tx_out) /\ n' <= todo
      BY <1>1, <2>1, <3>2, LeastOfTwo, Zenon
    <3> QED BY <1>1, <3>2, <3>3
  <2>3. tx_in' = tx_in
    BY <2>1 DEF record
  <2>4. TypesOfProgram'
    BY <1>1, <2>1, <2>2, <2>3 DEF TypesOfProgram
  <2>5. SendIsAwake' /\ ReceiveIsAwake' /\ ReadsWhereByte'
    BY <2>1 DEF SendIsAwake, ReceiveIsAwake, ReadsWhereByte, record, routine
  <2> QED BY <2>1, <2>4, <2>5, SameTypes DEF Types
<1>3. CASE WriteCopies
  <2>1. /\ UNCHANGED <<timeout, irq_enable, host_inactive, rx_in, rx_out, tx_in, tx_out, rx_buf>>
        /\ UNCHANGED <<n, todo, moved, printed, routine, wires, host>>
        /\ pc = "copy_in" /\ pc' = "move_in" /\ isr = "off"
        /\ tx_buf' = [i \in 0..BUF_LEN - 1 |->
                        IF i \in tx_in..tx_in + n - 1 THEN printed + moved + i - tx_in + 1
                        ELSE tx_buf[i]]
    BY <1>3 DEF WriteCopies, Runs
  <2>2. tx_buf' \in [0..BUF_LEN - 1 -> Nat]
    <3>1. \A i \in tx_in..tx_in + n - 1 : printed + moved + i - tx_in + 1 \in Nat
      BY <1>1
    <3>2. tx_buf \in [0..BUF_LEN - 1 -> Nat]
      BY DEF Types, TypesOfRecord
    <3> QED BY <2>1, <3>1, <3>2
  <2>3. TypesOfRecord'
    BY <2>1, <2>2 DEF Types, TypesOfRecord
  <2>4. TypesOfProgram'
    BY <2>1 DEF Types, TypesOfProgram
  <2>5. SendIsAwake' /\ ReceiveIsAwake' /\ ReadsWhereByte'
    BY <2>1 DEF SendIsAwake, ReceiveIsAwake, ReadsWhereByte, routine
  <2> QED BY <2>1, <2>3, <2>4, <2>5, SameTypes DEF Types
<1>4. CASE WriteMoves
  <2>1. /\ UNCHANGED <<timeout, irq_enable, host_inactive, rx_in, rx_out, tx_out, rx_buf, tx_buf>>
        /\ UNCHANGED <<printed, routine, wires, host>>
        /\ pc = "move_in" /\ pc' = "write" /\ isr = "off" /\ n' = 0
        /\ tx_in' = (tx_in + n) % BUF_LEN /\ moved' = moved + n /\ todo' = todo - n
    BY <1>4 DEF WriteMoves, Runs
  <2>2. n <= todo
    BY <2>1 DEF Types, TypesOfProgram
  <2>3. tx_in' \in 0..BUF_LEN - 1
    <3>1. tx_in + n \in Nat
      BY <1>1
    <3> QED BY <2>1, <3>1, Remainder
  <2>4. TypesOfRecord'
    BY <2>1, <2>3 DEF Types, TypesOfRecord
  <2>5. TypesOfProgram'
    BY <1>1, <2>1, <2>2 DEF TypesOfProgram
  <2>6. SendIsAwake' /\ ReceiveIsAwake' /\ ReadsWhereByte'
    BY <2>1 DEF SendIsAwake, ReceiveIsAwake, ReadsWhereByte, routine
  <2> QED BY <2>1, <2>4, <2>5, <2>6, SameTypes DEF Types
<1>5. CASE WriteKicks
  <2>1. /\ UNCHANGED <<timeout, host_inactive, rx_in, rx_out, tx_in, tx_out, rx_buf, tx_buf>>
        /\ UNCHANGED <<routine, wires, host>>
        /\ pc = "kick" /\ pc' \in {"idle", "await_space"} /\ isr = "off"
        /\ irq_enable' = irq_enable \cup {"WE"}
        /\ n' \in {n, 0} /\ moved' \in {moved, 0} /\ todo' \in {todo, 0}
        /\ printed' \in {printed, printed + moved}
    BY <1>5 DEF WriteKicks, Runs, Return, Kicked
  <2>2. TypesOfRecord'
    BY <2>1 DEF Types, TypesOfRecord
  <2>3. TypesOfProgram'
    BY <1>1, <2>1 DEF TypesOfProgram
  <2>4. SendIsAwake' /\ ReceiveIsAwake' /\ ReadsWhereByte'
    BY <2>1 DEF SendIsAwake, ReceiveIsAwake, ReadsWhereByte, routine
  <2> QED BY <2>1, <2>2, <2>3, <2>4, SameTypes DEF Types
<1>6. CASE WriteAwaits
  <2>1. /\ UNCHANGED <<record, routine, wires, host>>
        /\ pc = "await_space" /\ pc' \in {"idle", "write"} /\ isr = "off"
        /\ n' \in {n, 0} /\ moved' \in {moved, 0} /\ todo' \in {todo, 0}
        /\ printed' \in {printed, printed + moved}
    BY <1>6 DEF WriteAwaits, Runs, Return
  <2>2. TypesOfProgram'
    BY <1>1, <2>1 DEF TypesOfProgram
  <2>3. SendIsAwake' /\ ReceiveIsAwake' /\ ReadsWhereByte'
    BY <2>1 DEF SendIsAwake, ReceiveIsAwake, ReadsWhereByte, record, routine
  <2> QED BY <2>1, <2>2, <2>3, SameTypes DEF Types
<1> QED BY <1>2, <1>3, <1>4, <1>5, <1>6

LEMMA ReadStep ==
  ASSUME UartInv, ReadLooks \/ ReadCopies \/ ReadMoves \/ ReadAwaits \/ ReadEnables \/ Close
  PROVE  UartInv'
<1> USE UartAssumption DEF UartInv
<1>1. /\ rx_in \in 0..BUF_LEN - 1 /\ rx_out \in 0..BUF_LEN - 1
      /\ n \in Nat /\ todo \in Nat /\ moved \in Nat /\ printed \in Nat
  BY DEF Types, TypesOfRecord, TypesOfProgram
<1>2. CASE ReadLooks
  <2>1. /\ UNCHANGED <<todo, moved, printed, record, routine, wires, host>>
        /\ pc = "read" /\ isr = "off" /\ n' = Least(Available(rx_in, rx_out), todo)
        /\ pc' = CASE n' > 0 -> "copy_out"
                   [] n' = 0 /\ (moved > 0 \/ nonblock) -> "enable"
                   [] OTHER -> "await_byte"
    BY <1>2 DEF ReadLooks, Runs
  <2>2. n' \in 0..BUF_LEN - rx_out /\ n' <= todo
    <3>1. Available(rx_in, rx_out) \in 0..BUF_LEN - rx_out
      BY <1>1, AvailableFits
    <3> QED BY <1>1, <2>1, <3>1, LeastOfTwo
  <2>3. pc' \in {"copy_out", "enable", "await_byte"}
        /\ (pc' = "copy_out" => n' > 0) /\ (pc' = "await_byte" => ~ (moved > 0))
    BY <2>1, <2>2
  <2>4. rx_out' = rx_out
    BY <2>1 DEF record
  <2>5. TypesOfProgram'
    BY <1>1, <2>1, <2>2, <2>3, <2>4 DEF TypesOfProgram
  <2>6. SendIsAwake' /\ ReceiveIsAwake' /\ ReadsWhereByte'
    BY <2>1, <2>3 DEF SendIsAwake, ReceiveIsAwake, ReadsWhereByte, record, routine
  <2> QED BY <2>1, <2>5, <2>6, SameTypes DEF Types
<1>3. CASE ReadCopies
  <2>1. /\ UNCHANGED <<n, todo, moved, printed, record, routine, wires, host>>
        /\ pc = "copy_out" /\ pc' = "move_out" /\ isr = "off"
    BY <1>3 DEF ReadCopies, Runs
  <2>2. TypesOfProgram'
    BY <2>1 DEF Types, TypesOfProgram, record
  <2>3. SendIsAwake' /\ ReceiveIsAwake' /\ ReadsWhereByte'
    BY <2>1 DEF SendIsAwake, ReceiveIsAwake, ReadsWhereByte, record, routine
  <2> QED BY <2>1, <2>2, <2>3, SameTypes DEF Types
<1>4. CASE ReadMoves
  <2>1. /\ UNCHANGED <<timeout, irq_enable, host_inactive, rx_in, tx_in, tx_out, rx_buf, tx_buf>>
        /\ UNCHANGED <<printed, routine, wires, host>>
        /\ pc = "move_out" /\ pc' \in {"enable", "read"} /\ isr = "off" /\ n' = 0
        /\ rx_out' = (rx_out + n) % BUF_LEN /\ moved' = moved + n /\ todo' = todo - n
    BY <1>4 DEF ReadMoves, Runs
  <2>2. n <= todo /\ n >= 1
    BY <1>1, <2>1 DEF Types, TypesOfProgram, TypesOfRecord
  <2>3. rx_out' \in 0..BUF_LEN - 1
    <3>1. rx_out + n \in Nat
      BY <1>1
    <3> QED BY <2>1, <3>1, Remainder
  <2>4. TypesOfRecord'
    BY <2>1, <2>3 DEF Types, TypesOfRecord
  <2>5. TypesOfProgram'
    BY <1>1, <2>1, <2>2 DEF TypesOfProgram
  <2>6. moved' > 0
    BY <1>1, <2>1, <2>2
  <2>7. SendIsAwake' /\ ReceiveIsAwake' /\ ReadsWhereByte'
    BY <2>1, <2>6 DEF SendIsAwake, ReceiveIsAwake, ReadsWhereByte, routine
  <2> QED BY <2>1, <2>4, <2>5, <2>7, SameTypes DEF Types
<1>5. CASE ReadEnables
  <2>1. /\ UNCHANGED <<timeout, host_inactive, rx_in, rx_out, tx_in, tx_out, rx_buf, tx_buf>>
        /\ UNCHANGED <<printed, routine, wires, host>>
        /\ pc = "enable" /\ pc' = "idle" /\ isr = "off"
        /\ irq_enable' = IF moved > 0 THEN irq_enable \cup {"RE"} ELSE irq_enable
        /\ n' = 0 /\ moved' = 0 /\ todo' = 0
    BY <1>5 DEF ReadEnables, Runs, Return, Reopened
  <2>2. TypesOfRecord'
    BY <2>1 DEF Types, TypesOfRecord
  <2>3. TypesOfProgram'
    BY <1>1, <2>1 DEF TypesOfProgram
  <2>4. SendIsAwake' /\ ReceiveIsAwake' /\ ReadsWhereByte'
    BY <2>1 DEF SendIsAwake, ReceiveIsAwake, ReadsWhereByte, routine
  <2> QED BY <2>1, <2>2, <2>3, <2>4, SameTypes DEF Types
<1>6. CASE ReadAwaits \/ Close
  <2>1. /\ UNCHANGED <<n, todo, moved, printed, record, routine, wires, host>>
        /\ pc \in {"await_byte", "close"} /\ pc' \in {"enable", "read", "idle"} /\ isr = "off"
    BY <1>6 DEF ReadAwaits, Close, Runs
  <2>2. TypesOfProgram'
    BY <1>1, <2>1 DEF TypesOfProgram
  <2>3. SendIsAwake' /\ ReceiveIsAwake' /\ ReadsWhereByte'
    BY <2>1 DEF SendIsAwake, ReceiveIsAwake, ReadsWhereByte, record, routine
  <2> QED BY <2>1, <2>2, <2>3, SameTypes DEF Types
<1> QED BY <1>2, <1>3, <1>4, <1>5, <1>6

\* The clock.
LEMMA TickStep ==
  ASSUME UartInv, Tick \/ OtherAlarms
  PROVE  UartInv'
<1> USE UartAssumption DEF UartInv
<1>1. /\ UNCHANGED <<timeout, irq_enable, rx_in, rx_out, tx_in, tx_out, rx_buf, tx_buf>>
      /\ UNCHANGED <<program, routine, wfifo, rfifo, pause_irq, host>>
      /\ host_inactive' \in {host_inactive, 0}
           \/ (host_inactive < INT_MAX - 2 /\ host_inactive' = host_inactive + 1)
  BY DEF Tick, OtherAlarms, LooksForHost, record, wires
<1>2. TypesOfRecord'
  BY <1>1 DEF Types, TypesOfRecord
<1>3. TypesOfProgram'
  BY <1>1 DEF Types, TypesOfProgram, program
<1>4. TypesOfWires'
  BY <1>1 DEF Types, TypesOfWires
<1>5. SendIsAwake' /\ ReceiveIsAwake' /\ ReadsWhereByte'
  BY <1>1 DEF SendIsAwake, ReceiveIsAwake, ReadsWhereByte, program, routine
<1> QED BY <1>1, <1>2, <1>3, <1>4, <1>5, SameTypes DEF Types

LEMMA UartStep == UartInv /\ [UartNext]_vars => UartInv'
<1>1. SUFFICES ASSUME UartInv, [UartNext]_vars PROVE UartInv'
  OBVIOUS
<1>2. CASE UNCHANGED vars
  <2>1. UNCHANGED <<record, program, routine, wires, host, isr, rfifo>>
    BY <1>2 DEF vars, routine, wires
  <2> QED BY <1>1, <2>1, SameTypes, SameAwake DEF UartInv, Types
<1>3. CASE UartNext
  BY <1>1, <1>3, CallStep, TimeoutStep, WriteStep, ReadStep, InterruptStep, TickStep, HostStep
     DEF UartNext, Program
<1> QED BY <1>1, <1>2, <1>3

\* The registers, the locals and the bytes under way have their types
\* (altera_avalon_jtag_uart_write, _read, _irq): no copy leaves a buffer.
THEOREM UartTypeCorrect == UartSpec => []UartTypeOK
<1>1. UartInit => UartInv /\ AlarmInv
  BY UartInitially, UartAlarmInit
<1>2. UartInv /\ AlarmInv /\ [UartNext]_vars => (UartInv /\ AlarmInv)'
  BY UartStep, UartAlarmStep
<1>3. UartInv /\ AlarmInv => UartTypeOK
  BY TypesAreOK DEF UartInv, AlarmInv
<1> QED BY <1>1, <1>2, <1>3, PTL DEF UartSpec

\* Bytes that wait in tx_buf are never slept through, whichever step of a write
\* the routine interrupts (altera_avalon_jtag_uart_write and its _txirq).
THEOREM SendNeverSleeps == UartSpec => []SendIsAwake
<1>1. UartInv => SendIsAwake
  BY DEF UartInv
<1> QED BY <1>1, UartInitially, UartStep, PTL DEF UartSpec

\* Bytes that are typed are never shut out for good: who has turned receiving
\* off has left something to read, or a read is about to turn it on
\* (altera_avalon_jtag_uart_read and its _rxirq).
THEOREM ReceiveNeverSleeps == UartSpec => []ReceiveIsAwake
<1>1. UartInv => ReceiveIsAwake
  BY DEF UartInv
<1> QED BY <1>1, UartInitially, UartStep, PTL DEF UartSpec

-----------------------------------------------------------------------------
(***************************************************************************)
(* The console loses, doubles and reorders no byte, in either direction,   *)
(* for buffers and FIFOs of any size: the driver, its interrupt routine    *)
(* and the FIFOs between them implement ByteLine.  The invariant says      *)
(* which byte each slot of the line holds: those the far end has, then     *)
(* those in the FIFO, then those in the circular buffer, number by number. *)
(***************************************************************************)
\* The slot of the i-th byte that waits in a circular buffer.
Slot(out, i) == (out + i - 1) % BUF_LEN

Slots == 0..BUF_LEN - 1

LEMMA WrapsOnce ==
  ASSUME NEW x \in Nat, x < 2 * BUF_LEN
  PROVE  x % BUF_LEN = IF x < BUF_LEN THEN x ELSE x - BUF_LEN
<1> USE UartAssumption
<1>1. CASE x < BUF_LEN
  BY <1>1
<1>2. CASE ~ (x < BUF_LEN)
  <2> DEFINE y == x - BUF_LEN
  <2>1. y \in Nat /\ y < BUF_LEN /\ x = y + BUF_LEN
    BY <1>2
  <2>2. y % BUF_LEN = y
    BY <2>1
  <2>3. (y + BUF_LEN) % BUF_LEN = y % BUF_LEN
    BY <2>1
  <2> QED BY <1>2, <2>1, <2>2, <2>3
<1> QED BY <1>1, <1>2

LEMMA QueuedIs ==
  ASSUME NEW in \in Slots, NEW out \in Slots
  PROVE  /\ Queued(in, out) = IF in >= out THEN in - out ELSE in - out + BUF_LEN
         /\ Queued(in, out) \in Slots
<1> USE UartAssumption DEF Slots
<1>1. CASE in >= out
  <2>1. in - out \in 0..BUF_LEN - 1
    BY <1>1
  <2>2. (in - out) % BUF_LEN = in - out
    BY <2>1
  <2> QED BY <1>1, <2>1, <2>2 DEF Queued
<1>2. CASE ~ (in >= out)
  <2>1. in - out + BUF_LEN \in 0..BUF_LEN - 1
    BY <1>2
  <2>2. (in - out + BUF_LEN) % BUF_LEN = in - out + BUF_LEN
    BY <2>1
  <2>3. (in - out + BUF_LEN) % BUF_LEN = (in - out) % BUF_LEN
    OBVIOUS
  <2> QED BY <1>2, <2>1, <2>2, <2>3 DEF Queued
<1> QED BY <1>1, <1>2

LEMMA SlotIs ==
  ASSUME NEW out \in Slots, NEW i \in 1..BUF_LEN
  PROVE  /\ Slot(out, i) = IF out + i - 1 < BUF_LEN THEN out + i - 1 ELSE out + i - 1 - BUF_LEN
         /\ Slot(out, i) \in Slots
<1>1. out + i - 1 \in Nat /\ out + i - 1 < 2 * BUF_LEN
  BY UartAssumption DEF Slots
<1> QED BY <1>1, WrapsOnce, UartAssumption DEF Slot, Slots

\* Moving a pointer on by what fits.
LEMMA MovedOn ==
  ASSUME NEW p \in Slots, NEW k \in Slots
  PROVE  /\ (p + k) % BUF_LEN = IF p + k < BUF_LEN THEN p + k ELSE p + k - BUF_LEN
         /\ (p + k) % BUF_LEN \in Slots
<1>1. p + k \in Nat /\ p + k < 2 * BUF_LEN
  BY UartAssumption DEF Slots
<1> QED BY <1>1, WrapsOnce, UartAssumption DEF Slots

\* Putting k bytes in lengthens the queue by k, behind what waits and in slots
\* that nothing waits in.
LEMMA PutsIn ==
  ASSUME NEW in \in Slots, NEW out \in Slots, NEW k \in Nat,
         Queued(in, out) + k <= BUF_LEN - 1
  PROVE  /\ Queued((in + k) % BUF_LEN, out) = Queued(in, out) + k
         /\ \A i \in 1..k : Slot(out, Queued(in, out) + i) = Slot(in, i)
         /\ \A i \in 1..Queued(in, out), j \in 1..k : Slot(out, i) # Slot(in, j)
<1> USE UartAssumption
<1>1. /\ Queued(in, out) = IF in >= out THEN in - out ELSE in - out + BUF_LEN
      /\ Queued(in, out) \in Slots
  BY QueuedIs
<1> DEFINE q == Queued(in, out)
           next == (in + k) % BUF_LEN
<1>2. k \in Slots /\ q + k <= BUF_LEN - 1
  BY <1>1 DEF Slots
<1>3. next \in Slots /\ next = IF in + k < BUF_LEN THEN in + k ELSE in + k - BUF_LEN
  BY <1>2, MovedOn
<1> HIDE DEF q, next
<1>4. Queued(next, out) = IF next >= out THEN next - out ELSE next - out + BUF_LEN
  BY <1>3, QueuedIs
<1>5. q = IF in >= out THEN in - out ELSE in - out + BUF_LEN
  BY <1>1 DEF q
<1>6. Queued(next, out) = q + k
  BY <1>2, <1>3, <1>4, <1>5 DEF Slots
<1>7. ASSUME NEW i \in 1..k
      PROVE  Slot(out, q + i) = Slot(in, i)
  <2>1. i \in 1..BUF_LEN /\ q + i \in 1..BUF_LEN
    BY <1>2, <1>5 DEF Slots
  <2>2. Slot(in, i) = IF in + i - 1 < BUF_LEN THEN in + i - 1 ELSE in + i - 1 - BUF_LEN
    BY <2>1, SlotIs
  <2>3. Slot(out, q + i) = IF out + (q + i) - 1 < BUF_LEN THEN out + (q + i) - 1
                           ELSE out + (q + i) - 1 - BUF_LEN
    BY <2>1, SlotIs
  <2> QED BY <1>2, <1>5, <2>1, <2>2, <2>3 DEF Slots
<1>8. ASSUME NEW i \in 1..q, NEW j \in 1..k
      PROVE  Slot(out, i) # Slot(in, j)
  <2>1. i \in 1..BUF_LEN /\ j \in 1..BUF_LEN
    BY <1>2, <1>5 DEF Slots
  <2>2. Slot(in, j) = IF in + j - 1 < BUF_LEN THEN in + j - 1 ELSE in + j - 1 - BUF_LEN
    BY <2>1, SlotIs
  <2>3. Slot(out, i) = IF out + i - 1 < BUF_LEN THEN out + i - 1 ELSE out + i - 1 - BUF_LEN
    BY <2>1, SlotIs
  <2> QED BY <1>2, <1>5, <2>1, <2>2, <2>3 DEF Slots
<1> QED BY <1>6, <1>7, <1>8 DEF q, next

\* Taking k bytes out leaves the others, in their order.
LEMMA TakesOut ==
  ASSUME NEW in \in Slots, NEW out \in Slots, NEW k \in 0..Queued(in, out)
  PROVE  /\ Queued(in, (out + k) % BUF_LEN) = Queued(in, out) - k
         /\ \A i \in 1..Queued(in, out) - k : Slot((out + k) % BUF_LEN, i) = Slot(out, k + i)
<1> USE UartAssumption
<1>1. /\ Queued(in, out) = IF in >= out THEN in - out ELSE in - out + BUF_LEN
      /\ Queued(in, out) \in Slots
  BY QueuedIs
<1> DEFINE q == Queued(in, out)
           next == (out + k) % BUF_LEN
<1>2. k \in Slots /\ k <= q
  BY <1>1 DEF Slots
<1>3. next \in Slots /\ next = IF out + k < BUF_LEN THEN out + k ELSE out + k - BUF_LEN
  BY <1>2, MovedOn
<1> HIDE DEF q, next
<1>4. Queued(in, next) = IF in >= next THEN in - next ELSE in - next + BUF_LEN
  BY <1>3, QueuedIs
<1>5. q \in Slots /\ q = IF in >= out THEN in - out ELSE in - out + BUF_LEN
  BY <1>1 DEF q
<1>6. Queued(in, next) = q - k
  BY <1>2, <1>3, <1>4, <1>5 DEF Slots
<1>7. ASSUME NEW i \in 1..q - k
      PROVE  Slot(next, i) = Slot(out, k + i)
  <2>1. i \in 1..BUF_LEN /\ k + i \in 1..BUF_LEN
    BY <1>2, <1>5 DEF Slots
  <2>2. Slot(next, i) = IF next + i - 1 < BUF_LEN THEN next + i - 1 ELSE next + i - 1 - BUF_LEN
    BY <1>3, <2>1, SlotIs
  <2>3. Slot(out, k + i) = IF out + (k + i) - 1 < BUF_LEN THEN out + (k + i) - 1
                           ELSE out + (k + i) - 1 - BUF_LEN
    BY <2>1, SlotIs
  <2> QED BY <1>2, <1>3, <1>5, <2>1, <2>2, <2>3 DEF Slots
<1> QED BY <1>6, <1>7 DEF q, next

-----------------------------------------------------------------------------
\* Printing.

\* The bytes on their way to the host: those it has heard, those in the FIFO
\* and those in tx_buf are the ones handed over so far, in their order.
LineOut ==
  /\ heard \in Seq(Nat)
  /\ \A i \in 1..Len(heard) : heard[i] = i
  /\ \A i \in 1..Len(wfifo) : wfifo[i] = Len(heard) + i
  /\ \A i \in 1..Queued(tx_in, tx_out) :
       tx_buf[Slot(tx_out, i)] = Len(heard) + Len(wfifo) + i
  /\ Handed = Len(heard) + Len(wfifo) + Queued(tx_in, tx_out)

\* The routine goes by a space in the FIFO that the host can only have enlarged,
\* and a write by a room in tx_buf that the routine can only have enlarged.
SpaceLeft == isr \in {"read", "write"} => control.WSPACE <= WRITE_DEPTH - Len(wfifo)

RoomLeft == pc \in {"copy_in", "move_in"} => Queued(tx_in, tx_out) + n <= BUF_LEN - 1

\* Before tx_in moves, the bytes it will move over are those that come next.
Copied == pc = "move_in" => \A i \in 1..n : tx_buf[tx_in + i - 1] = Handed + i

PrintInv == UartInv /\ LineOut /\ SpaceLeft /\ RoomLeft /\ Copied

LEMMA WireTypes ==
  ASSUME UartInv
  PROVE  /\ tx_in \in Slots /\ tx_out \in Slots /\ rx_in \in Slots /\ rx_out \in Slots
         /\ tx_buf \in [Slots -> Nat]
         /\ n \in Nat /\ todo \in Nat /\ moved \in Nat /\ printed \in Nat /\ typed \in Nat
         /\ wfifo \in Seq(Nat) /\ Len(wfifo) <= WRITE_DEPTH
         /\ rfifo \in Seq(Nat) /\ Len(rfifo) <= READ_DEPTH
         /\ control.WSPACE \in 0..WRITE_DEPTH
         /\ Queued(tx_in, tx_out) \in Slots /\ Queued(rx_in, rx_out) \in Slots
<1>1. tx_in \in Slots /\ tx_out \in Slots /\ rx_in \in Slots /\ rx_out \in Slots
  BY DEF UartInv, Types, TypesOfRecord, Slots
<1>2. Queued(tx_in, tx_out) \in Slots /\ Queued(rx_in, rx_out) \in Slots
  BY <1>1, QueuedIs
<1> QED BY <1>1, <1>2 DEF UartInv, Types, TypesOfRecord, TypesOfProgram, TypesOfWires,
           TypesOfHost, TypesOfRoutine, Slots

LEMMA HandedIsNat ==
  ASSUME UartInv
  PROVE  Handed \in Nat
<1>1. moved \in Nat /\ printed \in Nat
  BY WireTypes
<1>2. CASE writing
  BY <1>1, <1>2 DEF Handed
<1>3. CASE ~ writing
  BY <1>1, <1>3 DEF Handed
<1> QED BY <1>2, <1>3

\* What is handed over never shrinks.
Grows == Handed' >= Handed /\ Len(heard') >= Len(heard)

LEMMA PrintInitially == UartInit => PrintInv
<1> SUFFICES ASSUME UartInit PROVE PrintInv
  OBVIOUS
<1>1. UartInv
  BY UartInitially
<1>2. Queued(tx_in, tx_out) = 0
  BY UartAssumption DEF UartInit, Queued
<1>3. heard = <<>> /\ wfifo = <<>> /\ Handed = 0
  BY DEF UartInit, Handed, writing
<1> QED BY <1>1, <1>2, <1>3 DEF PrintInv, LineOut, SpaceLeft, RoomLeft, Copied, UartInit

\* The host takes the next byte.
LEMMA PrintHostTakes ==
  ASSUME PrintInv, HostTakes
  PROVE  LineOut' /\ SpaceLeft' /\ RoomLeft' /\ Copied' /\ Grows
<1> USE UartAssumption DEF PrintInv
<1>1. /\ heard' = Append(heard, Head(wfifo)) /\ wfifo' = Tail(wfifo) /\ wfifo # <<>>
      /\ UNCHANGED <<record, program, routine>>
  BY DEF HostTakes
<1>2. /\ UNCHANGED <<tx_in, tx_out, tx_buf, pc, n, isr, control>>
      /\ Queued(tx_in, tx_out)' = Queued(tx_in, tx_out) /\ Handed' = Handed
  BY <1>1 DEF record, program, routine, Queued, Handed, writing
<1>3. wfifo \in Seq(Nat) /\ heard \in Seq(Nat) /\ Queued(tx_in, tx_out) \in Nat /\ Handed \in Nat
      /\ control.WSPACE \in 0..WRITE_DEPTH
  BY WireTypes, HandedIsNat DEF LineOut, Slots
<1>4. /\ heard' \in Seq(Nat) /\ Len(heard') = Len(heard) + 1
      /\ \A i \in 1..Len(heard) : heard'[i] = heard[i]
      /\ heard'[Len(heard) + 1] = wfifo[1]
  BY <1>1, <1>3
<1>5. Len(wfifo') = Len(wfifo) - 1 /\ \A i \in 1..Len(wfifo') : wfifo'[i] = wfifo[i + 1]
  BY <1>1, <1>3
<1>6. Len(wfifo) \in Nat \ {0} /\ Len(heard) \in Nat
  BY <1>1, <1>3
<1>7. \A i \in 1..Len(heard') : heard'[i] = i
  <2>1. wfifo[1] = Len(heard) + 1
    BY <1>6 DEF LineOut
  <2>2. \A i \in 1..Len(heard) : heard'[i] = i
    BY <1>4 DEF LineOut
  <2> QED BY <1>4, <1>6, <2>1, <2>2
<1>8. \A i \in 1..Len(wfifo') : wfifo'[i] = Len(heard') + i
  <2>1. ASSUME NEW i \in 1..Len(wfifo')
        PROVE  wfifo'[i] = Len(heard') + i
    <3>1. i + 1 \in 1..Len(wfifo)
      BY <1>5, <1>6
    <3>2. wfifo[i + 1] = Len(heard) + (i + 1)
      BY <3>1 DEF LineOut
    <3> QED BY <1>4, <1>5, <1>6, <3>1, <3>2
  <2> QED BY <2>1
<1>9. \A i \in 1..Queued(tx_in, tx_out) :
        tx_buf[Slot(tx_out, i)] = Len(heard') + Len(wfifo') + i
  <2>1. Len(heard') + Len(wfifo') = Len(heard) + Len(wfifo)
    BY <1>4, <1>5, <1>6
  <2> QED BY <2>1 DEF LineOut
<1>10. LineOut'
  <2>1. Handed' = Len(heard') + Len(wfifo') + Queued(tx_in, tx_out)'
    BY <1>2, <1>3, <1>4, <1>5, <1>6 DEF LineOut
  <2> QED BY <1>2, <1>4, <1>7, <1>8, <1>9, <2>1 DEF LineOut, Slot
<1>11. SpaceLeft' /\ RoomLeft'
  BY SMTT(30), <1>2, <1>3, <1>5, <1>6 DEF SpaceLeft, RoomLeft, PrintInv
<1>12. Copied'
  BY <1>2 DEF Copied
<1> QED BY <1>2, <1>3, <1>4, <1>6, <1>10, <1>11, <1>12 DEF Grows

\* A step that leaves the line alone.
LEMMA PrintSame ==
  ASSUME PrintInv, UNCHANGED <<tx_in, tx_out, tx_buf, heard, wfifo>>, Handed' = Handed
  PROVE  /\ LineOut' /\ Grows
         /\ UNCHANGED <<isr, control>> => SpaceLeft'
         /\ UNCHANGED <<pc, n>> => RoomLeft' /\ Copied'
         /\ pc' # "move_in" => Copied'
<1>1. Queued(tx_in, tx_out)' = Queued(tx_in, tx_out)
  BY DEF Queued
<1>2. LineOut'
  BY <1>1 DEF PrintInv, LineOut, Slot
<1>3. Grows
  <2>1. Handed \in Nat /\ Len(heard) \in Nat
    BY WireTypes, HandedIsNat DEF PrintInv, LineOut
  <2> QED BY <2>1 DEF Grows
<1>4. UNCHANGED <<isr, control>> => SpaceLeft'
  BY DEF PrintInv, SpaceLeft
<1>5. UNCHANGED <<pc, n>> => RoomLeft'
  BY <1>1 DEF PrintInv, RoomLeft
<1>6. UNCHANGED <<pc, n>> \/ pc' # "move_in" => Copied'
  BY DEF PrintInv, Copied
<1> QED BY <1>2, <1>3, <1>4, <1>5, <1>6

LEMMA Joined ==
  ASSUME NEW s \in Seq(Nat), NEW t \in Seq(Nat)
  PROVE  /\ s \o t \in Seq(Nat) /\ Len(s \o t) = Len(s) + Len(t)
         /\ \A i \in 1..Len(s) : (s \o t)[i] = s[i]
         /\ \A i \in 1..Len(t) : (s \o t)[Len(s) + i] = t[i]
OBVIOUS

\* The transmit routine: as many bytes as the FIFO was seen to have space for, so
\* that none is dropped.
LEMMA PrintIrqWrite ==
  ASSUME PrintInv, IrqWrite
  PROVE  LineOut' /\ SpaceLeft' /\ RoomLeft' /\ Copied' /\ Grows
<1> USE UartAssumption DEF PrintInv
<1> DEFINE q == Queued(tx_in, tx_out)
           h == Len(heard)
           w == Len(wfifo)
           bytes == [i \in 1..Sends |-> tx_buf[(tx_out + i - 1) % BUF_LEN]]
<1>1. /\ UNCHANGED <<tx_in, tx_buf, heard, program>> /\ isr = "write" /\ isr' = "control"
      /\ tx_out' = (tx_out + Sends) % BUF_LEN
      /\ wfifo' = Fitting(wfifo \o bytes)
  BY DEF IrqWrite, host
<1>2. /\ tx_in \in Slots /\ tx_out \in Slots /\ tx_buf \in [Slots -> Nat]
      /\ wfifo \in Seq(Nat) /\ heard \in Seq(Nat) /\ control.WSPACE \in 0..WRITE_DEPTH
      /\ q \in Slots /\ Handed \in Nat
  BY WireTypes, HandedIsNat DEF LineOut
<1>3. h \in Nat /\ w \in Nat /\ q \in Nat /\ q <= BUF_LEN - 1
  BY SMTT(30), <1>2 DEF Slots
<1>4. Sends \in 0..q /\ w + Sends <= WRITE_DEPTH
  <2>1. control.WSPACE <= WRITE_DEPTH - w
    BY <1>1 DEF SpaceLeft
  <2>2. Sends \in Nat /\ Sends <= q /\ Sends <= control.WSPACE
    BY <1>2, <1>3 DEF Sends, Least
  <2> QED BY <1>2, <1>3, <2>1, <2>2
<1>5. ASSUME NEW i \in 1..Sends
      PROVE  tx_buf[(tx_out + i - 1) % BUF_LEN] = h + w + i
  <2>1. i \in 1..Queued(tx_in, tx_out)
    BY <1>3, <1>4
  <2> QED BY <2>1 DEF LineOut, Slot
<1>6. bytes \in Seq(Nat) /\ Len(bytes) = Sends /\ \A i \in 1..Sends : bytes[i] = h + w + i
  BY <1>3, <1>4, <1>5
<1> HIDE DEF bytes
<1> DEFINE all == wfifo \o bytes
<1>7. /\ all \in Seq(Nat) /\ Len(all) = w + Sends
      /\ \A i \in 1..w : all[i] = wfifo[i]
      /\ \A i \in 1..Sends : all[w + i] = bytes[i]
  <2>1. /\ all \in Seq(Nat) /\ Len(all) = w + Len(bytes)
        /\ \A i \in 1..w : all[i] = wfifo[i]
        /\ \A i \in 1..Len(bytes) : all[w + i] = bytes[i]
    BY <1>2, <1>6, Joined
  <2> QED BY <1>6, <2>1
<1> HIDE DEF all
<1>8. Fitting(all) = all
  <2>1. Least(Len(all), WRITE_DEPTH) = Len(all)
    BY <1>3, <1>4, <1>7 DEF Least
  <2>2. SubSeq(all, 1, Len(all)) = all
    BY <1>7
  <2> QED BY <2>1, <2>2 DEF Fitting
<1>9. wfifo' = all
  BY <1>1, <1>8 DEF all
<1>10. \A i \in 1..Len(wfifo') : wfifo'[i] = Len(heard') + i
  <2>1. ASSUME NEW i \in 1..w + Sends
        PROVE  all[i] = h + i
    <3>1. CASE i <= w
      <4>1. i \in 1..w
        BY <1>3, <1>4, <3>1
      <4> QED BY <1>7, <4>1 DEF LineOut
    <3>2. CASE i > w
      <4>1. i - w \in 1..Sends /\ w + (i - w) = i
        BY <1>3, <1>4, <3>2
      <4>2. all[w + (i - w)] = bytes[i - w] /\ bytes[i - w] = h + w + (i - w)
        BY <1>6, <1>7, <4>1
      <4> QED BY <1>3, <1>4, <4>1, <4>2
    <3> QED BY <1>3, <1>4, <3>1, <3>2
  <2> QED BY <1>1, <1>7, <1>9, <2>1
<1>11. /\ Queued(tx_in, tx_out)' = q - Sends
       /\ \A i \in 1..q - Sends : Slot(tx_out', i) = Slot(tx_out, Sends + i)
  BY <1>1, <1>2, <1>4, TakesOut DEF Queued
<1>12. \A i \in 1..q - Sends :
         tx_buf[Slot(tx_out', i)] = h + (w + Sends) + i
  <2>1. SUFFICES ASSUME NEW i \in 1..q - Sends
                 PROVE  tx_buf[Slot(tx_out', i)] = h + (w + Sends) + i
    OBVIOUS
  <2>2. Sends + i \in 1..Queued(tx_in, tx_out)
    BY <1>3, <1>4
  <2>3. tx_buf[Slot(tx_out, Sends + i)] = h + w + (Sends + i)
    BY <2>2 DEF LineOut
  <2> QED BY <1>3, <1>4, <1>11, <2>3
<1>13. Handed' = Handed
  BY <1>1 DEF Handed, writing, program
<1>14. LineOut'
  <2>1. Handed' = Len(heard') + Len(wfifo') + Queued(tx_in, tx_out)'
    <3>1. Handed = h + w + q
      BY DEF LineOut
    <3>2. Len(heard') = h /\ Len(wfifo') = w + Sends
      BY <1>1, <1>7, <1>9
    <3> QED BY <1>3, <1>4, <1>11, <1>13, <3>1, <3>2
  <2>2. \A i \in 1..Queued(tx_in, tx_out)' :
          tx_buf'[Slot(tx_out', i)] = Len(heard') + Len(wfifo') + i
    BY <1>1, <1>7, <1>9, <1>11, <1>12
  <2> QED BY <1>1, <1>2, <1>10, <2>1, <2>2 DEF LineOut, Slot
<1>15. RoomLeft'
  <2>1. n \in Nat /\ pc' = pc /\ n' = n
    BY <1>1, WireTypes DEF program
  <2> QED BY <1>3, <1>4, <1>11, <2>1 DEF RoomLeft
<1>16. SpaceLeft' /\ Grows
  BY <1>1, <1>2, <1>3, <1>13 DEF SpaceLeft, Grows
<1>17. Copied'
  BY <1>1, <1>13 DEF Copied, program
<1> QED BY <1>14, <1>15, <1>16, <1>17

\* Where the next n bytes go: in one piece, into slots that nothing waits in.
LEMMA NextSlots ==
  ASSUME PrintInv, pc \in {"copy_in", "move_in"}
  PROVE  LET q == Queued(tx_in, tx_out)
         IN  /\ Queued((tx_in + n) % BUF_LEN, tx_out) = q + n
             /\ \A j \in 1..n : tx_in + j - 1 \in Slots
             /\ \A i \in 1..n : Slot(tx_out, q + i) = tx_in + i - 1
             /\ \A i \in 1..q : /\ Slot(tx_out, i) \in Slots
                                /\ Slot(tx_out, i) \notin tx_in..tx_in + n - 1
<1> USE UartAssumption DEF PrintInv
<1> DEFINE q == Queued(tx_in, tx_out)
<1>1. tx_in \in Slots /\ tx_out \in Slots /\ n \in Nat /\ q \in Slots
  BY WireTypes
<1>2. n \in 1..BUF_LEN - tx_in /\ q + n <= BUF_LEN - 1
  BY DEF UartInv, Types, TypesOfProgram, RoomLeft
<1>3. q \in Nat
  BY <1>1 DEF Slots
<1>4. /\ Queued((tx_in + n) % BUF_LEN, tx_out) = q + n
      /\ \A i \in 1..n : Slot(tx_out, q + i) = Slot(tx_in, i)
      /\ \A i \in 1..q, j \in 1..n : Slot(tx_out, i) # Slot(tx_in, j)
  BY <1>1, <1>2, PutsIn
<1>5. \A j \in 1..n : tx_in + j - 1 \in Slots /\ Slot(tx_in, j) = tx_in + j - 1
  <2>1. SUFFICES ASSUME NEW j \in 1..n
                 PROVE  tx_in + j - 1 \in Slots /\ Slot(tx_in, j) = tx_in + j - 1
    OBVIOUS
  <2>2. j \in 1..BUF_LEN /\ tx_in + j - 1 < BUF_LEN /\ tx_in + j - 1 \in Slots
    BY SMTT(30), <1>1, <1>2 DEF Slots
  <2> QED BY <1>1, <2>2, SlotIs
<1>6. \A i \in 1..q + n : Slot(tx_out, i) \in Slots
  BY SMTT(30), <1>1, <1>2, <1>3, SlotIs
<1>7. ASSUME NEW i \in 1..q
      PROVE  Slot(tx_out, i) \in Slots /\ Slot(tx_out, i) \notin tx_in..tx_in + n - 1
  <2>1. Slot(tx_out, i) \in Slots
    BY <1>1, <1>3, <1>6
  <2>2. SUFFICES ASSUME Slot(tx_out, i) \in tx_in..tx_in + n - 1 PROVE FALSE
    BY <2>1
  <2>3. \A t \in tx_in..tx_in + n - 1 : t - tx_in + 1 \in 1..n /\ tx_in + (t - tx_in + 1) - 1 = t
    BY <1>1 DEF Slots
  <2>4. PICK j \in 1..n : tx_in + j - 1 = Slot(tx_out, i)
    BY <2>2, <2>3
  <2>5. Slot(tx_in, j) = Slot(tx_out, i)
    BY <1>5, <2>4
  <2> QED BY <1>4, <2>5
<1> QED BY <1>4, <1>5, <1>7

\* A write copies what it has, behind what is queued, into slots the routine is
\* not about to send.
LEMMA PrintWriteCopies ==
  ASSUME PrintInv, WriteCopies
  PROVE  LineOut' /\ SpaceLeft' /\ RoomLeft' /\ Copied' /\ Grows
<1> USE UartAssumption DEF PrintInv
<1> DEFINE q == Queued(tx_in, tx_out)
           sent == Len(heard) + Len(wfifo)
<1>1. /\ UNCHANGED <<tx_in, tx_out, n, printed, moved, heard, wfifo, isr, control>>
      /\ pc = "copy_in" /\ pc' = "move_in"
      /\ tx_buf' = [i \in Slots |->
                      IF i \in tx_in..tx_in + n - 1 THEN printed + moved + i - tx_in + 1
                      ELSE tx_buf[i]]
  BY DEF WriteCopies, Runs, routine, host, wires, Slots
<1>2. /\ tx_in \in Slots /\ tx_out \in Slots /\ n \in Nat /\ moved \in Nat /\ printed \in Nat
      /\ heard \in Seq(Nat) /\ Handed \in Nat
  BY WireTypes, HandedIsNat DEF LineOut
<1>3. Handed = printed + moved /\ Handed' = Handed /\ Queued(tx_in, tx_out)' = q
  BY <1>1 DEF Handed, writing, Queued
<1>4. ASSUME NEW i \in 1..q
      PROVE  tx_buf'[Slot(tx_out, i)] = sent + i
  <2>1. Slot(tx_out, i) \in Slots /\ Slot(tx_out, i) \notin tx_in..tx_in + n - 1
    BY <1>1, NextSlots
  <2>2. tx_buf[Slot(tx_out, i)] = sent + i
    BY DEF LineOut
  <2> QED BY <1>1, <2>1, <2>2
<1>5. LineOut'
  BY <1>1, <1>3, <1>4 DEF LineOut, Slot
<1>6. ASSUME NEW i \in 1..n
      PROVE  tx_buf'[tx_in + i - 1] = Handed + i
  <2>1. tx_in + i - 1 \in Slots
    BY <1>1, NextSlots
  <2>2. tx_in + i - 1 \in tx_in..tx_in + n - 1
    BY SMTT(30), <1>2 DEF Slots
  <2>3. tx_buf'[tx_in + i - 1] = printed + moved + (tx_in + i - 1) - tx_in + 1
    BY <1>1, <2>1, <2>2
  <2>4. printed + moved + (tx_in + i - 1) - tx_in + 1 = (printed + moved) + i
    BY <1>2 DEF Slots
  <2> QED BY <1>3, <2>3, <2>4
<1>7. Copied'
  BY <1>1, <1>3, <1>6 DEF Copied
<1>8. SpaceLeft' /\ RoomLeft'
  BY <1>1, <1>3 DEF SpaceLeft, RoomLeft
<1>9. Grows
  BY <1>1, <1>2, <1>3 DEF Grows
<1> QED BY <1>5, <1>7, <1>8, <1>9

\* Then tx_in moves over them, and the routine may send them.
LEMMA PrintWriteMoves ==
  ASSUME PrintInv, WriteMoves
  PROVE  LineOut' /\ SpaceLeft' /\ RoomLeft' /\ Copied' /\ Grows
<1> USE UartAssumption DEF PrintInv
<1> DEFINE q == Queued(tx_in, tx_out)
           sent == Len(heard) + Len(wfifo)
<1>1. /\ UNCHANGED <<tx_out, tx_buf, printed, heard, wfifo, isr, control>>
      /\ pc = "move_in" /\ pc' = "write"
      /\ tx_in' = (tx_in + n) % BUF_LEN /\ moved' = moved + n
  BY DEF WriteMoves, Runs, routine, host, wires
<1>2. /\ tx_in \in Slots /\ tx_out \in Slots /\ n \in Nat /\ moved \in Nat /\ printed \in Nat
      /\ wfifo \in Seq(Nat) /\ heard \in Seq(Nat) /\ q \in Slots
  BY WireTypes DEF LineOut
<1>3. sent \in Nat /\ q \in Nat
  BY <1>2 DEF Slots
<1>4. Handed = sent + q /\ Handed' = Handed + n
  <2>1. Handed = printed + moved /\ Handed' = printed' + moved'
    BY <1>1 DEF Handed, writing
  <2>2. Handed = sent + q
    BY DEF LineOut
  <2>3. Handed' = printed + (moved + n)
    BY <1>1, <2>1
  <2>4. printed + (moved + n) = (printed + moved) + n
    BY <1>2
  <2> QED BY <2>1, <2>2, <2>3, <2>4
<1>5. Queued(tx_in, tx_out)' = q + n /\ \A i \in 1..n : Slot(tx_out, q + i) = tx_in + i - 1
  BY <1>1, NextSlots DEF Queued
<1>6. \A i \in 1..q + n : tx_buf[Slot(tx_out, i)] = sent + i
  <2>1. SUFFICES ASSUME NEW i \in 1..q + n
                 PROVE  tx_buf[Slot(tx_out, i)] = sent + i
    OBVIOUS
  <2>2. CASE i <= q
    <3>1. i \in 1..q
      BY <1>2, <1>3, <2>2
    <3> QED BY <3>1 DEF LineOut
  <2>3. CASE ~ (i <= q)
    <3>1. i - q \in 1..n /\ q + (i - q) = i
      BY <1>2, <1>3, <2>3
    <3>2. tx_buf[tx_in + (i - q) - 1] = Handed + (i - q)
      BY <1>1, <3>1 DEF Copied
    <3>3. Slot(tx_out, q + (i - q)) = tx_in + (i - q) - 1
      BY <1>5, <3>1
    <3>4. tx_buf[Slot(tx_out, i)] = (sent + q) + (i - q)
      BY <1>4, <3>1, <3>2, <3>3
    <3>5. (sent + q) + (i - q) = sent + i
      BY <1>3
    <3> QED BY <3>4, <3>5
  <2> QED BY <2>2, <2>3
<1>7. LineOut'
  <2>1. Handed' = Len(heard') + Len(wfifo') + Queued(tx_in, tx_out)'
    <3>1. Handed' = (sent + q) + n
      BY <1>4
    <3>2. (sent + q) + n = sent + (q + n)
      BY <1>2, <1>3
    <3> QED BY <1>1, <1>5, <3>1, <3>2
  <2>2. \A i \in 1..Queued(tx_in, tx_out)' :
          tx_buf'[Slot(tx_out', i)] = Len(heard') + Len(wfifo') + i
    BY <1>1, <1>5, <1>6
  <2> QED BY <1>1, <1>2, <2>1, <2>2 DEF LineOut, Slot
<1>8. SpaceLeft' /\ RoomLeft' /\ Copied'
  BY <1>1 DEF SpaceLeft, RoomLeft, Copied
<1>9. Grows
  BY <1>1, <1>2, <1>3, <1>4 DEF Grows
<1> QED BY <1>7, <1>8, <1>9

\* How much a write copies in one piece leaves the slot free that tells full
\* from empty.
LEMMA RoomIsLeft ==
  ASSUME NEW in \in Slots, NEW out \in Slots
  PROVE  Queued(in, out) + Room(in, out) <= BUF_LEN - 1
BY QueuedIs, UartAssumption DEF Room, Slots

LEMMA PrintWrite ==
  ASSUME PrintInv, WriteLooks \/ WriteKicks \/ WriteAwaits
  PROVE  LineOut' /\ SpaceLeft' /\ RoomLeft' /\ Copied' /\ Grows
<1> USE UartAssumption DEF PrintInv
<1>1. /\ tx_in \in Slots /\ tx_out \in Slots /\ n \in Nat /\ todo \in Nat
      /\ moved \in Nat /\ printed \in Nat /\ Queued(tx_in, tx_out) \in Slots
  BY WireTypes
<1>2. UNCHANGED <<tx_in, tx_out, tx_buf, heard, wfifo, isr, control>>
  BY DEF WriteLooks, WriteKicks, WriteAwaits, record, routine, wires, host
<1>3. Handed' = Handed
  <2>1. CASE WriteLooks
    BY <2>1 DEF WriteLooks, Runs, Handed, writing
  <2>2. CASE WriteKicks \/ WriteAwaits
    <3>1. pc \in {"kick", "await_space"}
          /\ \/ pc' = "idle" /\ printed' = printed + moved
             \/ pc' \in {"await_space", "write"} /\ printed' = printed /\ moved' = moved
      BY <2>2 DEF WriteKicks, WriteAwaits, Runs, Return
    <3> QED BY <1>1, <3>1 DEF Handed, writing
  <2> QED BY <2>1, <2>2
<1>4. RoomLeft'
  <2>1. CASE WriteLooks
    <3>1. n' = Least(Room(tx_in, tx_out), todo)
      BY <2>1 DEF WriteLooks
    <3>2. Room(tx_in, tx_out) \in 0..BUF_LEN - tx_in
      BY <1>1, RoomFits DEF Slots
    <3>3. n' \in Nat /\ n' <= Room(tx_in, tx_out)
      BY <1>1, <3>1, <3>2, LeastOfTwo DEF Slots
    <3>4. Queued(tx_in, tx_out) + n' <= BUF_LEN - 1
      BY <1>1, <3>2, <3>3, RoomIsLeft DEF Slots
    <3>5. Queued(tx_in, tx_out)' = Queued(tx_in, tx_out)
      BY <1>2 DEF Queued
    <3> QED BY <3>4, <3>5 DEF RoomLeft
  <2>2. CASE WriteKicks \/ WriteAwaits
    BY <2>2 DEF RoomLeft, WriteKicks, WriteAwaits, Runs, Return
  <2> QED BY <2>1, <2>2
<1>5. pc' # "move_in"
  BY DEF WriteLooks, WriteKicks, WriteAwaits, Runs, Return
<1> QED BY <1>2, <1>3, <1>4, <1>5, PrintSame

\* The steps in which no byte of a write moves.
LEMMA PrintOthers ==
  ASSUME PrintInv,
         \/ CallWrite \/ CallRead \/ CallClose \/ \E arg \in play.timeouts : SetTimeout(arg)
         \/ ReadLooks \/ ReadCopies \/ ReadMoves \/ ReadAwaits \/ ReadEnables \/ Close
         \/ IrqEnter \/ IrqControl \/ IrqFull \/ IrqByte \/ IrqNoByte
         \/ Tick \/ OtherAlarms
         \/ HostTypes \/ HostPauses \/ HostLeaves \/ HostComes
         \/ UNCHANGED vars
  PROVE  LineOut' /\ SpaceLeft' /\ RoomLeft' /\ Copied' /\ Grows
<1> USE UartAssumption DEF PrintInv
<1>1. CASE CallWrite \/ CallRead \/ CallClose
  <2>1. /\ UNCHANGED <<tx_in, tx_out, tx_buf, heard, wfifo, isr, control, printed>>
        /\ pc = "idle" /\ pc' \in {"write", "read", "close"} /\ moved' = 0
    BY <1>1 DEF CallWrite, CallRead, CallClose, Call, Runs, record, routine, wires, host
  <2>2. Handed' = Handed
    <3>1. printed \in Nat
      BY WireTypes
    <3> QED BY <2>1, <3>1 DEF Handed, writing
  <2>3. RoomLeft'
    BY <2>1 DEF RoomLeft
  <2> QED BY <2>1, <2>2, <2>3, PrintSame
<1>2. CASE ReadLooks \/ ReadCopies \/ ReadMoves \/ ReadAwaits \/ ReadEnables \/ Close
  <2>1. /\ UNCHANGED <<tx_in, tx_out, tx_buf, heard, wfifo, isr, control, printed>>
        /\ pc \in {"read", "copy_out", "move_out", "await_byte", "enable", "close"}
        /\ pc' \in {"read", "copy_out", "move_out", "await_byte", "enable", "idle"}
    BY <1>2 DEF ReadLooks, ReadCopies, ReadMoves, ReadAwaits, ReadEnables, Close, Return,
       Runs, record, routine, wires, host
  <2>2. Handed' = Handed /\ RoomLeft'
    BY <2>1 DEF Handed, writing, RoomLeft
  <2> QED BY <2>1, <2>2, PrintSame
<1>3. CASE (\E arg \in play.timeouts : SetTimeout(arg)) \/ Tick \/ OtherAlarms
           \/ HostTypes \/ HostPauses \/ HostLeaves \/ HostComes \/ UNCHANGED vars
  <2>1. UNCHANGED <<tx_in, tx_out, tx_buf, heard, wfifo, isr, control, program>>
    BY <1>3 DEF SetTimeout, Tick, OtherAlarms, HostTypes, HostPauses, HostLeaves, HostComes,
       vars, record, routine, wires, host
  <2>2. Handed' = Handed /\ UNCHANGED <<pc, n>>
    BY <2>1 DEF program, Handed, writing
  <2> QED BY <2>1, <2>2, PrintSame
<1>4. CASE IrqEnter \/ IrqControl \/ IrqFull \/ IrqByte \/ IrqNoByte
  <2>1. UNCHANGED <<tx_in, tx_out, tx_buf, heard, wfifo, program>>
    BY <1>4 DEF IrqEnter, IrqControl, IrqFull, IrqByte, IrqNoByte, record, wires, host
  <2>2. Handed' = Handed /\ UNCHANGED <<pc, n>>
    BY <2>1 DEF program, Handed, writing
  <2>3. SpaceLeft'
    <3>1. CASE IrqEnter
      BY <3>1 DEF IrqEnter, SpaceLeft
    <3>2. CASE IrqControl
      <4>1. isr' \in {"read", "write"} => control'.WSPACE = WRITE_DEPTH - Len(wfifo)
        BY <3>2 DEF IrqControl
      <4>2. Len(wfifo) \in Nat
        BY WireTypes
      <4> QED BY <2>1, <4>1, <4>2 DEF SpaceLeft
    <3>3. CASE IrqFull \/ IrqNoByte
      BY <2>1, <3>3 DEF IrqFull, IrqNoByte, SpaceLeft
    <3>4. CASE IrqByte
      <4>1. control'.WSPACE = control.WSPACE /\ isr' = isr
        BY <3>4 DEF IrqByte, UartInv, Types, TypesOfRoutine
      <4> QED BY <2>1, <4>1 DEF SpaceLeft
    <3> QED BY <1>4, <3>1, <3>2, <3>3, <3>4
  <2> QED BY <2>1, <2>2, <2>3, PrintSame
<1> QED BY <1>1, <1>2, <1>3, <1>4

LEMMA PrintStep == PrintInv /\ [UartNext]_vars => PrintInv' /\ Grows
<1>1. SUFFICES ASSUME PrintInv, [UartNext]_vars PROVE PrintInv' /\ Grows
  OBVIOUS
<1>2. UartInv'
  BY <1>1, UartStep DEF PrintInv
<1>3. LineOut' /\ SpaceLeft' /\ RoomLeft' /\ Copied' /\ Grows
  BY <1>1, PrintHostTakes, PrintIrqWrite, PrintWriteCopies,
     PrintWriteMoves, PrintWrite, PrintOthers
     DEF UartNext, Program, Interrupt
<1> QED BY <1>2, <1>3 DEF PrintInv

\* Numbers of which the second are more are a continuation.
LEMMA NumbersGoOn ==
  ASSUME NEW i \in Nat, NEW j \in Nat, i <= j
  PROVE  /\ PrintLine!IsPrefix(Numbers(1, i), Numbers(1, j))
         /\ TypeLine!IsPrefix(Numbers(1, i), Numbers(1, j))
         /\ Len(Numbers(1, i)) = i
<1>1. /\ Numbers(1, i) \in Seq(Int) /\ Len(Numbers(1, i)) = i
      /\ \A k \in 1..i : Numbers(1, i)[k] = k
  BY DEF Numbers
<1>2. /\ Numbers(1, j) \in Seq(Int) /\ Len(Numbers(1, j)) = j
      /\ \A k \in 1..j : Numbers(1, j)[k] = k
  BY DEF Numbers
<1> DEFINE s == Numbers(1, i)
           t == Numbers(1, j)
<1> HIDE DEF s, t
<1>3. SubSeq(s, 1, i) = SubSeq(t, 1, i)
  BY <1>1, <1>2 DEF s, t
<1> QED BY <1>1, <1>2, <1>3 DEF s, t, PrintLine!IsPrefix, TypeLine!IsPrefix

LEMMA HeardIs == ASSUME LineOut PROVE heard = Numbers(1, Len(heard))
<1>1. Len(heard) \in Nat /\ heard = [i \in 1..Len(heard) |-> heard[i]]
  BY DEF LineOut
<1>2. \A i \in 1..Len(heard) : heard[i] = 1 + i - 1
  BY DEF LineOut
<1> QED BY <1>1, <1>2 DEF Numbers

HeardInOrder ==
  /\ Handed \in Nat /\ Len(heard) \in Nat
  /\ Handed - Len(heard) \in 0..BUF_LEN - 1 + WRITE_DEPTH
  /\ heard = Numbers(1, Len(heard))

LEMMA HeardIsInOrder == PrintInv => HeardInOrder
<1>1. SUFFICES ASSUME PrintInv PROVE HeardInOrder
  OBVIOUS
<1>2. /\ Queued(tx_in, tx_out) \in 0..BUF_LEN - 1 /\ Len(wfifo) \in 0..WRITE_DEPTH
      /\ Handed \in Nat /\ Len(heard) \in Nat
  <2>1. Queued(tx_in, tx_out) \in 0..BUF_LEN - 1
    BY <1>1, WireTypes DEF PrintInv, Slots
  <2>2. wfifo \in Seq(Nat) /\ heard \in Seq(Nat) /\ Len(wfifo) <= WRITE_DEPTH
    BY <1>1, WireTypes DEF PrintInv, LineOut
  <2>3. Len(wfifo) \in 0..WRITE_DEPTH /\ Len(heard) \in Nat
    BY <2>2, UartAssumption
  <2> QED BY <1>1, <2>1, <2>3, HandedIsNat DEF PrintInv
<1>3. Handed = Len(heard) + Len(wfifo) + Queued(tx_in, tx_out)
  BY <1>1 DEF PrintInv, LineOut
<1>4. Handed - Len(heard) \in 0..BUF_LEN - 1 + WRITE_DEPTH
  BY <1>2, <1>3, UartAssumption
<1> QED BY <1>1, <1>2, <1>4, HeardIs DEF PrintInv, HeardInOrder

\* What a program prints reaches the host in order, nothing twice and nothing
\* lost (altera_avalon_jtag_uart_write and its _txirq): the driver and the FIFO
\* implement ByteLine.
THEOREM PrintingKeepsOrder == UartSpec => PrintsInOrder
<1>1. UartInit => PrintInv
  BY PrintInitially
<1>2. PrintInv /\ [UartNext]_vars => PrintInv'
  BY PrintStep
<1>3. UartInit => PrintLine!ByteLineInit
  <2>1. SUFFICES ASSUME UartInit PROVE PrintLine!ByteLineInit
    OBVIOUS
  <2>2. Handed = 0 /\ heard = <<>>
    BY <2>1 DEF UartInit, Handed, writing
  <2> QED BY <2>2 DEF Numbers, PrintLine!ByteLineInit
<1>4. HeardInOrder /\ HeardInOrder' /\ Grows => PrintLine!Next
  <2>1. SUFFICES ASSUME HeardInOrder, HeardInOrder', Grows
                 PROVE  PrintLine!Next
    OBVIOUS
  <2>2. /\ Handed' >= Handed /\ Len(heard') >= Len(heard)
        /\ Handed \in Nat /\ Handed' \in Nat /\ Len(heard) \in Nat /\ Len(heard') \in Nat
        /\ Handed' - Len(heard') \in 0..BUF_LEN - 1 + WRITE_DEPTH
    BY <2>1 DEF Grows, HeardInOrder
  <2>3. heard = Numbers(1, Len(heard)) /\ heard' = Numbers(1, Len(heard'))
    BY <2>1 DEF HeardInOrder, Numbers
  <2>4. Numbers(1, Handed)' = Numbers(1, Handed') /\ Len(heard') <= Handed'
    BY <2>2, UartAssumption DEF Numbers
  <2>5. PrintLine!IsPrefix(Numbers(1, Handed), Numbers(1, Handed'))
        /\ Len(Numbers(1, Handed')) = Handed'
    BY <2>2, NumbersGoOn
  <2>6. PrintLine!IsPrefix(Numbers(1, Len(heard)), Numbers(1, Len(heard')))
    BY <2>2, NumbersGoOn
  <2>7. PrintLine!IsPrefix(Numbers(1, Len(heard')), Numbers(1, Handed'))
    BY <2>2, <2>4, NumbersGoOn
  <2>8. Handed' - Len(heard') <= BUF_LEN - 1 + WRITE_DEPTH
    BY <2>2, UartAssumption
  <2> QED BY <2>3, <2>4, <2>5, <2>6, <2>7, <2>8 DEF PrintLine!Next
<1> QED BY <1>1, <1>2, <1>3, <1>4, HeardIsInOrder, PrintStep, PTL
        DEF UartSpec, PrintsInOrder, PrintLine!ByteLineSpec

-----------------------------------------------------------------------------
\* Typing.

\* The bytes whose places in rx_buf are free again: a read frees what it has taken
\* one step later.
Freed == IF pc = "move_out" THEN Len(taken) - n ELSE Len(taken)

\* The bytes on their way to the program: those freed, those in rx_buf and those in
\* the FIFO are the ones typed so far, in their order, as are those it has taken.
LineIn ==
  /\ taken \in Seq(Nat) /\ rx_buf \in [Slots -> Nat] /\ Freed \in Nat
  /\ \A i \in 1..Len(taken) : taken[i] = i
  /\ \A i \in 1..Queued(rx_in, rx_out) : rx_buf[Slot(rx_out, i)] = Freed + i
  /\ \A i \in 1..Len(rfifo) : rfifo[i] = Freed + Queued(rx_in, rx_out) + i
  /\ typed = Freed + Queued(rx_in, rx_out) + Len(rfifo)

\* What a read copies and frees is in rx_buf: the routine can only have added to it.
BytesLeft == pc \in {"copy_out", "move_out"} => n <= Queued(rx_in, rx_out)

TypeInv == UartInv /\ LineIn /\ BytesLeft

LEMMA TypeInitially == UartInit => TypeInv
<1> SUFFICES ASSUME UartInit PROVE TypeInv
  OBVIOUS
<1>1. UartInv
  BY UartInitially
<1>2. Queued(rx_in, rx_out) = 0
  BY UartAssumption DEF UartInit, Queued
<1>3. taken = <<>> /\ rfifo = <<>> /\ typed = 0 /\ rx_buf \in [Slots -> Nat]
  BY DEF UartInit, Slots
<1> QED BY <1>1, <1>2, <1>3 DEF TypeInv, LineIn, Freed, BytesLeft, UartInit

\* What the program takes and the host types only grows.
Advances == typed' >= typed /\ Len(taken') >= Len(taken)

\* A step that leaves the line alone.
LEMMA TypeSame ==
  ASSUME TypeInv, UNCHANGED <<rx_in, rx_out, rx_buf, rfifo, typed, taken>>, Freed' = Freed
  PROVE  /\ LineIn' /\ Advances
         /\ UNCHANGED <<pc, n>> => BytesLeft'
<1>1. Queued(rx_in, rx_out)' = Queued(rx_in, rx_out)
  BY DEF Queued
<1>2. LineIn'
  BY <1>1 DEF TypeInv, LineIn, Slot
<1>3. Advances
  <2>1. typed \in Nat /\ Len(taken) \in Nat
    BY WireTypes DEF TypeInv, LineIn
  <2> QED BY <2>1 DEF Advances
<1>4. UNCHANGED <<pc, n>> => BytesLeft'
  BY <1>1 DEF TypeInv, BytesLeft
<1> QED BY <1>2, <1>3, <1>4

\* The host types a byte, into a FIFO that has space for it.
LEMMA TypeHostTypes ==
  ASSUME TypeInv, UNCHANGED <<rx_in, rx_out, rx_buf, taken, pc, n>>,
         rfifo' = Append(rfifo, typed + 1), typed' = typed + 1
  PROVE  LineIn' /\ BytesLeft' /\ Advances
<1> USE DEF TypeInv
<1> DEFINE q == Queued(rx_in, rx_out)
           k == Freed
<1>1. /\ rfifo \in Seq(Nat) /\ typed \in Nat /\ q \in Nat /\ k \in Nat
      /\ typed = k + q + Len(rfifo) /\ Len(rfifo) \in Nat
  <2>1. q \in Slots /\ rfifo \in Seq(Nat) /\ typed \in Nat
    BY WireTypes
  <2>2. q \in Nat
    BY <2>1, UartAssumption DEF Slots
  <2>3. k \in Nat /\ typed = k + q + Len(rfifo)
    BY DEF LineIn
  <2> QED BY <2>1, <2>2, <2>3
<1>2. q' = q /\ k' = k
  BY DEF Queued, Freed
<1>3. /\ Len(rfifo') = Len(rfifo) + 1
      /\ \A i \in 1..Len(rfifo) : rfifo'[i] = rfifo[i]
      /\ rfifo'[Len(rfifo) + 1] = typed + 1
  BY <1>1
<1> HIDE DEF q, k
<1>4. ASSUME NEW i \in 1..Len(rfifo')
      PROVE  rfifo'[i] = k + q + i
  <2>1. CASE i = Len(rfifo) + 1
    BY <1>1, <1>3, <2>1
  <2>2. CASE i # Len(rfifo) + 1
    <3>1. i \in 1..Len(rfifo)
      BY <1>1, <1>3, <2>2
    <3>2. rfifo[i] = k + q + i
      BY <3>1 DEF LineIn, k, q
    <3> QED BY <1>3, <3>1, <3>2
  <2> QED BY <2>1, <2>2
<1>5. typed' = k + q + Len(rfifo')
  BY <1>1, <1>3
<1>6. \A i \in 1..q : rx_buf[Slot(rx_out, i)] = k + i
  BY DEF LineIn, q, k
<1>7. LineIn'
  BY <1>2, <1>4, <1>5, <1>6 DEF LineIn, Slot, q, k
<1>8. Len(taken) \in Nat
  BY DEF LineIn
<1>9. BytesLeft' /\ Advances
  BY <1>1, <1>2, <1>8 DEF BytesLeft, Advances, q
<1> QED BY <1>7, <1>9

\* The receive routine, which only takes a byte while rx_buf is not full.
LEMMA TypeIrqByte ==
  ASSUME TypeInv, IrqByte
  PROVE  LineIn' /\ BytesLeft' /\ Advances
<1> USE UartAssumption DEF TypeInv
<1> DEFINE q == Queued(rx_in, rx_out)
           k == Freed
<1>1. /\ UNCHANGED <<rx_out, taken, typed, pc, n>> /\ Freed' = k
      /\ (rx_in + 1) % BUF_LEN # rx_out /\ rx_in' = (rx_in + 1) % BUF_LEN
      /\ rx_buf' = [rx_buf EXCEPT ![rx_in] = Head(rfifo)]
      /\ rfifo # <<>> /\ rfifo' = Tail(rfifo)
  BY DEF IrqByte, rx_full, rx_next, program, host, Freed
<1>2. /\ rx_in \in Slots /\ rx_out \in Slots /\ rx_buf \in [Slots -> Nat]
      /\ rfifo \in Seq(Nat) /\ q \in Slots /\ typed \in Nat /\ k \in Nat /\ n \in Nat
  <2>1. k \in Nat /\ rx_buf \in [Slots -> Nat]
    BY DEF LineIn
  <2> QED BY <2>1, WireTypes
<1>3. q \in Nat /\ q <= BUF_LEN - 1 /\ typed = k + q + Len(rfifo)
  BY <1>2 DEF Slots, LineIn
<1>4. q + 1 <= BUF_LEN - 1
  <2>1. 1 \in Slots
    BY DEF Slots
  <2>2. (rx_in + 1) % BUF_LEN = IF rx_in + 1 < BUF_LEN THEN rx_in + 1 ELSE rx_in + 1 - BUF_LEN
    BY <1>2, <2>1, MovedOn
  <2>3. q = IF rx_in >= rx_out THEN rx_in - rx_out ELSE rx_in - rx_out + BUF_LEN
    BY <1>2, QueuedIs
  <2> QED BY SMTT(30), <1>1, <1>2, <2>2, <2>3 DEF Slots
<1>5. /\ Queued(rx_in', rx_out) = q + 1
      /\ \A i \in 1..1 : Slot(rx_out, q + i) = Slot(rx_in, i)
      /\ \A i \in 1..q, j \in 1..1 : Slot(rx_out, i) # Slot(rx_in, j)
  BY <1>1, <1>2, <1>4, PutsIn
<1>6. Slot(rx_in, 1) = rx_in
  BY <1>2, SlotIs DEF Slots
<1>7. /\ Len(rfifo) \in Nat \ {0} /\ Len(rfifo') = Len(rfifo) - 1 /\ Head(rfifo) = rfifo[1]
      /\ Head(rfifo) \in Nat /\ \A i \in 1..Len(rfifo') : rfifo'[i] = rfifo[i + 1]
  BY <1>1, <1>2
<1> HIDE DEF q, k
<1>8. \A i \in 1..Len(rfifo) : rfifo[i] = k + q + i
  BY DEF LineIn, q, k
<1>9. ASSUME NEW i \in 1..q + 1
      PROVE  rx_buf'[Slot(rx_out, i)] = k + i
  <2>1. Slot(rx_out, i) \in Slots
    BY <1>2, <1>3, <1>4, SlotIs
  <2>2. CASE i = q + 1
    <3>1. Slot(rx_out, i) = rx_in
      BY <1>5, <1>6, <2>2
    <3>2. rfifo[1] = k + q + 1
      BY <1>7, <1>8
    <3> QED BY <1>1, <1>2, <1>3, <1>7, <2>2, <3>1, <3>2
  <2>3. CASE i # q + 1
    <3>1. i \in 1..q
      BY <1>3, <2>3
    <3>2. Slot(rx_out, i) # rx_in
      BY <1>5, <1>6, <3>1
    <3>3. rx_buf[Slot(rx_out, i)] = k + i
      BY <3>1 DEF LineIn, q, k
    <3> QED BY <1>1, <1>2, <2>1, <3>2, <3>3
  <2> QED BY <2>2, <2>3
<1>10. ASSUME NEW i \in 1..Len(rfifo')
       PROVE  rfifo'[i] = k + (q + 1) + i
  <2>1. i + 1 \in 1..Len(rfifo)
    BY <1>7
  <2>2. rfifo[i + 1] = k + q + (i + 1)
    BY <1>8, <2>1
  <2> QED BY <1>2, <1>3, <1>7, <2>2
<1>11. typed = k + (q + 1) + Len(rfifo')
  BY <1>2, <1>3, <1>7
<1>12. Queued(rx_in, rx_out)' = q + 1 /\ Freed' = k
  BY <1>1, <1>5 DEF Queued, k
<1>13. rx_buf' \in [Slots -> Nat]
  BY <1>1, <1>2, <1>7
<1>14. LineIn'
  <2>1. \A i \in 1..Queued(rx_in, rx_out)' : rx_buf'[Slot(rx_out', i)] = Freed' + i
    BY <1>1, <1>9, <1>12
  <2>2. \A i \in 1..Len(rfifo') : rfifo'[i] = Freed' + Queued(rx_in, rx_out)' + i
    BY <1>10, <1>12
  <2>3. typed' = Freed' + Queued(rx_in, rx_out)' + Len(rfifo')
    BY <1>1, <1>11, <1>12
  <2> QED BY <1>1, <1>2, <1>12, <1>13, <2>1, <2>2, <2>3 DEF LineIn, Slot
<1>15. BytesLeft'
  BY <1>1, <1>2, <1>3, <1>12 DEF BytesLeft, q
<1>16. Advances
  <2>1. Len(taken) \in Nat
    BY DEF LineIn
  <2> QED BY <1>1, <1>2, <2>1 DEF Advances
<1> QED BY <1>14, <1>15, <1>16

\* A read copies what was there when it looked, in one piece.
LEMMA TypeReadCopies ==
  ASSUME TypeInv, ReadCopies
  PROVE  LineIn' /\ BytesLeft' /\ Advances
<1> USE UartAssumption DEF TypeInv
<1> DEFINE q == Queued(rx_in, rx_out)
           k == Len(taken)
           bytes == [i \in 1..n |-> rx_buf[rx_out + i - 1]]
<1>1. /\ UNCHANGED <<rx_in, rx_out, rx_buf, rfifo, typed, n>>
      /\ pc = "copy_out" /\ pc' = "move_out" /\ taken' = taken \o bytes
  BY DEF ReadCopies, Runs, record, wires, host
<1>2. /\ rx_in \in Slots /\ rx_out \in Slots /\ rx_buf \in [Slots -> Nat]
      /\ taken \in Seq(Nat) /\ rfifo \in Seq(Nat) /\ q \in Slots /\ typed \in Nat
  BY WireTypes DEF LineIn
<1>3. Freed = k
  BY <1>1 DEF Freed
<1>4. q \in Nat /\ q <= BUF_LEN - 1 /\ k \in Nat /\ Len(rfifo) \in Nat
  BY <1>2 DEF Slots
<1>5. n \in Nat /\ n <= q /\ n <= BUF_LEN - rx_out
  <2>1. n \in 1..BUF_LEN - rx_out
    BY <1>1 DEF UartInv, Types, TypesOfProgram
  <2>2. n <= q
    BY <1>1 DEF BytesLeft
  <2> QED BY <1>2, <2>1, <2>2 DEF Slots
<1>6. ASSUME NEW i \in 1..n
      PROVE  rx_out + i - 1 \in Slots /\ rx_buf[rx_out + i - 1] = k + i
  <2>1. i \in 1..BUF_LEN /\ rx_out + i - 1 < BUF_LEN /\ rx_out + i - 1 \in Slots
    BY SMTT(30), <1>2, <1>4, <1>5 DEF Slots
  <2>2. Slot(rx_out, i) = rx_out + i - 1
    BY <1>2, <2>1, SlotIs
  <2>3. i \in 1..q
    BY <1>4, <1>5
  <2>4. rx_buf[Slot(rx_out, i)] = k + i
    BY <1>3, <2>3 DEF LineIn
  <2> QED BY <2>1, <2>2, <2>4
<1>7. bytes \in Seq(Nat) /\ Len(bytes) = n /\ \A i \in 1..n : bytes[i] = k + i
  BY <1>2, <1>4, <1>5, <1>6
<1> HIDE DEF bytes
<1>8. /\ taken' \in Seq(Nat) /\ Len(taken') = k + n
      /\ \A i \in 1..k : taken'[i] = taken[i]
      /\ \A i \in 1..n : taken'[k + i] = k + i
  <2>1. /\ taken' \in Seq(Nat) /\ Len(taken') = k + Len(bytes)
        /\ \A i \in 1..k : taken'[i] = taken[i]
        /\ \A i \in 1..Len(bytes) : taken'[k + i] = bytes[i]
    BY ZenonT(60), <1>1, <1>2, <1>7, Joined
  <2> QED BY <1>7, <2>1
<1> HIDE DEF q, k
<1>9. \A i \in 1..k : taken[i] = i
  BY DEF LineIn, k
<1>10. ASSUME NEW i \in 1..k + n
      PROVE  taken'[i] = i
  <2>1. CASE i <= k
    <3>1. i \in 1..k
      BY <1>4, <2>1
    <3> QED BY <1>8, <1>9, <3>1
  <2>2. CASE ~ (i <= k)
    <3>1. i - k \in 1..n /\ k + (i - k) = i
      BY <1>4, <1>5, <2>2
    <3>2. taken'[k + (i - k)] = k + (i - k)
      BY <1>8, <3>1
    <3> QED BY <3>1, <3>2
  <2> QED BY <2>1, <2>2
<1>11. Freed' = k /\ Queued(rx_in, rx_out)' = q /\ k \in Nat
  BY <1>1, <1>4, <1>5, <1>8 DEF Freed, Queued, q
<1>12. /\ \A i \in 1..q : rx_buf[Slot(rx_out, i)] = k + i
       /\ \A i \in 1..Len(rfifo) : rfifo[i] = k + q + i
       /\ typed = k + q + Len(rfifo)
  BY <1>3 DEF LineIn, q
<1>13. LineIn'
  BY <1>1, <1>2, <1>8, <1>10, <1>11, <1>12 DEF LineIn, Slot
<1>14. BytesLeft' /\ Advances
  BY <1>1, <1>2, <1>4, <1>5, <1>8, <1>11 DEF BytesLeft, Advances, k
<1> QED BY <1>13, <1>14

\* Then their places are free.
LEMMA TypeReadMoves ==
  ASSUME TypeInv, ReadMoves
  PROVE  LineIn' /\ BytesLeft' /\ Advances
<1> USE UartAssumption DEF TypeInv
<1> DEFINE q == Queued(rx_in, rx_out)
           k == Freed
<1>1. /\ UNCHANGED <<rx_in, rx_buf, rfifo, typed, taken>>
      /\ pc = "move_out" /\ pc' \notin {"copy_out", "move_out"}
      /\ rx_out' = (rx_out + n) % BUF_LEN
  BY DEF ReadMoves, Runs, wires, host
<1>2. /\ rx_in \in Slots /\ rx_out \in Slots /\ rx_buf \in [Slots -> Nat] /\ k \in Nat
      /\ taken \in Seq(Nat) /\ rfifo \in Seq(Nat) /\ q \in Slots /\ typed \in Nat
  BY WireTypes DEF LineIn
<1>3. q \in Nat /\ q <= BUF_LEN - 1 /\ Len(rfifo) \in Nat /\ Len(taken) \in Nat
  BY <1>2 DEF Slots
<1>4. n \in Nat /\ n <= q
  BY <1>1, WireTypes DEF BytesLeft
<1>5. Freed' = k + n /\ Freed' = Len(taken)
  BY <1>1, <1>3, <1>4 DEF Freed
<1> HIDE DEF q, k
<1>6. /\ Queued(rx_in, rx_out') = q - n
      /\ \A i \in 1..q - n : Slot(rx_out', i) = Slot(rx_out, n + i)
  BY <1>1, <1>2, <1>3, <1>4, TakesOut DEF q
<1>7. ASSUME NEW i \in 1..q - n
       PROVE  rx_buf[Slot(rx_out', i)] = (k + n) + i
  <2>1. n + i \in 1..q
    BY <1>2, <1>3, <1>4
  <2>2. rx_buf[Slot(rx_out, n + i)] = k + (n + i)
    BY <2>1 DEF LineIn, q, k
  <2>3. k + (n + i) = (k + n) + i
    BY <1>2, <1>3, <1>4
  <2> QED BY <1>6, <2>2, <2>3
<1>8. ASSUME NEW i \in 1..Len(rfifo)
       PROVE  rfifo[i] = (k + n) + (q - n) + i
  <2>1. rfifo[i] = k + q + i
    BY DEF LineIn, q, k
  <2>2. k + q + i = (k + n) + (q - n) + i
    BY <1>2, <1>3, <1>4
  <2> QED BY <2>1, <2>2
<1>9. typed = (k + n) + (q - n) + Len(rfifo)
  <2>1. typed = k + q + Len(rfifo)
    BY DEF LineIn, q, k
  <2> QED BY <1>2, <1>3, <1>4, <2>1
<1>10. Queued(rx_in, rx_out)' = q - n
  BY <1>1, <1>6 DEF Queued
<1>11. LineIn'
  <2>1. \A i \in 1..Queued(rx_in, rx_out)' : rx_buf'[Slot(rx_out', i)] = Freed' + i
    BY <1>1, <1>5, <1>7, <1>10
  <2>2. \A i \in 1..Len(rfifo') : rfifo'[i] = Freed' + Queued(rx_in, rx_out)' + i
    BY <1>1, <1>5, <1>8, <1>10
  <2>3. typed' = Freed' + Queued(rx_in, rx_out)' + Len(rfifo')
    BY <1>1, <1>5, <1>9, <1>10
  <2>4. Freed' \in Nat /\ \A i \in 1..Len(taken') : taken'[i] = i
    BY <1>1, <1>3, <1>5 DEF LineIn
  <2> QED BY <1>1, <1>2, <2>1, <2>2, <2>3, <2>4 DEF LineIn, Slot
<1>12. BytesLeft' /\ Advances
  BY <1>1, <1>2, <1>3 DEF BytesLeft, Advances
<1> QED BY <1>11, <1>12

\* What can be copied from rx_buf in one piece is there.
LEMMA AvailableIsQueued ==
  ASSUME NEW in \in Slots, NEW out \in Slots
  PROVE  Available(in, out) <= Queued(in, out)
BY QueuedIs, UartAssumption DEF Available, Slots

LEMMA TypeReadLooks ==
  ASSUME TypeInv, ReadLooks
  PROVE  LineIn' /\ BytesLeft' /\ Advances
<1>1. /\ UNCHANGED <<rx_in, rx_out, rx_buf, rfifo, typed, taken>>
      /\ n' = Least(Available(rx_in, rx_out), todo) /\ Freed' = Freed
  BY DEF ReadLooks, Runs, Freed, record, wires, host
<1>2. rx_in \in Slots /\ rx_out \in Slots /\ todo \in Nat /\ Queued(rx_in, rx_out) \in Slots
  BY WireTypes DEF TypeInv
<1>3. Available(rx_in, rx_out) \in Nat
  BY <1>2, AvailableFits, UartAssumption DEF Slots
<1>4. n' \in Nat /\ n' <= Available(rx_in, rx_out)
  BY <1>1, <1>2, <1>3, LeastOfTwo, Zenon
<1>5. n' <= Queued(rx_in, rx_out)
  BY <1>2, <1>3, <1>4, AvailableIsQueued DEF Slots
<1>6. BytesLeft'
  BY <1>1, <1>5 DEF BytesLeft, Queued
<1> QED BY <1>1, <1>6, TypeSame

\* The steps in which no byte that was typed moves.
LEMMA TypeOthers ==
  ASSUME TypeInv,
         \/ CallWrite \/ CallRead \/ CallClose \/ \E arg \in play.timeouts : SetTimeout(arg)
         \/ WriteLooks \/ WriteCopies \/ WriteMoves \/ WriteKicks \/ WriteAwaits
         \/ ReadAwaits \/ ReadEnables \/ Close
         \/ IrqEnter \/ IrqControl \/ IrqFull \/ IrqWrite
         \/ Tick \/ OtherAlarms
         \/ HostPauses \/ HostTakes \/ HostLeaves \/ HostComes
         \/ UNCHANGED vars
  PROVE  LineIn' /\ BytesLeft' /\ Advances
<1>1. CASE \/ CallWrite \/ CallRead \/ CallClose
           \/ WriteLooks \/ WriteCopies \/ WriteMoves \/ WriteKicks \/ WriteAwaits
           \/ ReadAwaits \/ ReadEnables \/ Close
  <2>1. UNCHANGED <<rx_in, rx_out, rx_buf, rfifo, typed, taken>> 
        /\ pc # "move_out" /\ pc' \notin {"copy_out", "move_out"}
    BY <1>1 DEF CallWrite, CallRead, CallClose, Call, WriteLooks, WriteCopies, WriteMoves,
       WriteKicks, WriteAwaits, ReadAwaits, ReadEnables, Close, Return, Runs,
       record, wires, host
  <2> QED BY <2>1, TypeSame DEF BytesLeft, Freed
<1>2. CASE (\E arg \in play.timeouts : SetTimeout(arg)) \/ Tick \/ OtherAlarms
           \/ IrqEnter \/ IrqControl \/ IrqFull \/ IrqWrite
  <2>1. UNCHANGED <<rx_in, rx_out, rx_buf, rfifo, typed, program>>
    BY <1>2 DEF SetTimeout, Tick, OtherAlarms, IrqEnter, IrqControl, IrqFull, IrqWrite,
       record, wires, host
  <2> QED BY <2>1, TypeSame DEF program, Freed
<1>3. CASE HostPauses \/ HostTakes \/ HostLeaves \/ HostComes \/ UNCHANGED vars
  <2>1. UNCHANGED <<rx_in, rx_out, rx_buf, rfifo, typed, program>>
    BY <1>3 DEF HostPauses, HostTakes, HostLeaves, HostComes, vars, record, wires, host
  <2> QED BY <2>1, TypeSame DEF program, Freed
<1> QED BY <1>1, <1>2, <1>3

LEMMA TypeStep == TypeInv /\ [UartNext]_vars => TypeInv' /\ Advances
<1>1. SUFFICES ASSUME TypeInv, [UartNext]_vars PROVE TypeInv' /\ Advances
  OBVIOUS
<1>2. UartInv'
  BY <1>1, UartStep DEF TypeInv
<1>3. CASE HostTypes
  <2>1. /\ UNCHANGED <<rx_in, rx_out, rx_buf, taken, pc, n>>
        /\ rfifo' = Append(rfifo, typed + 1) /\ typed' = typed + 1
    BY <1>3 DEF HostTypes, TypesByte, record, program
  <2> QED BY <1>1, <1>2, <2>1, TypeHostTypes DEF TypeInv
<1>4. CASE IrqNoByte
  <2>1. /\ UNCHANGED <<rx_in, rx_out, rx_buf, taken, pc, n>> /\ rfifo = <<>>
        /\ \/ rfifo' = rfifo /\ typed' = typed
           \/ rfifo' = <<typed + 1>> /\ typed' = typed + 1
    BY <1>4 DEF IrqNoByte, TypesByte, program
  <2>2. Append(<<>>, typed + 1) = <<typed + 1>>
    OBVIOUS
  <2>3. LineIn' /\ BytesLeft' /\ Advances
    BY <1>1, <2>1, <2>2, TypeSame, TypeHostTypes DEF Freed
  <2> QED BY <1>2, <2>3 DEF TypeInv
<1>5. CASE IrqByte \/ ReadCopies \/ ReadMoves \/ ReadLooks
  BY <1>1, <1>2, <1>5, TypeIrqByte, TypeReadCopies, TypeReadMoves, TypeReadLooks DEF TypeInv
<1>6. CASE \/ CallWrite \/ CallRead \/ CallClose \/ \E arg \in play.timeouts : SetTimeout(arg)
           \/ WriteLooks \/ WriteCopies \/ WriteMoves \/ WriteKicks \/ WriteAwaits
           \/ ReadAwaits \/ ReadEnables \/ Close
           \/ IrqEnter \/ IrqControl \/ IrqFull \/ IrqWrite
           \/ Tick \/ OtherAlarms
           \/ HostPauses \/ HostTakes \/ HostLeaves \/ HostComes
           \/ UNCHANGED vars
  BY <1>1, <1>2, <1>6, TypeOthers DEF TypeInv
<1> QED BY <1>1, <1>3, <1>4, <1>5, <1>6 DEF UartNext, Program, Interrupt

TakenInOrder ==
  /\ typed \in Nat /\ Len(taken) \in Nat
  /\ typed - Len(taken) \in 0..BUF_LEN - 1 + READ_DEPTH
  /\ taken = Numbers(1, Len(taken))

LEMMA TakenIsInOrder == TypeInv => TakenInOrder
<1>1. SUFFICES ASSUME TypeInv PROVE TakenInOrder
  OBVIOUS
<1>2. /\ Queued(rx_in, rx_out) \in 0..BUF_LEN - 1 /\ Len(rfifo) \in 0..READ_DEPTH
      /\ typed \in Nat /\ Len(taken) \in Nat
  <2>1. Queued(rx_in, rx_out) \in 0..BUF_LEN - 1 /\ typed \in Nat
    BY <1>1, WireTypes DEF TypeInv, Slots
  <2>2. rfifo \in Seq(Nat) /\ taken \in Seq(Nat) /\ Len(rfifo) <= READ_DEPTH
    BY <1>1, WireTypes DEF TypeInv, LineIn
  <2>3. Len(rfifo) \in 0..READ_DEPTH /\ Len(taken) \in Nat
    BY <2>2, UartAssumption
  <2> QED BY <2>1, <2>3
<1>3. typed = Freed + Queued(rx_in, rx_out) + Len(rfifo)
  BY <1>1 DEF TypeInv, LineIn
<1>4. Len(taken) - Freed \in 0..Queued(rx_in, rx_out)
  <2>1. n \in Nat /\ (pc = "move_out" => n <= Queued(rx_in, rx_out))
    BY <1>1, WireTypes DEF TypeInv, BytesLeft
  <2> QED BY <1>2, <2>1 DEF Freed
<1>5. Freed \in Nat
  BY <1>1 DEF TypeInv, LineIn
<1>6. typed - Len(taken) \in 0..BUF_LEN - 1 + READ_DEPTH
  BY <1>2, <1>3, <1>4, <1>5, UartAssumption
<1>7. taken = Numbers(1, Len(taken))
  <2>1. taken = [i \in 1..Len(taken) |-> taken[i]]
    BY <1>1 DEF TypeInv, LineIn
  <2>2. \A i \in 1..Len(taken) : taken[i] = 1 + i - 1
    BY <1>1 DEF TypeInv, LineIn
  <2> QED BY <2>1, <2>2 DEF Numbers
<1> QED BY <1>2, <1>6, <1>7 DEF TakenInOrder

\* What the host types reaches the program in order, nothing twice and nothing
\* lost (altera_avalon_jtag_uart_read and its _rxirq), although the routine leaves
\* in the FIFO what does not fit.
THEOREM TypingKeepsOrder == UartSpec => ReadsInOrder
<1>1. UartInit => TypeInv
  BY TypeInitially
<1>2. TypeInv /\ [UartNext]_vars => TypeInv'
  BY TypeStep
<1>3. UartInit => TypeLine!ByteLineInit
  <2>1. SUFFICES ASSUME UartInit PROVE TypeLine!ByteLineInit
    OBVIOUS
  <2>2. typed = 0 /\ taken = <<>>
    BY <2>1 DEF UartInit
  <2> QED BY <2>2 DEF Numbers, TypeLine!ByteLineInit
<1>4. TakenInOrder /\ TakenInOrder' /\ Advances => TypeLine!Next
  <2>1. SUFFICES ASSUME TakenInOrder, TakenInOrder', Advances
                 PROVE  TypeLine!Next
    OBVIOUS
  <2>2. /\ typed' >= typed /\ Len(taken') >= Len(taken)
        /\ typed \in Nat /\ typed' \in Nat /\ Len(taken) \in Nat /\ Len(taken') \in Nat
        /\ typed' - Len(taken') \in 0..BUF_LEN - 1 + READ_DEPTH
    BY <2>1 DEF Advances, TakenInOrder
  <2>3. taken = Numbers(1, Len(taken)) /\ taken' = Numbers(1, Len(taken'))
    BY <2>1 DEF TakenInOrder, Numbers
  <2>4. Numbers(1, typed)' = Numbers(1, typed') /\ Len(taken') <= typed'
    BY <2>2, UartAssumption DEF Numbers
  <2>5. TypeLine!IsPrefix(Numbers(1, typed), Numbers(1, typed'))
        /\ Len(Numbers(1, typed')) = typed'
    BY <2>2, NumbersGoOn
  <2>6. TypeLine!IsPrefix(Numbers(1, Len(taken)), Numbers(1, Len(taken')))
    BY <2>2, NumbersGoOn
  <2>7. TypeLine!IsPrefix(Numbers(1, Len(taken')), Numbers(1, typed'))
    BY <2>2, <2>4, NumbersGoOn
  <2>8. typed' - Len(taken') <= BUF_LEN - 1 + READ_DEPTH
    BY <2>2, UartAssumption
  <2> QED BY <2>3, <2>4, <2>5, <2>6, <2>7, <2>8 DEF TypeLine!Next
<1> QED BY <1>1, <1>2, <1>3, <1>4, TakenIsInOrder, TypeStep, PTL
        DEF UartSpec, ReadsInOrder, TypeLine!ByteLineSpec
=============================================================================
