------------------------------- MODULE Alarms -------------------------------
(***************************************************************************)
(* The alarms of the HAL: alt_alarm_start.c and alt_tick.c.  The clock     *)
(* wraps, and so do the times alarms wait for; `rollover' says that a time *)
(* lies beyond the wrap.  alt_tick runs with interrupts off and goes       *)
(* through all alarms, so a tick is one step; the order of the list shows  *)
(* only in the order of the callbacks.                                     *)
(***************************************************************************)
EXTENDS Integers

CONSTANTS
  Alarms,
  TickRange   \* how many values the clock has; 2^32 in the code

ASSUME AlarmAssumption == TickRange \in Nat /\ TickRange >= 2

VARIABLES
  nticks,   \* _alt_nticks
  alarms    \* running says whether an alarm is in alt_alarm_list

alarmVars == <<nticks, alarms>>

Set(time, since) == [running |-> TRUE, time |-> time, rollover |-> time < since]

Off == [running |-> FALSE, time |-> 0, rollover |-> FALSE]

Started(n) == Set((n + nticks + 1) % TickRange, nticks)

\* An alarm is started when it is not in the list; n = 2^32 - 1 would wrap to
\* the present and be called at the next tick.
alt_alarm_start(a, n) ==
  /\ ~ alarms[a].running
  /\ alarms' = [alarms EXCEPT ![a] = Started(n)]
  /\ UNCHANGED nticks

alt_alarm_stop(a) ==
  /\ alarms' = [alarms EXCEPT ![a] = Off]
  /\ UNCHANGED nticks

\* Mutant: the flag is not cleared at the wrap.
Waits_Forever(alarm, now) == alarm.rollover \/ alarm.time > now

\* The flag is looked at after the wrap has cleared it.
Waits(alarm, now) == (alarm.rollover /\ now # 0) \/ alarm.time > now

now == (nticks + 1) % TickRange

\* The alarms that this tick calls back.
Called == {a \in Alarms : alarms[a].running /\ ~ Waits(alarms[a], now)}

After(alarm, next_callback) ==
  CASE ~ alarm.running -> alarm
    [] alarm.running /\ Waits(alarm, now) ->
         [alarm EXCEPT !.rollover = alarm.rollover /\ now # 0]
    [] OTHER ->
         IF next_callback = 0 THEN Off
         ELSE Set((alarm.time + next_callback) % TickRange, now)

alt_tick(next_callback) ==
  /\ nticks' = now
  /\ alarms' = [a \in Alarms |-> After(alarms[a], next_callback[a])]

AlarmInit == nticks = 0 /\ alarms = [a \in Alarms |-> Off]

AlarmNext ==
  \/ \E a \in Alarms :
       alt_alarm_stop(a) \/ \E n \in 0..TickRange - 2 : alt_alarm_start(a, n)
  \/ \E next_callback \in [Alarms -> 0..TickRange - 1] : alt_tick(next_callback)

AlarmSpec == AlarmInit /\ [][AlarmNext]_alarmVars

-----------------------------------------------------------------------------
\* Properties.

AlarmTypeOK ==
  /\ nticks \in 0..TickRange - 1
  /\ alarms \in [Alarms -> [running : BOOLEAN, time : 0..TickRange - 1, rollover : BOOLEAN]]

\* The ticks an alarm still waits for, as its time and flag say it.
Left(alarm) ==
  CASE ~ alarm.running -> 0
    [] alarm.running /\ alarm.rollover -> alarm.time + TickRange - nticks
    [] OTHER -> alarm.time - nticks

\* Between ticks every alarm that is on waits for at least one tick and for
\* fewer than the clock has values: its time and its flag never point back.
WaitsAhead ==
  \A a \in Alarms : alarms[a].running => Left(alarms[a]) \in 1..TickRange - 1

Ahead == INSTANCE Countdown WITH left <- [a \in Alarms |-> Left(alarms[a])]

\* Alarms are called on time, whether or not the clock wraps on the way: never
\* early, never late and never once too often.
CalledOnTime == Ahead!CountdownSpec
=============================================================================
