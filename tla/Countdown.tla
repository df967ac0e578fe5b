----------------------------- MODULE Countdown -----------------------------
(***************************************************************************)
(* What alarms promise: each is called back after exactly the number of    *)
(* ticks that was asked for, and again after the number it returns.        *)
(***************************************************************************)
EXTENDS Integers

CONSTANTS Alarms, TickRange

VARIABLE left   \* ticks until each alarm is called, 0 where it is off

\* Some may have been started before.
CountdownInit == left \in [Alarms -> 0..TickRange - 1]

\* The first tick may come at once, so one more is waited for.
Begin(a, n) == left[a] = 0 /\ left' = [left EXCEPT ![a] = n + 1]

Cancel(a) == left' = [left EXCEPT ![a] = 0]

Elapse(answer) ==
  left' = [a \in Alarms |-> CASE left[a] = 0 -> 0
                              [] left[a] = 1 -> answer[a]
                              [] OTHER -> left[a] - 1]

Next ==
  \/ \E a \in Alarms : Cancel(a) \/ \E n \in 0..TickRange - 2 : Begin(a, n)
  \/ \E answer \in [Alarms -> 0..TickRange - 1] : Elapse(answer)

CountdownSpec == CountdownInit /\ [][Next]_left
=============================================================================
