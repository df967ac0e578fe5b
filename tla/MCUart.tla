------------------------------- MODULE MCUart -------------------------------
(***************************************************************************)
(* Printing more than the buffer and the FIFO hold to a host that may go,  *)
(* typing as much as they hold, a little of both, a little of each while   *)
(* the host goes and comes, and other alarms beside that of the driver.    *)
(***************************************************************************)
EXTENDS JtagUart

ThePlays ==
  {[tx |-> 4, rx |-> 0, leaves |-> 1, timeouts |-> {}, timers |-> FALSE],
   [tx |-> 0, rx |-> 4, leaves |-> 0, timeouts |-> {}, timers |-> FALSE],
   [tx |-> 1, rx |-> 1, leaves |-> 0, timeouts |-> {}, timers |-> FALSE],
   [tx |-> 0, rx |-> 1, leaves |-> 1, timeouts |-> {}, timers |-> FALSE],
   [tx |-> 1, rx |-> 0, leaves |-> 1, timeouts |-> {0}, timers |-> FALSE],
   [tx |-> 0, rx |-> 0, leaves |-> 1, timeouts |-> {}, timers |-> TRUE]}
=============================================================================
