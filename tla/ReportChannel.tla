--------------------------- MODULE ReportChannel ---------------------------
(***************************************************************************)
(* What polling a keyboard promises to main: the reports come one by one,  *)
(* in the order in which the keyboard made them, none twice, and none is   *)
(* lost unless the keyboard itself goes.                                   *)
(***************************************************************************)
EXTENDS Integers, Sequences

CONSTANT Capacity   \* how many reports can be under way

VARIABLES
  made,      \* how many reports have been made; they are numbered
  transit,   \* those that main has not got yet
  taken      \* the last one that main has got, 0 before the first

Type ==
  /\ Len(transit) < Capacity
  /\ made' = made + 1
  /\ transit' = Append(transit, made + 1)
  /\ UNCHANGED taken

Deliver ==
  /\ transit # <<>>
  /\ taken' = Head(transit)
  /\ transit' = Tail(transit)
  /\ UNCHANGED made

\* The keyboard is pulled out, with the report it holds if there is one.
Unplug ==
  /\ transit # <<>>
  /\ transit' = SubSeq(transit, 1, Len(transit) - 1)
  /\ UNCHANGED <<made, taken>>

ChannelInit == made = 0 /\ transit = <<>> /\ taken = 0

ChannelSpec ==
  ChannelInit /\ [][Type \/ Deliver \/ Unplug]_<<made, transit, taken>>
=============================================================================
