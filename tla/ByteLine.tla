------------------------------ MODULE ByteLine ------------------------------
(***************************************************************************)
(* One direction of a serial line: what was put in at one end comes out at *)
(* the other, in order, nothing twice and nothing left out, and no more is *)
(* under way than the line can hold.                                       *)
(***************************************************************************)
EXTENDS Integers, SequencesExt

CONSTANT Capacity

VARIABLES put, got   \* the bytes, from the first

ByteLineInit == put = <<>> /\ got = <<>>

Next ==
  /\ IsPrefix(put, put') /\ IsPrefix(got, got') /\ IsPrefix(got', put')
  /\ Len(put') - Len(got') <= Capacity

ByteLineSpec == ByteLineInit /\ [][Next]_<<put, got>>
=============================================================================
