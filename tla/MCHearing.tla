----------------------------- MODULE MCHearing -----------------------------
(* A small instance of Hearing for TLC, with the detector's real numbers.  *)
EXTENDS Hearing

\* Packets of 10 and 40 ms.
MCPacketBlocks == {1, 4}
=============================================================================
