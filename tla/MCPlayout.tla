----------------------------- MODULE MCPlayout -----------------------------
(* A small instance of Playout for TLC.                                    *)
EXTENDS Playout

CONSTANTS w0

\* The pacer serves each WaitForDrain on its own: one caller is enough.
MCOneCaller == {w0}
=============================================================================
