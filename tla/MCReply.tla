------------------------------ MODULE MCReply ------------------------------
(* A small instance of Reply for TLC.                                      *)
EXTENDS Reply, TLC

MCLetters == {"x"}
MCAbbreviations == {<<"x", ".", "x">>}
MCDeltas == {<<"x">>, <<".">>, <<"!">>, <<" ">>, <<"]">>, <<".", " ">>}
MCByteCounts == {1, 2, 3}
MCFromRates == {1, 2, 4}
=============================================================================
