------------------------------- MODULE MCRoom -------------------------------
(* Small instances of Room for TLC.                                        *)
EXTENDS Room

CONSTANTS q0, q1

MCRequests == {q0, q1}
=============================================================================
