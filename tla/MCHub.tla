------------------------------- MODULE MCHub -------------------------------
(* Small instances of Hub for TLC.                                         *)
EXTENDS Hub, TLC

CONSTANTS p0, p1, c0, c1

MCPublishers == {p0, p1}
MCClients    == {c0, c1}
MCOneClient  == {c0}

\* Transcripts have the shortest history and debug events the longest.
MCHistoryLimit == [channel \in Channels |->
                     CASE channel = "transcript" -> 1
                       [] channel = "metrics" -> 2
                       [] channel = "debug" -> 3]

HubSymmetry == Permutations(MCPublishers)
=============================================================================
