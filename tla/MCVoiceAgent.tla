---------------------------- MODULE MCVoiceAgent ----------------------------
(* Small instances of VoiceAgent for TLC.                                  *)
EXTENDS VoiceAgent

\* The session is up: the agent is not stopped, its STT session delivers and
\* the track takes samples.
SessionUp == ~ctxDone /\ loop # "returned" /\ outbound

\* The marks and labels of metrics, the mark of the bridge included, the
\* history and the records of what was played and dropped influence nothing
\* else.
ViewWithoutRecords ==
  <<ctxDone, loop, state, userSpeaking, pending, heard, turn,
    responseCancel, responseDone, pc, after, cancelled, full, buffered,
    sent, completed, playback, acc, clear, waiters, wait, playing, wasPlay,
    bufTicks, pacer, emitting, out, outbound, owner>>
=============================================================================
