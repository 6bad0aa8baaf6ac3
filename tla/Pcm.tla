--------------------------------- MODULE Pcm ---------------------------------
(***************************************************************************)
(* The arithmetic of sample streams: SampleBuffer (pkg/agent/audio/        *)
(* "pcm .go"), StreamResampler (resample.go) and the alignment of bytes    *)
(* to samples (plugins/tts/rime).  A stream is a sequence; an input sample *)
(* is its ordinal number, an output sample of the resampler the position   *)
(* it was interpolated at, counted in parts of an input sample, To parts   *)
(* each, so that the first input sample is at position 0.  The read        *)
(* cursor is exact, where the code's is a float64.                         *)
(***************************************************************************)
EXTENDS Integers, Sequences

\* SampleBuffer.Push: every complete frame of n, and what remains.
FramesIn(s, n) == Len(s) \div n
FrameAt(s, i, n) == SubSeq(s, (i - 1) * n + 1, i * n)

\* Mutant: what does not fill a frame is forgotten.
ReframeForgetsRest(s, n) ==
  [frames |-> [i \in 1 .. FramesIn(s, n) |-> FrameAt(s, i, n)],
   rest   |-> <<>>]

Reframe(s, n) ==
  [frames |-> [i \in 1 .. FramesIn(s, n) |-> FrameAt(s, i, n)],
   rest   |-> SubSeq(s, FramesIn(s, n) * n + 1, Len(s))]

\* SampleBuffer.FlushPadded: the rest, padded to a frame.
Padded(s, n, pad) ==
  IF s = <<>> THEN <<>>
  ELSE <<[i \in 1 .. n |-> IF i <= Len(s) THEN s[i] ELSE pad]>>

\* alignPCMBytes: whole samples of two bytes, and a byte carried over.
Align(carry, bytes) ==
  LET b == carry \o bytes
      n == Len(b) - (Len(b) % 2)
  IN [raw |-> SubSeq(b, 1, n), carry |-> SubSeq(b, n + 1, Len(b))]

\* bytesToInt16LE.  A sample made of the wrong two bytes is 0.
Samples(raw) ==
  [i \in 1 .. Len(raw) \div 2 |->
     IF raw[2 * i] % 2 = 0 /\ raw[2 * i - 1] = raw[2 * i] - 1
     THEN raw[2 * i] \div 2 ELSE 0]

\* StreamResampler: buf the input not consumed, pos the cursor in it, in parts.
NewResampler == [buf |-> <<>>, pos |-> 0]

\* How many outputs the buffer allows: each needs the input sample at the
\* cursor and the next one.
Outputs(buf, pos, from, to) ==
  LET possible == {k \in 1 .. to * Len(buf) :
                     (pos + (k - 1) * from) \div to + 2 <= Len(buf)}
  IN IF possible = {} THEN 0
     ELSE CHOOSE n \in possible : \A k \in possible : k <= n

\* Interpolating between samples that are not neighbours gives -2.
Interpolate(buf, at, to) ==
  LET i == at \div to + 1
  IN IF buf[i + 1] = buf[i] + 1 THEN (buf[i] - 1) * to + (at % to) ELSE -2

\* Mutant: the cursor starts afresh with every chunk.
ProcessAfresh(rs, in, from, to) ==
  LET buf  == rs.buf \o in
      n    == Outputs(buf, 0, from, to)
      next == n * from
  IN [rs  |-> [buf |-> SubSeq(buf, next \div to + 1, Len(buf)), pos |-> 0],
      out |-> [k \in 1 .. n |-> Interpolate(buf, (k - 1) * from, to)]]

Process(rs, in, from, to) ==
  IF from = to
  THEN [rs |-> rs, out |-> [i \in 1 .. Len(in) |-> (in[i] - 1) * to]]
  ELSE LET buf  == rs.buf \o in
           n    == Outputs(buf, rs.pos, from, to)
           next == rs.pos + n * from
       IN [rs  |-> [buf |-> SubSeq(buf, next \div to + 1, Len(buf)),
                    pos |-> next % to],
           out |-> [k \in 1 .. n |->
                      Interpolate(buf, rs.pos + (k - 1) * from, to)]]

\* Flush: the last sample once more, as the end of the stream.
FlushResampler(rs, from, to) ==
  IF from = to \/ rs.buf = <<>> THEN <<>>
  ELSE <<(rs.buf[Len(rs.buf)] - 1) * to>>
=============================================================================
