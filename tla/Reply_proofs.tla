---------------------------- MODULE Reply_proofs ----------------------------
(***************************************************************************)
(* Proofs about Reply.  Part 1: where the worker and the two goroutines    *)
(* can be.  Parts 2 to 4: what becomes of the audio of a phrase.  Parts 5  *)
(* and 6: no character of the text is lost.  Parts 7 and 8: the phrases    *)
(* are the sentences of the text, however it was cut.                      *)
(***************************************************************************)
EXTENDS Reply, Seqs_proofs, TLAPS

-----------------------------------------------------------------------------
(* Part 1: the worker and the goroutines.                                  *)

\* No goroutine of Synthesize runs.
TtsIdle == tts \in {"none", "ended"}

\* Where the worker and the goroutines are, together: a stream is only left
\* when its goroutine has ended, and a reply completes after both streams.
FlowInv ==
  /\ last => llm = "ended"
  /\ worker = "start" => TtsIdle /\ ~last
  /\ worker \in {"receive", "tail", "release"} => TtsIdle
  /\ worker # "returned" => ~completed
  /\ completed => llm = "ended" /\ TtsIdle /\ last /\ todo = <<>>

\* A step of the worker keeps it.
LEMMA FlowWorker == FlowInv /\ Worker => FlowInv'
<1> SUFFICES ASSUME FlowInv, Worker PROVE FlowInv'
  OBVIOUS
<1> USE DEF FlowInv, TtsIdle, llmVars, textVars, ttsVars, pcmVars
<1>1. CASE Start BY <1>1 DEF Start
<1>2. CASE StartFails BY <1>2 DEF StartFails, Return
<1>3. CASE ReceiveDelta
  BY <1>3 DEF ReceiveDelta, Receiving, LlmTaken
<1>4. CASE ReceiveEnd
  BY <1>4 DEF ReceiveEnd, Receiving, LlmTaken, LeaveLoop
<1>5. CASE ReceiveErrorCancelled
  BY <1>5 DEF ReceiveErrorCancelled, Receiving, LlmTaken, Return
<1>6. CASE WaitForPlayout
  BY <1>6 DEF WaitForPlayout, AllSpoken, Return
<1>7. CASE Synthesize BY <1>7 DEF Synthesize
<1>8. CASE SynthesizeFails BY <1>8 DEF SynthesizeFails, Return
<1>9. CASE ListenSamples BY <1>9 DEF ListenSamples
<1>10. CASE ListenEnd BY <1>10 DEF ListenEnd
<1>11. CASE ListenErrorCancelled BY <1>11 DEF ListenErrorCancelled, Return
<1>12. CASE QueueFirst BY <1>12 DEF QueueFirst
<1>13. CASE QueueNext BY <1>13 DEF QueueNext
<1>14. CASE Queued BY <1>14 DEF Queued
<1>15. CASE FlushFrame BY <1>15 DEF FlushFrame
<1>16. CASE SendFails BY <1>16 DEF SendFails, Return
<1> QED
  BY <1>1, <1>2, <1>3, <1>4, <1>5, <1>6, <1>7, <1>8, <1>9, <1>10, <1>11,
     <1>12, <1>13, <1>14, <1>15, <1>16 DEF Worker

\* A step of a goroutine, or the cancellation, keeps it: a goroutine that has
\* ended stays so.
LEMMA FlowStreams ==
  FlowInv /\ (Llm \/ Tts \/ Cancel \/ UNCHANGED vars) => FlowInv'
<1> SUFFICES ASSUME FlowInv, Llm \/ Tts \/ Cancel \/ UNCHANGED vars
             PROVE  FlowInv'
  OBVIOUS
<1> USE DEF FlowInv, TtsIdle, llmVars, textVars, ttsVars, pcmVars
<1>1. CASE Llm
  BY <1>1 DEF Llm, LlmDelta, LlmDone, LlmGarbled, LlmReadError, LlmOffers,
     LlmCancelled
<1>2. CASE Tts
  <2>1. ASSUME NEW n \in ByteCounts, TtsAudio(n) PROVE FlowInv'
    BY <2>1 DEF TtsAudio, TtsOffers
  <2>2. ASSUME NEW kind \in {"done", "err"}, TtsEnds(kind) PROVE FlowInv'
    BY <2>2 DEF TtsEnds, TtsOffers
  <2>3. CASE TtsCancelled BY <2>3 DEF TtsCancelled
  <2> QED BY <1>2, <2>1, <2>2, <2>3 DEF Tts
<1>3. CASE Cancel BY <1>3 DEF Cancel
<1>4. CASE UNCHANGED vars BY <1>4 DEF vars
<1> QED BY <1>1, <1>2, <1>3, <1>4

\* So it always holds.
THEOREM FlowInductive == Spec => []FlowInv
<1>1. Init => FlowInv
  BY DEF Init, FlowInv, TtsIdle
<1>2. FlowInv /\ [Next]_vars => FlowInv'
  BY FlowWorker, FlowStreams DEF Next
<1> QED BY <1>1, <1>2, PTL DEF Spec

\* A worker that goes on left no stream behind: the next phrase is not started
\* while the last one's goroutine still runs, and a completed reply ends with
\* both goroutines ended.
THEOREM StreamsEnd == Spec => []NoStreamLeftBehind
<1>1. FlowInv => NoStreamLeftBehind
  BY DEF FlowInv, TtsIdle, NoStreamLeftBehind
<1> QED BY <1>1, FlowInductive, PTL

-----------------------------------------------------------------------------
(* Part 2: the arithmetic of the resampler.                                *)

\* Multiplication by a natural number keeps the order.
LEMMA TimesKeepsOrder ==
  ASSUME NEW i \in Nat, NEW j \in Nat, NEW f \in Nat, i <= j
  PROVE  i * f \in Nat /\ j * f \in Nat /\ i * f <= j * f
<1>1. i * f \in Nat /\ (j - i) * f \in Nat /\ j - i \in Nat
  OBVIOUS
<1>2. j * f = i * f + (j - i) * f
  OBVIOUS
<1> QED BY <1>1, <1>2

\* Quotient and remainder.
LEMMA Division ==
  ASSUME NEW x \in Nat, NEW t \in Nat \ {0}
  PROVE  /\ x \div t \in Nat /\ x % t \in 0 .. t - 1
         /\ (x \div t) * t \in Nat
         /\ x = (x \div t) * t + (x % t)
<1>1. x \div t \in Nat /\ x % t \in 0 .. t - 1
  OBVIOUS
<1>2. x = (x \div t) * t + (x % t)
  OBVIOUS
<1>3. (x \div t) * t \in Nat
  BY <1>1, TimesKeepsOrder
<1> QED BY <1>1, <1>2, <1>3

\* They are determined by that.
LEMMA DivisionUnique ==
  ASSUME NEW x \in Nat, NEW t \in Nat \ {0}, NEW q \in Nat,
         NEW r \in 0 .. t - 1, x = q * t + r
  PROVE  x \div t = q /\ x % t = r
<1> DEFINE p == x \div t
           s == x % t
<1>1. p \in Nat /\ s \in 0 .. t - 1 /\ p * t \in Nat /\ x = p * t + s
  BY Division
<1> HIDE DEF p, s
<1>2. CASE p < q
  <2>1. (p + 1) * t <= q * t
    BY <1>1, <1>2, TimesKeepsOrder
  <2>2. (p + 1) * t = p * t + t
    BY <1>1
  <2>3. q * t \in Nat
    BY TimesKeepsOrder
  <2> QED BY <1>1, <2>1, <2>2, <2>3
<1>3. CASE q < p
  <2>1. (q + 1) * t <= p * t
    BY <1>1, <1>3, TimesKeepsOrder
  <2>2. (q + 1) * t = q * t + t
    OBVIOUS
  <2>3. q * t \in Nat
    BY TimesKeepsOrder
  <2> QED BY <1>1, <2>1, <2>2, <2>3
<1>4. CASE p = q
  <2>1. q * t \in Nat
    BY TimesKeepsOrder
  <2>2. s = r
    BY <1>1, <1>4, <2>1
  <2> QED BY <1>4, <2>2 DEF p, s
<1> QED BY <1>1, <1>2, <1>3, <1>4

\* Whole parts come out of a quotient.
LEMMA DivisionShift ==
  ASSUME NEW x \in Nat, NEW c \in Nat, NEW t \in Nat \ {0}
  PROVE  /\ c * t + x \in Nat
         /\ (c * t + x) \div t = c + x \div t /\ (c * t + x) % t = x % t
<1> DEFINE q == x \div t
           r == x % t
<1>1. q \in Nat /\ r \in 0 .. t - 1 /\ q * t \in Nat /\ x = q * t + r
  BY Division
<1> HIDE DEF q, r
<1>2. c * t \in Nat /\ (c + q) * t = c * t + q * t
  BY <1>1
<1>3. c * t + x \in Nat /\ c * t + x = (c + q) * t + r
  BY <1>1, <1>2
<1>4. c + q \in Nat
  BY <1>1
<1>5. (c * t + x) \div t = c + q /\ (c * t + x) % t = r
  BY <1>1, <1>3, <1>4, DivisionUnique
<1> QED BY <1>3, <1>5 DEF q, r

\* A quotient grows with the dividend, by at most two for two divisors.
LEMMA DivisionGrows ==
  ASSUME NEW x \in Nat, NEW y \in Nat, NEW t \in Nat \ {0}, x <= y
  PROVE  /\ x \div t <= y \div t
         /\ y <= x + 2 * t => y \div t <= x \div t + 2
<1> DEFINE p == x \div t
           q == y \div t
           r == x % t
           s == y % t
<1>1. p \in Nat /\ r \in 0 .. t - 1 /\ p * t \in Nat /\ x = p * t + r
  BY Division
<1>2. q \in Nat /\ s \in 0 .. t - 1 /\ q * t \in Nat /\ y = q * t + s
  BY Division
<1> HIDE DEF p, q, r, s
<1>3. p <= q
  <2> SUFFICES ASSUME q < p PROVE FALSE
    BY <1>1, <1>2
  <2>1. (q + 1) * t <= p * t
    BY <1>1, <1>2, TimesKeepsOrder
  <2>2. (q + 1) * t = q * t + t
    BY <1>2
  <2> QED BY <1>1, <1>2, <2>1, <2>2
<1>4. ASSUME y <= x + 2 * t PROVE q <= p + 2
  <2> SUFFICES ASSUME p + 3 <= q PROVE FALSE
    BY <1>1, <1>2
  <2>1. (p + 3) * t <= q * t
    BY <1>1, <1>2, TimesKeepsOrder
  <2>2. (p + 3) * t = p * t + 3 * t
    BY <1>1
  <2> QED BY <1>1, <1>2, <1>4, <2>1, <2>2
<1> QED BY <1>3, <1>4 DEF p, q

\* The rate of the speech service is one the resampler is made for.
RateInv == from \in 1 .. 2 * To

\* The i-th output needs two input samples that n samples contain.
Fits(i, n) == (i * from) \div To + 2 <= n

\* What is due after n samples: exactly the outputs that fit.
LEMMA DueAreThoseThatFit ==
  ASSUME RateInv, from # To, NEW n \in Nat
  PROVE  /\ DueCount(n) \in Nat
         /\ \A i \in Nat : i < DueCount(n) <=> Fits(i, n)
<1> DEFINE D == {i \in 0 .. n * To : Fits(i, n)}
           U == {i \in Nat : ~Fits(i, n)}
<1>1. from \in Nat \ {0} /\ To \in Nat \ {0}
  BY ReplyConstants DEF RateInv
<1>2. ASSUME NEW i \in Nat, NEW j \in Nat, i <= j, Fits(j, n)
      PROVE  Fits(i, n)
  <2>1. i * from \in Nat /\ j * from \in Nat /\ i * from <= j * from
    BY <1>1, <1>2, TimesKeepsOrder
  <2>2. (i * from) \div To <= (j * from) \div To
    BY <1>1, <2>1, DivisionGrows
  <2>3. (i * from) \div To \in Nat /\ (j * from) \div To \in Nat
    BY <1>1, <2>1, Division
  <2> QED BY <1>2, <2>2, <2>3 DEF Fits
<1>3. n * To \in Nat /\ ~Fits(n * To, n)
  <2>1. n * To \in Nat
    BY <1>1, TimesKeepsOrder
  <2>2. (n * To) * 1 <= (n * To) * from /\ (n * To) * from \in Nat
    <3>1. 1 * (n * To) <= from * (n * To) /\ from * (n * To) \in Nat
      BY <1>1, <2>1, TimesKeepsOrder
    <3> QED BY <3>1, <1>1, <2>1
  <2>3. (n * To) \div To <= ((n * To) * from) \div To
    BY <1>1, <2>1, <2>2, DivisionGrows
  <2>4. (n * To) \div To = n
    <3>1. 0 \in 0 .. To - 1 /\ n * To = n * To + 0
      BY <1>1, <2>1
    <3> QED BY <1>1, <2>1, <3>1, DivisionUnique
  <2>5. ((n * To) * from) \div To \in Nat
    BY <1>1, <2>2, Division
  <2> QED BY <2>1, <2>3, <2>4, <2>5 DEF Fits
<1>4. PICK k \in U : \A j \in U : k <= j
  <2>1. U \in SUBSET Nat /\ U # {}
    BY <1>3
  <2> HIDE DEF U
  <2> QED BY <2>1, LeastElement
<1>5. k \in Nat /\ k <= n * To /\ ~Fits(k, n)
  BY <1>3, <1>4
<1>6. \A i \in Nat : i < k <=> Fits(i, n)
  <2>1. ASSUME NEW i \in Nat, i < k PROVE Fits(i, n)
    BY <2>1, <1>4
  <2>2. ASSUME NEW i \in Nat, Fits(i, n) PROVE i < k
    BY <2>2, <1>2, <1>5
  <2> QED BY <2>1, <2>2
<1>7. D = 0 .. k - 1
  BY <1>3, <1>5, <1>6
<1>8. Cardinality(D) = k
  <2>1. 0 \in Int /\ k - 1 \in Int
    BY <1>5
  <2>2. Cardinality(0 .. k - 1) = IF 0 > k - 1 THEN 0 ELSE (k - 1) - 0 + 1
    BY ONLY <2>1, FS_Interval
  <2>3. Cardinality(0 .. k - 1) = k
    BY <1>5, <2>2
  <2> QED BY <1>7, <2>3
<1>9. DueCount(n) = Cardinality(D)
  BY DEF DueCount, Fits
<1> QED BY <1>5, <1>6, <1>8, <1>9

\* The n numbers after a: input samples, or bytes, in order.
Ordinals(a, n) == [i \in 1 .. n |-> a + i]

\* The n outputs after the first a, in order.
Outs(a, n) == [i \in 1 .. n |-> (a + i - 1) * from]

\* Both are put together end to end.
LEMMA OrdinalsJoin ==
  ASSUME NEW a \in Nat, NEW n \in Nat, NEW m \in Nat
  PROVE  /\ Ordinals(a, n) \in Seq(Nat) /\ Len(Ordinals(a, n)) = n
         /\ Ordinals(a, n) \o Ordinals(a + n, m) = Ordinals(a, n + m)
<1>1. /\ Ordinals(a, n) \in Seq(Nat) /\ Len(Ordinals(a, n)) = n
  BY DEF Ordinals
<1>2. Ordinals(a, n) \o Ordinals(a + n, m) = Ordinals(a, n + m)
  BY DEF Ordinals
<1> QED BY <1>1, <1>2

\* What a run is, by itself.
LEMMA OrdinalsLength ==
  ASSUME NEW a \in Nat, NEW n \in Nat
  PROVE  Ordinals(a, n) \in Seq(Nat) /\ Len(Ordinals(a, n)) = n
BY DEF Ordinals

\* Cutting a run of numbers.
LEMMA OrdinalsCut ==
  ASSUME NEW a \in Nat, NEW n \in Nat, NEW x \in 0 .. n, NEW y \in x .. n
  PROVE  SubSeq(Ordinals(a, n), x + 1, y) = Ordinals(a + x, y - x)
BY DEF Ordinals

\* The outputs likewise.
LEMMA OutsJoin ==
  ASSUME RateInv, NEW a \in Nat, NEW n \in Nat, NEW m \in Nat
  PROVE  /\ Outs(a, n) \in Seq(Nat) /\ Len(Outs(a, n)) = n
         /\ Outs(a, n) \o Outs(a + n, m) = Outs(a, n + m)
<1> DEFINE g == [i \in Nat |-> i * from]
<1>1. from \in Nat
  BY ReplyConstants DEF RateInv
<1>2. g \in [Nat -> Nat]
  BY <1>1, TimesKeepsOrder
<1>3. \A b, k \in Nat : Outs(b, k) = [i \in 1 .. k |-> g[b + i - 1]]
  BY DEF Outs
<1> HIDE DEF g
<1>4. Outs(a, n) \in Seq(Nat) /\ Len(Outs(a, n)) = n
  <2>1. \A i \in 1 .. n : g[a + i - 1] \in Nat
    BY <1>2
  <2>2. Outs(a, n) = [i \in 1 .. n |-> g[a + i - 1]]
    BY <1>3
  <2> QED BY <2>1, <2>2
<1>5. Outs(a, n) \o Outs(a + n, m) = Outs(a, n + m)
  <2>1. a + n \in Nat /\ n + m \in Nat
    OBVIOUS
  <2>2. /\ Outs(a, n) = [i \in 1 .. n |-> g[a + i - 1]]
        /\ Outs(a + n, m) = [i \in 1 .. m |-> g[a + n + i - 1]]
        /\ Outs(a, n + m) = [i \in 1 .. n + m |-> g[a + i - 1]]
    BY <1>3, <2>1
  <2> DEFINE u == Outs(a, n)
             v == Outs(a + n, m)
             w == Outs(a, n + m)
  <2>3. /\ u \in Seq(Nat) /\ Len(u) = n /\ v \in Seq(Nat) /\ Len(v) = m
        /\ w \in Seq(Nat) /\ Len(w) = n + m
    <3>1. ASSUME NEW b \in Nat, NEW k \in Nat
          PROVE  Outs(b, k) \in Seq(Nat) /\ Len(Outs(b, k)) = k
      <4>1. \A i \in 1 .. k : g[b + i - 1] \in Nat
        BY <1>2
      <4>2. Outs(b, k) = [i \in 1 .. k |-> g[b + i - 1]]
        BY <1>3
      <4> QED BY <4>1, <4>2
    <3> QED BY <2>1, <3>1
  <2>4. /\ \A i \in 1 .. n : u[i] = g[a + i - 1] /\ w[i] = g[a + i - 1]
        /\ \A i \in 1 .. m : v[i] = g[a + n + i - 1]
                            /\ w[n + i] = g[a + (n + i) - 1]
    BY <2>2
  <2> HIDE DEF u, v, w
  <2>5. u \o v \in Seq(Nat) /\ Len(u \o v) = n + m
    BY <2>3, ConcatProperties
  <2>6. ASSUME NEW i \in 1 .. n + m PROVE (u \o v)[i] = w[i]
    <3>1. CASE i <= n
      <4>1. (u \o v)[i] = u[i]
        BY <2>3, <3>1
      <4> QED BY <2>4, <3>1, <4>1
    <3>2. CASE i > n
      <4>1. PICK j \in 1 .. m : i = n + j
        <5>1. i - n \in 1 .. m /\ i = n + (i - n)
          BY <3>2
        <5> QED BY <5>1
      <4>2. (u \o v)[n + j] = v[j]
        BY <2>3
      <4>3. a + n + j - 1 = a + (n + j) - 1
        OBVIOUS
      <4>4. v[j] = w[n + j]
        BY <2>4, <4>3
      <4> QED BY <4>1, <4>2, <4>4
    <3>3. i <= n \/ i > n
      OBVIOUS
    <3> QED BY <3>1, <3>2, <3>3, Zenon
  <2>7. u \o v = w
    BY <2>3, <2>5, <2>6, SeqEqual
  <2> QED BY <2>7 DEF u, v, w
<1> QED BY <1>4, <1>5

\* The resampler after n samples: everything due is out, the cursor stands at
\* the next output, and the buffer holds what the cursor has not passed.
ResamplerAt(s, n) ==
  IF from = To THEN s = NewResampler
  ELSE LET at == DueCount(n) * from
       IN /\ at \div To <= n
          /\ s = [buf |-> Ordinals(at \div To, n - at \div To),
                  pos |-> at % To]

\* A fresh resampler has had no sample.
LEMMA ResamplerStarts == ASSUME RateInv PROVE ResamplerAt(NewResampler, 0)
<1>1. CASE from = To BY <1>1 DEF ResamplerAt
<1>2. CASE from # To
  <2>1. from \in Nat \ {0} /\ To \in Nat \ {0}
    BY ReplyConstants DEF RateInv
  <2>2. DueCount(0) \in Nat /\ ~(0 < DueCount(0))
    <3>1. ~Fits(0, 0)
      <4>1. (0 * from) \div To \in Nat
        BY <2>1, TimesKeepsOrder, Division
      <4> QED BY <4>1 DEF Fits
    <3> QED BY <1>2, <3>1, DueAreThoseThatFit
  <2>3. DueCount(0) * from = 0
    BY <2>1, <2>2
  <2>4. 0 \div To = 0 /\ 0 % To = 0
    BY <2>1
  <2>5. Ordinals(0, 0) = <<>>
    BY DEF Ordinals
  <2> QED BY <1>2, <2>3, <2>4, <2>5 DEF ResamplerAt, NewResampler
<1> QED BY <1>1, <1>2

\* How many outputs a buffer allows, when it allows exactly those below k.
LEMMA OutputsAre ==
  ASSUME NEW bb, NEW pos \in Nat, NEW k \in Nat, RateInv,
         Len(bb) \in Nat,
         \A j \in Nat : j < k <=> (pos + j * from) \div To + 2 <= Len(bb)
  PROVE  Outputs(bb, pos, from, To) = k
<1> DEFINE Poss == {x \in 1 .. To * Len(bb) :
                      (pos + (x - 1) * from) \div To + 2 <= Len(bb)}
<1>1. from \in Nat \ {0} /\ To \in Nat \ {0}
  BY ReplyConstants DEF RateInv
<1>2. To * Len(bb) \in Nat
  BY <1>1, TimesKeepsOrder
<1>3. ASSUME NEW j \in Nat, j < k PROVE j + 1 <= To * Len(bb)
  <2> DEFINE x == pos + j * from
             q == x \div To
  <2>1. j * from \in Nat /\ j <= j * from
    <3>1. 1 * j <= from * j /\ from * j \in Nat
      BY <1>1, TimesKeepsOrder
    <3> QED BY <1>1, <3>1
  <2>2. x \in Nat /\ j <= x
    BY <2>1
  <2>3. q + 2 <= Len(bb)
    BY <1>3
  <2> HIDE DEF x
  <2>4. q \in Nat /\ x < (q + 1) * To
    <3>1. q \in Nat /\ x % To \in 0 .. To - 1 /\ q * To \in Nat
          /\ x = q * To + (x % To)
      BY <1>1, <2>2, Division
    <3> HIDE DEF q
    <3>2. (q + 1) * To = q * To + To
      BY <1>1, <3>1
    <3> QED BY <1>1, <3>1, <3>2
  <2> HIDE DEF q
  <2>5. (q + 1) * To <= Len(bb) * To /\ (q + 1) * To \in Nat
        /\ Len(bb) * To \in Nat
    BY <1>1, <2>3, <2>4, TimesKeepsOrder
  <2>6. Len(bb) * To = To * Len(bb)
    BY <1>1
  <2> QED BY <1>2, <2>2, <2>4, <2>5, <2>6
<1>4. Poss = 1 .. k
  <2>1. ASSUME NEW x \in Poss PROVE x \in 1 .. k
    <3>1. x - 1 \in Nat /\ x \in Nat
      BY <1>2
    <3>2. x - 1 < k
      BY <3>1
    <3> QED BY <1>2, <3>1, <3>2
  <2>2. ASSUME NEW x \in 1 .. k PROVE x \in Poss
    <3>1. x - 1 \in Nat /\ x - 1 < k /\ (x - 1) + 1 = x
      OBVIOUS
    <3>2. x <= To * Len(bb)
      BY <1>3, <3>1
    <3>3. (pos + (x - 1) * from) \div To + 2 <= Len(bb)
      BY <3>1
    <3> QED BY <1>2, <3>2, <3>3
  <2> HIDE DEF Poss
  <2> QED BY <2>1, <2>2
<1>5. Outputs(bb, pos, from, To)
        = IF Poss = {} THEN 0 ELSE CHOOSE n \in Poss : \A y \in Poss : y <= n
  BY DEF Outputs
<1> HIDE DEF Poss
<1>6. CASE k = 0
  BY <1>4, <1>5, <1>6
<1>7. CASE k # 0
  <2>1. k \in Poss
    BY <1>4, <1>7
  <2>2. Poss # {} /\ \A y \in Poss : y <= k /\ y \in Nat
    <3>1. \A y \in 1 .. k : y <= k /\ y \in Nat
      OBVIOUS
    <3> QED BY <1>4, <2>1, <3>1, Zenon
  <2>3. \A n \in Poss : (\A y \in Poss : y <= n) => n = k
    BY <2>1, <2>2
  <2> QED BY <1>5, <2>1, <2>2, <2>3
<1> QED BY <1>6, <1>7

\* At rates up to twice the transport's the cursor never leaves the buffer.
LEMMA CursorInside ==
  ASSUME RateInv, from # To, NEW n \in Nat
  PROVE  /\ DueCount(n) * from \in Nat
         /\ (DueCount(n) * from) \div To \in 0 .. n
         /\ (DueCount(n) * from) % To \in 0 .. To - 1
<1> DEFINE k == DueCount(n)
<1>1. from \in Nat \ {0} /\ To \in Nat \ {0} /\ from <= 2 * To
  BY ReplyConstants DEF RateInv
<1>2. k \in Nat /\ \A i \in Nat : i < k <=> Fits(i, n)
  BY DueAreThoseThatFit
<1> HIDE DEF k
<1>3. k * from \in Nat
  BY <1>1, <1>2, TimesKeepsOrder
<1>4. (k * from) \div To \in Nat /\ (k * from) % To \in 0 .. To - 1
  BY <1>1, <1>3, Division
<1>5. CASE k = 0
  <2>1. (k * from) \div To = 0
    BY <1>1, <1>5
  <2> QED BY <1>3, <1>4, <2>1 DEF k
<1>6. CASE k # 0
  <2>1. k - 1 \in Nat /\ Fits(k - 1, n)
    BY <1>2, <1>6
  <2> DEFINE x == (k - 1) * from
  <2>2. x \in Nat /\ k * from = x + from
    <3>1. x \in Nat
      BY <1>1, <2>1, TimesKeepsOrder
    <3> QED BY <1>1, <1>2, <3>1
  <2>3. x \div To + 2 <= n
    BY <2>1 DEF Fits
  <2> HIDE DEF x
  <2>4. (k * from) \div To <= x \div To + 2
    <3>1. x <= k * from /\ k * from <= x + 2 * To
      BY <1>1, <2>2
    <3> QED BY <1>1, <1>3, <2>2, <3>1, DivisionGrows
  <2>5. x \div To \in Nat
    BY <1>1, <2>2, Division
  <2> QED BY <1>3, <1>4, <2>3, <2>4, <2>5 DEF k
<1> QED BY <1>5, <1>6

\* Output number k is due c whole samples and pos parts from the start.
CursorAt(k, c, pos) ==
  k \in Nat /\ c \in Nat /\ pos \in Nat /\ k * from = c * To + pos

\* The j-th output after the k-th, seen from a cursor c whole samples further.
LEMMA CursorShift ==
  ASSUME RateInv, NEW k, NEW c, NEW pos, CursorAt(k, c, pos), NEW j \in Nat
  PROVE  /\ pos + j * from \in Nat /\ (k + j) * from \in Nat
         /\ (k + j) * from = c * To + (pos + j * from)
         /\ ((k + j) * from) \div To = c + (pos + j * from) \div To
         /\ ((k + j) * from) % To = (pos + j * from) % To
<1>1. from \in Nat \ {0} /\ To \in Nat \ {0}
  BY ReplyConstants DEF RateInv
<1> USE DEF CursorAt
<1>2. j * from \in Nat /\ c * To \in Nat /\ k * from \in Nat
  BY <1>1, TimesKeepsOrder
<1>3. (k + j) * from = k * from + j * from
  BY <1>1
<1>4. /\ pos + j * from \in Nat /\ (k + j) * from \in Nat
      /\ (k + j) * from = c * To + (pos + j * from)
  BY <1>2, <1>3
<1>5. /\ (c * To + (pos + j * from)) \div To = c + (pos + j * from) \div To
      /\ (c * To + (pos + j * from)) % To = (pos + j * from) % To
  BY <1>1, <1>4, DivisionShift
<1> QED BY <1>4, <1>5

\* Process on the next m samples yields what has become due, and no more.
LEMMA Resampled ==
  ASSUME RateInv, NEW n \in Nat, NEW m \in Nat, NEW s, ResamplerAt(s, n)
  PROVE  /\ DueCount(n) \in Nat /\ DueCount(n + m) - DueCount(n) \in Nat
         /\ ResamplerAt(Process(s, Ordinals(n, m), from, To).rs, n + m)
         /\ Process(s, Ordinals(n, m), from, To).out
              = Outs(DueCount(n), DueCount(n + m) - DueCount(n))
<1> DEFINE p == Process(s, Ordinals(n, m), from, To)
<1>1. from \in Nat \ {0} /\ To \in Nat \ {0}
  BY ReplyConstants DEF RateInv
<1>2. n + m \in Nat
  OBVIOUS
<1>3. CASE from = To
  <2>1. DueCount(n) = n /\ DueCount(n + m) = n + m
    BY <1>3 DEF DueCount
  <2>2. p.rs = s /\ p.out = [i \in 1 .. m |-> (Ordinals(n, m)[i] - 1) * To]
    BY <1>3, OrdinalsJoin DEF Process
  <2>3. \A i \in 1 .. m : Ordinals(n, m)[i] = n + i
    BY DEF Ordinals
  <2>4. p.out = [i \in 1 .. m |-> (n + i - 1) * from]
    BY <1>3, <2>2, <2>3
  <2>5. (n + m) - n = m
    OBVIOUS
  <2> QED BY <1>3, <2>1, <2>2, <2>4, <2>5 DEF Outs, ResamplerAt
<1>4. CASE from # To
  <2> DEFINE k == DueCount(n)
             q == DueCount(n + m)
             c == (k * from) \div To
             pos == (k * from) % To
             L == n + m - c
             bb == Ordinals(c, L)
  <2>1. /\ k \in Nat /\ \A i \in Nat : i < k <=> Fits(i, n)
        /\ q \in Nat /\ \A i \in Nat : i < q <=> Fits(i, n + m)
    BY <1>2, <1>4, DueAreThoseThatFit
  <2>2. c \in 0 .. n /\ pos \in 0 .. To - 1 /\ k * from \in Nat
    BY <1>4, CursorInside
  <2>3. (q * from) \div To \in 0 .. n + m /\ q * from \in Nat
    BY <1>2, <1>4, CursorInside
  <2>4. s.buf = Ordinals(c, n - c) /\ s.pos = pos
    BY <1>4 DEF ResamplerAt
  <2>5. k * from = c * To + pos /\ c * To \in Nat
    BY <1>1, <2>2, Division
  <2> HIDE DEF k, q, c, pos
  <2>6. L \in Nat /\ c \in Nat /\ pos \in Nat /\ c + L = n + m
    BY <1>1, <2>2
  <2> CursorAt(k, c, pos)
    BY <2>1, <2>5, <2>6 DEF CursorAt
  <2>7. k <= q
    <3> SUFFICES ASSUME q < k PROVE FALSE
      BY <2>1
    <3>1. Fits(q, n)
      BY <2>1
    <3>2. (q * from) \div To \in Nat
      BY <2>3
    <3>3. Fits(q, n + m)
      BY <3>1, <3>2 DEF Fits
    <3> QED BY <2>1, <3>3
  <2>8. s.buf \o Ordinals(n, m) = bb
    <3>1. n - c \in Nat /\ c + (n - c) = n /\ (n - c) + m = L
      BY <2>2
    <3>2. Ordinals(c, n - c) \o Ordinals(c + (n - c), m)
            = Ordinals(c, (n - c) + m)
      BY ONLY <2>6, <3>1, m \in Nat, OrdinalsJoin
    <3> QED BY <2>4, <3>1, <3>2
  <2>9. Len(bb) = L
    BY <2>6, OrdinalsJoin
  <2>10. \A i \in 1 .. L : bb[i] = c + i
    BY DEF Ordinals
  <2>11. ASSUME NEW j \in Nat
         PROVE  /\ j < q - k <=> (pos + j * from) \div To + 2 <= L
                /\ pos + j * from \in Nat
                /\ (k + j) * from = c * To + (pos + j * from)
    <3>1. /\ (k + j) * from = c * To + (pos + j * from)
          /\ ((k + j) * from) \div To = c + (pos + j * from) \div To
          /\ pos + j * from \in Nat
      BY CursorShift
    <3>2. k + j < q <=> Fits(k + j, n + m)
      BY <2>1
    <3>3. (pos + j * from) \div To \in Nat
      BY <1>1, <3>1, Division
    <3>4. Fits(k + j, n + m) <=> (pos + j * from) \div To + 2 <= L
      BY <2>6, <3>1, <3>3 DEF Fits
    <3> QED BY <2>1, <3>1, <3>2, <3>4
  <2> DEFINE d == q - k
             next == pos + d * from
  <2>12. d \in Nat
    BY <2>1, <2>7
  <2>13. Outputs(bb, pos, from, To) = d
    <3> HIDE DEF bb, L
    <3> QED BY <2>6, <2>9, <2>11, <2>12, OutputsAre
  <2>14. /\ p.rs = [buf |-> SubSeq(bb, next \div To + 1, L),
                    pos |-> next % To]
         /\ p.out = [x \in 1 .. d |->
                       Interpolate(bb, pos + (x - 1) * from, To)]
    <3> HIDE DEF bb, L, d
    <3> QED BY <1>4, <2>4, <2>8, <2>9, <2>13 DEF Process
  <2>15. /\ next \in Nat /\ (q * from) \div To = c + next \div To
         /\ (q * from) % To = next % To
    <3>1. k + d = q
      BY <2>1
    <3>2. /\ pos + d * from \in Nat
          /\ ((k + d) * from) \div To = c + (pos + d * from) \div To
          /\ ((k + d) * from) % To = (pos + d * from) % To
      <4> HIDE DEF d
      <4> QED BY <2>12, CursorShift
    <3> QED BY <3>1, <3>2
  <2>16. next \div To \in 0 .. L
    <3> DEFINE e == next \div To
    <3>1. e \in Nat
      BY <1>1, <2>15, Division
    <3> HIDE DEF e
    <3>2. c + e \in 0 .. n + m
      BY <2>3, <2>15 DEF e
    <3>3. e \in 0 .. L
      BY <2>6, <3>1, <3>2
    <3> QED BY <3>3 DEF e
  <2>17. ResamplerAt(p.rs, n + m)
    <3>1. SubSeq(bb, next \div To + 1, L)
            = Ordinals(c + next \div To, L - next \div To)
      <4> HIDE DEF next
      <4> DEFINE e == next \div To
      <4>1. e \in 0 .. L /\ L \in e .. L
        BY <2>6, <2>16
      <4> HIDE DEF e, L
      <4>2. SubSeq(Ordinals(c, L), e + 1, L) = Ordinals(c + e, L - e)
        BY <2>6, <4>1, OrdinalsCut
      <4> QED BY <4>2 DEF e
    <3>2. L - next \div To = n + m - (q * from) \div To
      BY <2>2, <2>3, <2>6, <2>15, <2>16
    <3>3. p.rs = [buf |-> Ordinals((q * from) \div To,
                                   n + m - (q * from) \div To),
                  pos |-> (q * from) % To]
      BY <2>14, <2>15, <3>1, <3>2
    <3> QED BY <1>4, <2>3, <3>3 DEF ResamplerAt, q
  <2>18. ASSUME NEW x \in 1 .. d
         PROVE  Interpolate(bb, pos + (x - 1) * from, To)
                  = (k + x - 1) * from
    <3> DEFINE j == x - 1
               at == pos + j * from
               i == at \div To + 1
    <3>1. j \in Nat /\ j < d
      BY <2>12
    <3>2. at \in Nat /\ (k + j) * from = c * To + at /\ at \div To + 2 <= L
      BY <2>11, <3>1
    <3>3. k + j = k + x - 1
      BY <2>1
    <3> HIDE DEF j
    <3> HIDE DEF at
    <3>4. /\ at \div To \in Nat /\ at % To \in 0 .. To - 1
          /\ (at \div To) * To \in Nat
          /\ at = (at \div To) * To + (at % To)
      BY <1>1, <3>2, Division
    <3>5. i \in 1 .. L /\ i + 1 \in 1 .. L
      BY <2>6, <3>2, <3>4
    <3>6. bb[i] = c + i /\ bb[i + 1] = c + (i + 1)
      BY <2>10, <3>5
    <3>7. Interpolate(bb, at, To) = (c + i - 1) * To + (at % To)
      <4>1. bb[i + 1] = bb[i] + 1
        BY <2>6, <3>5, <3>6
      <4>2. bb[i] - 1 = c + i - 1
        BY <2>6, <3>5, <3>6
      <4> HIDE DEF bb
      <4>3. Interpolate(bb, at, To) = (bb[i] - 1) * To + (at % To)
        BY <4>1 DEF Interpolate
      <4> HIDE DEF i
      <4> QED BY <4>2, <4>3
    <3>8. (c + i - 1) * To = c * To + (at \div To) * To
      <4> DEFINE e == at \div To
      <4>1. e \in Nat /\ c + i - 1 = c + e
        BY <2>6, <3>4
      <4> HIDE DEF e
      <4>2. (c + e) * To = c * To + e * To
        BY <1>1, <2>6, <4>1
      <4> QED BY <4>1, <4>2 DEF e
    <3>9. Interpolate(bb, at, To) = c * To + at
      BY <2>5, <3>2, <3>4, <3>7, <3>8
    <3> QED BY <3>2, <3>3, <3>9 DEF j, at
  <2>19. p.out = Outs(k, d)
    BY <2>14, <2>18 DEF Outs
  <2> QED BY <2>1, <2>12, <2>17, <2>19 DEF k, q
<1> QED BY <1>3, <1>4

-----------------------------------------------------------------------------
(* Part 3: bytes, samples and frames.                                      *)

\* The byte carried over after b bytes: the last one, if it has no partner.
Carried(b) == IF b % 2 = 1 THEN <<b>> ELSE <<>>

\* As a run of bytes that starts a sample.
LEMMA CarriedIsRun ==
  ASSUME NEW b \in Nat
  PROVE  /\ b \div 2 \in Nat /\ b % 2 \in 0 .. 1
         /\ b = 2 * (b \div 2) + (b % 2)
         /\ Carried(b) = Ordinals(2 * (b \div 2), b % 2)
<1>1. /\ b \div 2 \in Nat /\ b % 2 \in 0 .. 1
      /\ b = 2 * (b \div 2) + (b % 2)
  OBVIOUS
<1>2. CASE b % 2 = 1
  <2>1. Ordinals(b - 1, 1) = <<b>>
    BY DEF Ordinals
  <2>2. 2 * (b \div 2) = b - 1
    BY <1>1, <1>2
  <2> QED BY <1>1, <1>2, <2>1, <2>2 DEF Carried
<1>3. CASE b % 2 = 0
  <2>1. Ordinals(2 * (b \div 2), 0) = <<>>
    BY DEF Ordinals
  <2> QED BY <1>1, <1>3, <2>1 DEF Carried
<1> QED BY <1>1, <1>2, <1>3

\* A run of whole samples is read as those samples.
LEMMA SamplesOfRun ==
  ASSUME NEW h \in Nat, NEW k \in Nat
  PROVE  Samples(Ordinals(2 * h, 2 * k)) = Ordinals(h, k)
<1> DEFINE raw == Ordinals(2 * h, 2 * k)
<1>1. 2 * h \in Nat /\ 2 * k \in Nat /\ (2 * k) \div 2 = k
  OBVIOUS
<1>2. Len(raw) = 2 * k
  BY <1>1, OrdinalsJoin
<1>3. ASSUME NEW i \in 1 .. k
      PROVE  /\ raw[2 * i] = 2 * (h + i)
             /\ raw[2 * i - 1] = 2 * (h + i) - 1
  BY DEF Ordinals
<1> HIDE DEF raw
<1>4. ASSUME NEW i \in 1 .. k
      PROVE  (IF raw[2 * i] % 2 = 0 /\ raw[2 * i - 1] = raw[2 * i] - 1
              THEN raw[2 * i] \div 2 ELSE 0) = h + i
  <2>1. raw[2 * i] % 2 = 0 /\ raw[2 * i] \div 2 = h + i
    <3>1. (2 * (h + i)) % 2 = 0 /\ (2 * (h + i)) \div 2 = h + i
      OBVIOUS
    <3> QED BY <1>3, <3>1
  <2>2. raw[2 * i - 1] = raw[2 * i] - 1
    BY <1>3
  <2> QED BY <2>1, <2>2
<1>5. Samples(raw) = [i \in 1 .. k |-> h + i]
  BY <1>1, <1>2, <1>4 DEF Samples
<1> QED BY <1>5 DEF Ordinals, raw

\* alignPCMBytes on the next n bytes: the samples they complete, in order, and
\* the byte that is left.
LEMMA Aligned ==
  ASSUME NEW b \in Nat, NEW n \in Nat
  PROVE  LET a == Align(Carried(b), Ordinals(b, n))
             k == (b + n) \div 2 - b \div 2
         IN /\ k \in Nat
            /\ Len(a.raw) = 2 * k
            /\ Samples(a.raw) = Ordinals(b \div 2, k)
            /\ a.carry = Carried(b + n)
<1> DEFINE h == b \div 2
           p == b % 2
           g == (b + n) \div 2
           q == (b + n) % 2
           k == g - h
<1>1. /\ h \in Nat /\ p \in 0 .. 1 /\ b = 2 * h + p
      /\ Carried(b) = Ordinals(2 * h, p)
  BY CarriedIsRun
<1>2. /\ g \in Nat /\ q \in 0 .. 1 /\ b + n = 2 * g + q
      /\ Carried(b + n) = Ordinals(2 * g, q)
  <2>1. b + n \in Nat
    OBVIOUS
  <2> QED BY <2>1, CarriedIsRun
<1> HIDE DEF h, p, g, q
<1>3. /\ k \in Nat /\ p + n = 2 * k + q /\ p + n \in Nat
      /\ p \in Nat /\ 2 * h \in Nat
  BY <1>1, <1>2
<1>4. (p + n) % 2 = q
  <2>1. (2 * k + q) % 2 = q
    BY <1>2, <1>3
  <2> QED BY <1>3, <2>1
<1>5. Carried(b) \o Ordinals(b, n) = Ordinals(2 * h, p + n)
      /\ Len(Ordinals(2 * h, p + n)) = p + n
  <2> DEFINE start == 2 * h
  <2> start \in Nat /\ p \in Nat
    BY <1>3
  <2> HIDE DEF start, k
  <2>1. Ordinals(start, p) \o Ordinals(start + p, n) = Ordinals(start, p + n)
    BY OrdinalsJoin
  <2>2. Len(Ordinals(2 * h, p + n)) = p + n
    BY ONLY <1>3, n \in Nat, OrdinalsLength
  <2> QED BY <1>1, <2>1, <2>2 DEF start
<1> DEFINE a == Align(Carried(b), Ordinals(b, n))
<1>6. /\ a.raw = SubSeq(Ordinals(2 * h, p + n), 1, 2 * k)
      /\ a.carry = SubSeq(Ordinals(2 * h, p + n), 2 * k + 1, p + n)
  <2> HIDE DEF k
  <2>1. (p + n) - ((p + n) % 2) = 2 * k
    <3>1. (p + n) - q = 2 * k
      BY <1>2, <1>3
    <3> QED BY <1>4, <3>1
  <2> QED BY <1>5, <2>1 DEF Align
<1> HIDE DEF a, k
<1>7. a.raw = Ordinals(2 * h, 2 * k)
  <2>1. 0 \in 0 .. p + n /\ 2 * k \in 0 .. p + n
    BY <1>2, <1>3
  <2>2. SubSeq(Ordinals(2 * h, p + n), 0 + 1, 2 * k)
          = Ordinals(2 * h + 0, 2 * k - 0)
    BY ONLY <1>3, <2>1, OrdinalsCut
  <2> QED BY <1>3, <1>6, <2>2
<1>8. a.carry = Ordinals(2 * g, q)
  <2>1. 2 * k \in 0 .. p + n /\ p + n \in 2 * k .. p + n
    BY <1>2, <1>3
  <2>2. SubSeq(Ordinals(2 * h, p + n), 2 * k + 1, p + n)
          = Ordinals(2 * h + 2 * k, (p + n) - 2 * k)
    BY ONLY <1>3, <2>1, OrdinalsCut
  <2>3. 2 * h + 2 * k = 2 * g /\ (p + n) - 2 * k = q
    BY <1>1, <1>2, <1>3 DEF k
  <2>4. Ordinals(2 * h + 2 * k, (p + n) - 2 * k) = Ordinals(2 * g, q)
    BY <2>3, Zenon
  <2> QED BY <1>6, <2>2, <2>4, Zenon
<1>9. Len(a.raw) = 2 * k
  BY <1>3, <1>7, OrdinalsLength
<1>10. Samples(a.raw) = Ordinals(h, k)
  BY <1>1, <1>3, <1>7, SamplesOfRun
<1> QED BY <1>2, <1>3, <1>8, <1>9, <1>10 DEF a, k, h, g

\* Frames of n samples.
AreFrames(fs, n) == \A i \in 1 .. Len(fs) : Len(fs[i]) = n

\* Their lengths add up.
LEMMA FlattenLength ==
  ASSUME NEW X, NEW n \in Nat, NEW fs \in Seq(Seq(X)), AreFrames(fs, n)
  PROVE  Len(FlattenSeq(fs)) = Len(fs) * n
<1>1. CASE fs = <<>>
  <2>1. FlattenSeq(fs) = <<>>
    BY <1>1, FlattenEmpty
  <2>2. Len(fs) = 0 /\ 0 * n = 0
    BY <1>1
  <2> QED BY <1>1, <2>1, <2>2
<1>2. CASE fs # <<>>
  <2>1. PICK g \in [1 .. Len(fs) -> Seq(X)] : Runs(fs, g)
    BY RunsExist
  <2>2. /\ Len(fs) \in Nat /\ Len(fs) \in 1 .. Len(fs)
        /\ \A i \in 1 .. Len(fs) : g[i] \in Seq(X) /\ fs[i] \in Seq(X)
        /\ g[1] = fs[1]
        /\ \A i \in 1 .. (Len(fs) - 1) : g[i + 1] = g[i] \o fs[i + 1]
    BY <1>2, <2>1, RunsStep
  <2>3. FlattenSeq(fs) = g[Len(fs)]
    BY <1>2, <2>1, FlattenRuns
  <2> DEFINE S == {i \in Nat : Len(g[i]) = i * n}
             N == Len(fs)
  <2>4. 1 \in S
    <3>1. Len(g[1]) = n /\ 1 * n = n
      BY <2>2 DEF AreFrames
    <3> QED BY <3>1
  <2>5. ASSUME NEW i \in 1 .. N - 1, i \in S PROVE i + 1 \in S
    <3>1. i + 1 \in 1 .. N /\ i \in 1 .. N
      BY <2>2
    <3>2. Len(g[i] \o fs[i + 1]) = Len(g[i]) + Len(fs[i + 1])
      BY <2>2, <3>1, ConcatProperties
    <3>3. Len(fs[i + 1]) = n
      BY <3>1 DEF AreFrames
    <3>4. (i + 1) * n = i * n + n
      OBVIOUS
    <3>5. Len(g[i + 1]) = (i + 1) * n
      BY <2>2, <2>5, <3>2, <3>3, <3>4
    <3> QED BY <3>5
  <2>6. 1 .. N \subseteq S
    <3> HIDE DEF S, N
    <3>1. N \in Nat
      BY <2>2 DEF N
    <3> QED BY <2>4, <2>5, <3>1, IntervalInduction
  <2>7. N \in S
    BY <2>2, <2>6
  <2> QED BY <2>3, <2>7
<1> QED BY <1>1, <1>2

\* SampleBuffer.Push: frames of n, less than a frame over, and nothing lost.
LEMMA Framed ==
  ASSUME NEW X, NEW s \in Seq(X), NEW n \in Nat \ {0}
  PROVE  LET r == Reframe(s, n)
         IN /\ r.frames \in Seq(Seq(X)) /\ AreFrames(r.frames, n)
            /\ r.rest \in Seq(X) /\ Len(r.rest) < n
            /\ FlattenSeq(r.frames) \o r.rest = s
<1> DEFINE r == Reframe(s, n)
           m == Len(s) \div n
           fs == [i \in 1 .. m |-> SubSeq(s, (i - 1) * n + 1, i * n)]
<1>1. Len(s) \in Nat /\ n \in Nat
  OBVIOUS
<1>2. /\ m \in Nat /\ m * n \in 0 .. Len(s) /\ Len(s) - m * n < n
  <2> DEFINE x == m * n
  <2>1. m \in Nat /\ Len(s) % n \in 0 .. n - 1 /\ x \in Nat
        /\ Len(s) = x + (Len(s) % n)
    BY <1>1, Division
  <2> HIDE DEF x, m
  <2>2. x \in 0 .. Len(s) /\ Len(s) - x < n
    BY <1>1, <2>1
  <2> QED BY <2>1, <2>2 DEF x
<1>3. /\ r.frames = fs
      /\ r.rest = SubSeq(s, m * n + 1, Len(s))
  BY DEF Reframe, FramesIn, FrameAt
<1> HIDE DEF m, r
<1>4. ASSUME NEW i \in 1 .. m
      PROVE  /\ (i - 1) * n \in Nat /\ i * n = (i - 1) * n + n
             /\ i * n \in 0 .. Len(s)
  <2>1. i - 1 \in Nat /\ i \in Nat /\ i <= m
    BY <1>2
  <2>2. (i - 1) * n \in Nat /\ i * n \in Nat /\ i * n <= m * n
    BY <1>1, <1>2, <2>1, TimesKeepsOrder
  <2>3. i * n = (i - 1) * n + n
    BY <1>1, <2>1
  <2> QED BY <1>2, <2>2, <2>3
<1>5. ASSUME NEW i \in 1 .. m
      PROVE  fs[i] \in Seq(X) /\ Len(fs[i]) = n
  <2> DEFINE u == (i - 1) * n
             v == i * n
  <2>1. u \in Nat /\ v = u + n /\ v \in 0 .. Len(s)
    BY <1>4
  <2>2. fs[i] = SubSeq(s, u + 1, v)
    OBVIOUS
  <2> HIDE DEF u, v, fs
  <2>3. SubSeq(s, u + 1, v) \in Seq(X) /\ Len(SubSeq(s, u + 1, v)) = n
    BY <1>1, <2>1
  <2> QED BY <2>2, <2>3
<1>6. fs \in Seq(Seq(X)) /\ Len(fs) = m
  <2>1. fs \in [1 .. m -> Seq(X)]
    BY <1>5
  <2> HIDE DEF fs
  <2> QED BY <1>2, <2>1
<1>7. FlattenSeq(fs) = SubSeq(s, 1, m * n)
  <2>1. CASE m = 0
    <3>1. fs = <<>>
      BY <1>6, <2>1
    <3>2. m * n = 0 /\ SubSeq(s, 1, 0) = <<>>
      BY <1>1, <2>1
    <3> QED BY <3>1, <3>2, FlattenEmpty
  <2>2. CASE m # 0
    <3> DEFINE g == [i \in 1 .. m |-> SubSeq(s, 1, i * n)]
    <3>1. ASSUME NEW i \in 1 .. m
          PROVE  g[i] = IF i = 1 THEN fs[i] ELSE g[i - 1] \o fs[i]
      <4>1. CASE i = 1
        <5>1. (i - 1) * n = 0
          BY <1>1, <4>1
        <5> QED BY <4>1, <5>1
      <4>2. CASE i # 1
        <5>1. i - 1 \in 1 .. m
          BY <1>2, <4>2
        <5> DEFINE u == (i - 1) * n
                   v == i * n
        <5>2. u \in Nat /\ v = u + n /\ v \in 0 .. Len(s)
          BY <1>4
        <5>3. g[i - 1] = SubSeq(s, 1, u) /\ g[i] = SubSeq(s, 1, v)
              /\ fs[i] = SubSeq(s, u + 1, v)
          BY <5>1
        <5> HIDE DEF u, v, g, fs
        <5>4. 1 \in 1 .. Len(s) + 1 /\ u \in 1 - 1 .. Len(s)
              /\ v \in u .. Len(s)
          BY <1>1, <5>2
        <5>5. SubSeq(s, 1, u) \o SubSeq(s, u + 1, v) = SubSeq(s, 1, v)
          BY <5>4, ConcatAdjacentSubSeq
        <5> QED BY <4>2, <5>3, <5>5
      <4> QED BY <4>1, <4>2
    <3>2. Runs(fs, g)
      BY <1>6, <3>1 DEF Runs
    <3>3. fs # <<>>
      BY <1>6, <2>2
    <3>4. FlattenSeq(fs) = g[m]
      <4> HIDE DEF g, fs
      <4> QED BY <1>6, <3>2, <3>3, FlattenRuns
    <3>5. m \in 1 .. m
      BY <1>2, <2>2
    <3>6. g[m] = SubSeq(s, 1, m * n)
      BY <3>5
    <3> QED BY <3>4, <3>6, Zenon
  <2> QED BY <2>1, <2>2
<1>8. /\ SubSeq(s, m * n + 1, Len(s)) \in Seq(X)
      /\ Len(SubSeq(s, m * n + 1, Len(s))) < n
      /\ SubSeq(s, 1, m * n) \o SubSeq(s, m * n + 1, Len(s)) = s
  <2> DEFINE x == m * n
  <2>1. x \in 0 .. Len(s) /\ Len(s) - x < n
    BY <1>2
  <2> HIDE DEF x
  <2>2. /\ SubSeq(s, x + 1, Len(s)) \in Seq(X)
        /\ Len(SubSeq(s, x + 1, Len(s))) = Len(s) - x
        /\ SubSeq(s, 1, x) \o SubSeq(s, x + 1, Len(s)) = s
    BY <2>1, CutConcat
  <2> QED BY <2>1, <2>2 DEF x
<1>9. AreFrames(fs, n)
  BY <1>5, <1>6 DEF AreFrames
<1> QED BY <1>3, <1>6, <1>7, <1>8, <1>9 DEF r

\* SampleBuffer.FlushPadded: the rest, and silence to the end of a frame.
LEMMA PaddedIs ==
  ASSUME NEW X, NEW s \in Seq(X), NEW n \in Nat, Len(s) < n, NEW pad \in X
  PROVE  /\ Padded(s, n, pad) \in Seq(Seq(X))
         /\ AreFrames(Padded(s, n, pad), n)
         /\ \E p \in Seq({pad}) :
              /\ FlattenSeq(Padded(s, n, pad)) = s \o p
              /\ Len(p) < n
<1>1. CASE s = <<>>
  <2>1. Padded(s, n, pad) = <<>>
    BY <1>1 DEF Padded
  <2>2. /\ <<>> \in Seq(Seq(X)) /\ AreFrames(<<>>, n)
    BY DEF AreFrames
  <2>3. <<>> \in Seq({pad}) /\ <<>> = s \o <<>> /\ Len(<<>>) < n
    BY <1>1
  <2> QED BY <2>1, <2>2, <2>3, FlattenEmpty
<1>2. CASE s # <<>>
  <2> DEFINE f == [i \in 1 .. n |-> IF i <= Len(s) THEN s[i] ELSE pad]
             p == [i \in 1 .. n - Len(s) |-> pad]
  <2>1. Padded(s, n, pad) = <<f>>
    BY <1>2 DEF Padded
  <2>2. f \in Seq(X) /\ Len(f) = n
    <3>1. \A i \in 1 .. n : (IF i <= Len(s) THEN s[i] ELSE pad) \in X
      OBVIOUS
    <3> QED BY <3>1
  <2>3. p \in Seq({pad}) /\ Len(p) = n - Len(s) /\ p \in Seq(X)
    OBVIOUS
  <2>4. f = s \o p
    OBVIOUS
  <2>5. Len(s) \in Nat \ {0}
    BY <1>2
  <2> HIDE DEF f, p
  <2>6. Len(p) < n
    BY <2>3, <2>5
  <2>7. FlattenSeq(<<f>>) = f
    BY <2>2, FlattenOne
  <2>8. <<f>> \in Seq(Seq(X)) /\ AreFrames(<<f>>, n)
    BY <2>2 DEF AreFrames
  <2> QED BY <2>1, <2>3, <2>4, <2>6, <2>7, <2>8
<1> QED BY <1>1, <1>2

-----------------------------------------------------------------------------
(* Part 4: the audio of a phrase.                                          *)

\* A frame for Send.
Frm == [audio : Seq(Int), fadeIn : BOOLEAN, fadeOut : BOOLEAN]

\* What the state of speak is made of.
PcmType ==
  /\ RateInv
  /\ sent \in Seq(Frm)
  /\ held \in Seq(Frm) /\ (held = <<>> \/ Len(held) = 1)
  /\ frames \in Seq(Seq(Int))
  /\ reframe \in Seq(Int)

\* The bytes that came are samples the worker took, samples on offer, and at
\* most one byte carried over.
BytesInv ==
  /\ bytes \in Nat /\ delivered \in Nat
  /\ tts \in {"read", "select"} =>
       /\ carry = Carried(bytes)
       /\ delivered <= bytes \div 2
       /\ ttsChunk.data = Ordinals(delivered, bytes \div 2 - delivered)
  /\ tts = "read" => ttsChunk = Nothing

\* Which frames fade, while they are queued.
FadeInv ==
  /\ \A i \in 1 .. Len(sent) :
       /\ sent[i].fadeIn <=> i = 1
       /\ sent[i].fadeOut => i = Len(sent) /\ held = <<>>
  /\ held # <<>> => /\ held[1].fadeIn <=> sent = <<>>
                    /\ ~held[1].fadeOut
  /\ worker \in {"listen", "queue", "tail", "release"} /\ held = <<>>
       => sent = <<>>
  /\ worker = "start" => sent = <<>>
  /\ worker = "receive" /\ sent # <<>> => sent[Len(sent)].fadeOut

\* What is left where, when a phrase begins, and when it ends.
LeftInv ==
  /\ worker = "listen" => frames = <<>>
  /\ worker \in {"tail", "release"} => reframe = <<>>
  /\ worker = "release" => frames = <<>>
  /\ worker \in {"start", "receive"} =>
       held = <<>> /\ frames = <<>> /\ reframe = <<>>

\* All frames have the length of one.
LengthInv ==
  /\ AreFrames(frames, FrameLen)
  /\ \A i \in 1 .. Len(sent) : Len(sent[i].audio) = FrameLen
  /\ \A i \in 1 .. Len(held) : Len(held[i].audio) = FrameLen

\* What is to be heard of n samples, when no more will come.
Audible(n) == Outs(0, DueCount(n)) \o Ending(n)

\* What is out is what is due, and at the end less than a frame of silence.
StreamInv ==
  /\ worker \in {"listen", "queue"} =>
       ResamplerAt(rs, delivered) /\ Output = Outs(0, DueCount(delivered))
  /\ worker \in {"tail", "release"} =>
       \E p \in Seq({Silence}) :
         Output = Audible(delivered) \o p /\ Len(p) < FrameLen

\* The parts about fades and frames; those about bytes and samples; all.
QueueInv == PcmType /\ FadeInv /\ LeftInv /\ LengthInv
AudioInv == QueueInv /\ BytesInv /\ StreamInv

\* Steps of others, and steps with which the worker waits or leaves, touch none
\* of it.
Quiet ==
  /\ UNCHANGED <<from, pcmVars>>
  /\ \/ worker' = worker
     \/ worker' = "returned"
     \/ worker = "start" /\ worker' = "receive"

\* They keep what is said of frames.
LEMMA QueueQuiet == QueueInv /\ Quiet => QueueInv'
<1> SUFFICES ASSUME QueueInv, Quiet PROVE QueueInv'
  OBVIOUS
<1>1. PcmType'
  BY DEF QueueInv, Quiet, PcmType, RateInv, pcmVars
<1>2. FadeInv'
  BY DEF QueueInv, Quiet, FadeInv, pcmVars
<1>3. LeftInv'
  BY DEF QueueInv, Quiet, LeftInv, FadeInv, pcmVars
<1>4. LengthInv'
  BY DEF QueueInv, Quiet, LengthInv, AreFrames, pcmVars
<1> QED BY <1>1, <1>2, <1>3, <1>4 DEF QueueInv

\* And what is said of samples.
LEMMA StreamQuiet == StreamInv /\ Quiet => StreamInv'
<1> SUFFICES ASSUME StreamInv, Quiet PROVE StreamInv'
  OBVIOUS
<1>1. /\ from' = from /\ rs' = rs /\ delivered' = delivered
      /\ UNCHANGED <<sent, held, frames, reframe>>
  BY DEF Quiet, pcmVars
<1>2. Output' = Output
  BY <1>1 DEF Output, Audio
<1>3. \A k : Outs(0, k)' = Outs(0, k)
  BY <1>1 DEF Outs
<1>4. DueCount(delivered)' = DueCount(delivered)
  BY <1>1 DEF DueCount
<1>5. Ending(delivered)' = Ending(delivered)
  BY <1>1, <1>4 DEF Ending, DueCount
<1>6. ResamplerAt(rs, delivered)' <=> ResamplerAt(rs, delivered)
  BY <1>1, <1>4 DEF ResamplerAt, DueCount
<1> QED BY <1>1, <1>2, <1>3, <1>4, <1>5, <1>6 DEF StreamInv, Audible, Quiet

\* Which steps those are.
LEMMA OthersAreQuiet ==
  ASSUME \/ Start \/ StartFails \/ ReceiveDelta \/ ReceiveEnd
         \/ ReceiveErrorCancelled \/ WaitForPlayout \/ SynthesizeFails
         \/ ListenErrorCancelled \/ SendFails
         \/ Llm \/ Tts \/ Cancel \/ UNCHANGED vars
  PROVE  Quiet
<1> USE DEF Quiet, Return
<1>1. CASE Start BY <1>1 DEF Start
<1>2. CASE StartFails BY <1>2 DEF StartFails
<1>3. CASE ReceiveDelta BY <1>3 DEF ReceiveDelta
<1>4. CASE ReceiveEnd BY <1>4 DEF ReceiveEnd, LeaveLoop
<1>5. CASE ReceiveErrorCancelled BY <1>5 DEF ReceiveErrorCancelled
<1>6. CASE WaitForPlayout BY <1>6 DEF WaitForPlayout
<1>7. CASE SynthesizeFails BY <1>7 DEF SynthesizeFails
<1>8. CASE ListenErrorCancelled BY <1>8 DEF ListenErrorCancelled
<1>9. CASE SendFails BY <1>9 DEF SendFails
<1>10. CASE Llm
  BY <1>10 DEF Llm, LlmDelta, LlmDone, LlmGarbled, LlmReadError, LlmOffers,
     LlmCancelled
<1>11. CASE Tts
  <2>1. ASSUME NEW n \in ByteCounts, TtsAudio(n) PROVE Quiet
    BY <2>1 DEF TtsAudio
  <2>2. ASSUME NEW kind \in {"done", "err"}, TtsEnds(kind) PROVE Quiet
    BY <2>2 DEF TtsEnds
  <2>3. CASE TtsCancelled BY <2>3 DEF TtsCancelled
  <2> QED BY <1>11, <2>1, <2>2, <2>3 DEF Tts
<1>12. CASE Cancel BY <1>12 DEF Cancel
<1>13. CASE UNCHANGED vars BY <1>13 DEF vars
<1> QED
  BY <1>1, <1>2, <1>3, <1>4, <1>5, <1>6, <1>7, <1>8, <1>9, <1>10, <1>11,
     <1>12, <1>13

\* As long as the rate stays, so does what is due.
LEMMA SameRate ==
  ASSUME from' = from
  PROVE  /\ \A n : DueCount(n)' = DueCount(n)
         /\ \A a, n : Outs(a, n)' = Outs(a, n)
         /\ \A n : Ending(n)' = Ending(n)
         /\ \A n : Audible(n)' = Audible(n)
         /\ \A s, n : ResamplerAt(s, n)' <=> ResamplerAt(s, n)
<1>1. \A n : DueCount(n)' = DueCount(n)
  BY DEF DueCount
<1>2. \A a, n : Outs(a, n)' = Outs(a, n)
  BY DEF Outs
<1>3. \A n : Ending(n)' = Ending(n)
  BY <1>1 DEF Ending
<1>4. \A n : Audible(n)' = Audible(n)
  BY <1>1, <1>2, <1>3 DEF Audible
<1>5. \A s, n : ResamplerAt(s, n)' <=> ResamplerAt(s, n)
  BY <1>1 DEF ResamplerAt
<1> QED BY <1>1, <1>2, <1>3, <1>4, <1>5

\* The audio of frames: a sequence, to which a frame adds its own.
LEMMA AudioAppend ==
  ASSUME NEW fs \in Seq(Frm), NEW f \in Frm
  PROVE  /\ Audio(fs) \in Seq(Int) /\ f.audio \in Seq(Int)
         /\ Audio(Append(fs, f)) = Audio(fs) \o f.audio
<1> DEFINE a == [i \in DOMAIN fs |-> fs[i].audio]
           b == [i \in DOMAIN Append(fs, f) |-> Append(fs, f)[i].audio]
<1>1. f.audio \in Seq(Int)
  BY DEF Frm
<1>2. a \in Seq(Seq(Int))
  <2>1. DOMAIN fs = 1 .. Len(fs) /\ Len(fs) \in Nat
    OBVIOUS
  <2>2. \A i \in DOMAIN fs : fs[i] \in Frm
    BY ElementOfSeq, <2>1
  <2>3. a \in [1 .. Len(fs) -> Seq(Int)]
    BY <2>1, <2>2 DEF Frm
  <2> HIDE DEF a
  <2> QED BY <2>1, <2>3
<1>3. b = Append(a, f.audio)
  <2>1. /\ Append(fs, f) \in Seq(Frm) /\ Len(Append(fs, f)) = Len(fs) + 1
        /\ Append(fs, f)[Len(fs) + 1] = f
        /\ \A i \in 1 .. Len(fs) : Append(fs, f)[i] = fs[i]
    BY AppendProperties
  <2>2. DOMAIN fs = 1 .. Len(fs) /\ Len(fs) \in Nat
        /\ DOMAIN Append(fs, f) = 1 .. Len(fs) + 1
    BY <2>1
  <2>3. Len(a) = Len(fs)
    BY <2>2
  <2> QED BY <2>1, <2>2, <2>3
<1> HIDE DEF a, b
<1>4. FlattenSeq(Append(a, f.audio)) = FlattenSeq(a) \o f.audio
  BY <1>1, <1>2, FlattenAppend
<1>5. FlattenSeq(a) \in Seq(Int)
  BY <1>2, FlattenType
<1> QED BY <1>1, <1>3, <1>4, <1>5 DEF Audio, a, b

\* A frame that is taken from frames and queued stays part of the output.
LEMMA QueueKeepsOutput ==
  ASSUME PcmType, frames # <<>>, NEW f \in Frm, f.audio = Head(frames)
  PROVE  Audio(Append(sent \o held, f)) \o FlattenSeq(Tail(frames)) \o reframe
           = Output
<1> DEFINE A == Audio(sent \o held)
           h == Head(frames)
           B == FlattenSeq(Tail(frames))
<1>1. sent \o held \in Seq(Frm)
  BY ConcatProperties DEF PcmType
<1>2. A \in Seq(Int) /\ Audio(Append(sent \o held, f)) = A \o h
      /\ h \in Seq(Int)
  BY <1>1, AudioAppend
<1>3. frames \in Seq(Seq(Int)) /\ Tail(frames) \in Seq(Seq(Int))
  BY HeadTailProperties DEF PcmType
<1>4. FlattenSeq(frames) = h \o B /\ B \in Seq(Int)
  BY <1>3, FlattenHeadTail, FlattenType
<1> HIDE DEF A, h, B
<1>5. (A \o h) \o B = A \o (h \o B)
  BY ONLY <1>2, <1>4, IntsRegroup, Zenon
<1> QED BY <1>2, <1>4, <1>5 DEF Output, A, B

\* Before the first sample nothing is due.
LEMMA NoneDue == RateInv => DueCount(0) = 0
<1> SUFFICES ASSUME RateInv PROVE DueCount(0) = 0
  OBVIOUS
<1>1. CASE from = To BY <1>1 DEF DueCount
<1>2. CASE from # To
  <2>1. DueCount(0) \in Nat /\ (0 < DueCount(0) <=> Fits(0, 0))
    BY <1>2, DueAreThoseThatFit
  <2>2. ~Fits(0, 0)
    <3>1. 0 * from = 0 /\ To \in Nat \ {0}
      BY ReplyConstants DEF RateInv
    <3>2. (0 * from) \div To \in Nat
      BY <3>1
    <3> QED BY <3>2 DEF Fits
  <2> QED BY <2>1, <2>2
<1> QED BY <1>1, <1>2

\* A phrase begins with nothing.
LEMMA AudioSynthesize == AudioInv /\ Synthesize => AudioInv'
<1> SUFFICES ASSUME AudioInv, Synthesize PROVE AudioInv'
  OBVIOUS
<1>1. /\ tts' = "read" /\ ttsChunk' = Nothing /\ carry' = <<>> /\ bytes' = 0
      /\ delivered' = 0 /\ rs' = NewResampler /\ reframe' = <<>>
      /\ frames' = <<>> /\ held' = <<>> /\ sent' = <<>> /\ worker' = "listen"
      /\ from' \in FromRates
  BY DEF Synthesize
<1>2. RateInv'
  BY <1>1, ReplyConstants DEF RateInv
<1>3. PcmType'
  BY <1>1, <1>2 DEF PcmType
<1>4. FadeInv' /\ LeftInv' /\ LengthInv'
  BY <1>1 DEF FadeInv, LeftInv, LengthInv, AreFrames
<1>5. Ordinals(0, 0) = <<>> /\ Carried(0) = <<>> /\ 0 \div 2 = 0
  BY DEF Ordinals, Carried
<1>6. BytesInv'
  BY <1>1, <1>5 DEF BytesInv, Nothing, Chunk
<1>7. ResamplerAt(rs, delivered)'
  <2>1. (RateInv => ResamplerAt(NewResampler, 0))'
    BY ResamplerStarts, PTL
  <2> QED BY <1>1, <1>2, <2>1
<1>8. (DueCount(0) = 0)'
  <2>2. (RateInv => DueCount(0) = 0)'
    BY NoneDue, PTL
  <2> QED BY <1>2, <2>2
<1>9. Output' = <<>>
  <2>1. Output' = Audio(<<>> \o <<>>) \o FlattenSeq(<<>>) \o <<>>
    BY <1>1 DEF Output, Audio
  <2>2. <<>> \o <<>> = <<>>
    OBVIOUS
  <2>3. Audio(<<>>) = <<>>
    BY FlattenEmpty DEF Audio
  <2> QED BY <2>1, <2>2, <2>3, FlattenEmpty
<1>10. (Outs(0, 0) = <<>>)'
  BY DEF Outs
<1>11. StreamInv'
  BY <1>1, <1>7, <1>8, <1>9, <1>10 DEF StreamInv
<1> QED BY <1>3, <1>4, <1>6, <1>11 DEF AudioInv, QueueInv

\* The first frame of a phrase is held.
LEMMA AudioQueueFirst == AudioInv /\ QueueFirst => AudioInv'
<1> SUFFICES ASSUME AudioInv, QueueFirst PROVE AudioInv'
  OBVIOUS
<1> DEFINE f == [audio |-> Head(frames), fadeIn |-> TRUE, fadeOut |-> FALSE]
<1>1. /\ worker \in {"queue", "tail"} /\ frames # <<>> /\ held = <<>>
      /\ held' = <<f>> /\ frames' = Tail(frames)
      /\ UNCHANGED <<worker, from, tts, ttsChunk, carry, bytes, delivered, rs,
                     reframe, sent>>
  BY DEF QueueFirst, ttsVars
<1>2. PcmType /\ FadeInv /\ LeftInv /\ LengthInv /\ BytesInv /\ StreamInv
  BY DEF AudioInv, QueueInv
<1>3. /\ frames \in Seq(Seq(Int)) /\ Tail(frames) \in Seq(Seq(Int))
      /\ Head(frames) \in Seq(Int) /\ Head(frames) = frames[1]
      /\ Len(Tail(frames)) = Len(frames) - 1
      /\ Len(frames) \in Nat \ {0}
      /\ \A i \in 1 .. Len(frames) - 1 : Tail(frames)[i] = frames[i + 1]
  BY <1>1, <1>2, HeadTailProperties DEF PcmType
<1>4. f \in Frm /\ f.audio = Head(frames) /\ f.fadeIn /\ ~f.fadeOut
  BY <1>3 DEF Frm
<1> HIDE DEF f
<1>5. sent = <<>>
  BY <1>1, <1>2 DEF FadeInv
<1>6. PcmType'
  BY <1>1, <1>2, <1>3, <1>4 DEF PcmType, RateInv
<1>7. FadeInv'
  BY <1>1, <1>4, <1>5 DEF FadeInv
<1>8. LeftInv'
  BY <1>1, <1>2 DEF LeftInv
<1>9. LengthInv'
  BY <1>1, <1>2, <1>3, <1>4 DEF LengthInv, AreFrames
<1>10. BytesInv'
  BY <1>1, <1>2 DEF BytesInv
<1>11. Output' = Output
  <2>1. Audio(Append(sent \o held, f)) \o FlattenSeq(Tail(frames)) \o reframe
           = Output
    BY <1>1, <1>2, <1>4, QueueKeepsOutput
  <2>2. sent' \o held' = Append(sent \o held, f)
    BY <1>1, <1>5
  <2> QED BY <1>1, <2>1, <2>2 DEF Output, Audio
<1>12. StreamInv'
  BY <1>1, <1>2, <1>11, SameRate DEF StreamInv
<1> QED BY <1>6, <1>7, <1>8, <1>9, <1>10, <1>12 DEF AudioInv, QueueInv

\* A later frame releases the one before it.
LEMMA AudioQueueNext == AudioInv /\ QueueNext => AudioInv'
<1> SUFFICES ASSUME AudioInv, QueueNext PROVE AudioInv'
  OBVIOUS
<1> DEFINE f == [audio |-> Head(frames), fadeIn |-> FALSE, fadeOut |-> FALSE]
<1>1. /\ worker \in {"queue", "tail"} /\ frames # <<>> /\ held # <<>>
      /\ held' = <<f>> /\ frames' = Tail(frames) /\ sent' = sent \o held
      /\ UNCHANGED <<worker, from, tts, ttsChunk, carry, bytes, delivered, rs,
                     reframe>>
  BY DEF QueueNext, ttsVars
<1>2. PcmType /\ FadeInv /\ LeftInv /\ LengthInv /\ BytesInv /\ StreamInv
  BY DEF AudioInv, QueueInv
<1>3. /\ frames \in Seq(Seq(Int)) /\ Tail(frames) \in Seq(Seq(Int))
      /\ Head(frames) \in Seq(Int) /\ Head(frames) = frames[1]
      /\ Len(Tail(frames)) = Len(frames) - 1
      /\ Len(frames) \in Nat \ {0}
      /\ \A i \in 1 .. Len(frames) - 1 : Tail(frames)[i] = frames[i + 1]
  BY <1>1, <1>2, HeadTailProperties DEF PcmType
<1>4. f \in Frm /\ f.audio = Head(frames) /\ ~f.fadeIn /\ ~f.fadeOut
  BY <1>3 DEF Frm
<1> HIDE DEF f
<1>5. /\ sent \in Seq(Frm) /\ held \in Seq(Frm) /\ Len(held) = 1
      /\ sent \o held \in Seq(Frm) /\ Len(sent) \in Nat
      /\ Len(sent \o held) = Len(sent) + 1
      /\ \A i \in 1 .. Len(sent) : (sent \o held)[i] = sent[i]
      /\ (sent \o held)[Len(sent) + 1] = held[1]
      /\ sent \o held # <<>>
  <2>1. sent \in Seq(Frm) /\ held \in Seq(Frm) /\ Len(held) = 1
    BY <1>1, <1>2 DEF PcmType
  <2>2. Len(sent) \in Nat
    BY <2>1
  <2>3. /\ sent \o held \in Seq(Frm)
        /\ Len(sent \o held) = Len(sent) + Len(held)
        /\ \A i \in 1 .. Len(sent) + Len(held) :
             (sent \o held)[i] = IF i <= Len(sent) THEN sent[i]
                                 ELSE held[i - Len(sent)]
    BY <2>1, ConcatProperties
  <2>4. Len(sent) + 1 \in 1 .. Len(sent) + Len(held)
        /\ ~(Len(sent) + 1 <= Len(sent)) /\ (Len(sent) + 1) - Len(sent) = 1
    BY <2>1, <2>2
  <2>5. (sent \o held)[Len(sent) + 1] = held[1]
    BY <2>3, <2>4
  <2>6. \A i \in 1 .. Len(sent) : (sent \o held)[i] = sent[i]
    BY <2>1, <2>2, <2>3
  <2>7. Len(sent \o held) = Len(sent) + 1
    BY <2>1, <2>3
  <2>8. sent \o held # <<>>
    BY <2>2, <2>7
  <2> QED BY <2>1, <2>2, <2>3, <2>5, <2>6, <2>7, <2>8
<1> DEFINE out == sent \o held
<1> HIDE DEF out
<1>6. PcmType'
  BY <1>1, <1>2, <1>3, <1>4, <1>5 DEF PcmType, RateInv
<1>7. FadeInv'
  <2>1. \A i \in 1 .. Len(out) :
          (out[i].fadeIn <=> i = 1) /\ ~out[i].fadeOut
    <3> SUFFICES ASSUME NEW i \in 1 .. Len(out)
                 PROVE  (out[i].fadeIn <=> i = 1) /\ ~out[i].fadeOut
      OBVIOUS
    <3>1. CASE i \in 1 .. Len(sent)
      BY <1>1, <1>2, <1>5, <3>1 DEF out, FadeInv
    <3>2. CASE i = Len(sent) + 1
      <4>1. out[i] = held[1]
        BY <1>5, <3>2 DEF out
      <4>2. ~held[1].fadeOut /\ (held[1].fadeIn <=> sent = <<>>)
        BY <1>1, <1>2 DEF FadeInv
      <4>3. sent = <<>> <=> i = 1
        BY <1>5, <3>2
      <4> QED BY <4>1, <4>2, <4>3
    <3> QED BY <1>5, <3>1, <3>2 DEF out
  <2>2. sent' = out /\ out # <<>> /\ held' # <<>> /\ held'[1] = f
    BY <1>1, <1>5 DEF out
  <2> QED BY <1>1, <1>4, <2>1, <2>2 DEF FadeInv
<1>8. LeftInv'
  BY <1>1, <1>2 DEF LeftInv
<1>9. LengthInv'
  <2>1. AreFrames(frames, FrameLen)' /\ Len(f.audio) = FrameLen
    BY <1>1, <1>2, <1>3, <1>4 DEF LengthInv, AreFrames
  <2>2. \A i \in 1 .. Len(sent) : Len(sent[i].audio) = FrameLen
    BY <1>2 DEF LengthInv
  <2>3. Len(held[1].audio) = FrameLen
    BY <1>2, <1>5 DEF LengthInv
  <2>4. \A i \in 1 .. Len(out) : Len(out[i].audio) = FrameLen
    <3> SUFFICES ASSUME NEW i \in 1 .. Len(out)
                 PROVE  Len(out[i].audio) = FrameLen
      OBVIOUS
    <3>1. i \in 1 .. Len(sent) \/ i = Len(sent) + 1
      BY <1>5 DEF out
    <3> QED BY <1>5, <2>2, <2>3, <3>1 DEF out
  <2>5. sent' = out
    BY <1>1 DEF out
  <2> QED BY <1>1, <2>1, <2>4, <2>5 DEF LengthInv
<1>10. BytesInv'
  BY <1>1, <1>2 DEF BytesInv
<1>11. Output' = Output
  <2>1. Audio(Append(sent \o held, f)) \o FlattenSeq(Tail(frames)) \o reframe
           = Output
    BY <1>1, <1>2, <1>4, QueueKeepsOutput
  <2>2. sent' \o held' = Append(sent \o held, f)
    BY <1>1, <1>5
  <2> QED BY <1>1, <2>1, <2>2 DEF Output, Audio
<1>12. StreamInv'
  BY <1>1, <1>2, <1>11, SameRate DEF StreamInv
<1> QED BY <1>6, <1>7, <1>8, <1>9, <1>10, <1>12 DEF AudioInv, QueueInv

\* All frames of a chunk are queued.
LEMMA AudioQueued == AudioInv /\ Queued => AudioInv'
<1> SUFFICES ASSUME AudioInv, Queued PROVE AudioInv'
  OBVIOUS
<1>1. /\ worker \in {"queue", "tail"} /\ frames = <<>>
      /\ worker' = IF worker = "queue" THEN "listen" ELSE "release"
      /\ UNCHANGED <<from, tts, ttsChunk, carry, bytes, delivered, rs,
                     reframe, frames, held, sent>>
  BY DEF Queued, ttsVars, pcmVars
<1>2. PcmType /\ FadeInv /\ LeftInv /\ LengthInv /\ BytesInv /\ StreamInv
  BY DEF AudioInv, QueueInv
<1>3. PcmType'
  BY <1>1, <1>2 DEF PcmType, RateInv
<1>4. FadeInv'
  BY <1>1, <1>2 DEF FadeInv
<1>5. LeftInv'
  BY <1>1, <1>2 DEF LeftInv
<1>6. LengthInv'
  BY <1>1, <1>2 DEF LengthInv, AreFrames
<1>7. BytesInv'
  BY <1>1, <1>2 DEF BytesInv
<1>8. Output' = Output
  BY <1>1 DEF Output, Audio
<1>9. StreamInv'
  BY <1>1, <1>2, <1>8, SameRate DEF StreamInv
<1> QED BY <1>3, <1>4, <1>5, <1>6, <1>7, <1>9 DEF AudioInv, QueueInv

\* The last frame fades out.
LEMMA AudioFlushFrame == AudioInv /\ FlushFrame => AudioInv'
<1> SUFFICES ASSUME AudioInv, FlushFrame PROVE AudioInv'
  OBVIOUS
<1> DEFINE e == [held[1] EXCEPT !.fadeOut = TRUE]
           faded == [i \in DOMAIN held |-> [held[i] EXCEPT !.fadeOut = TRUE]]
<1>1. /\ worker = "release" /\ worker' = "receive" /\ held' = <<>>
      /\ sent' = sent \o faded
      /\ UNCHANGED <<from, tts, ttsChunk, carry, bytes, delivered, rs,
                     reframe, frames>>
  BY DEF FlushFrame, ttsVars
<1>2. PcmType /\ FadeInv /\ LeftInv /\ LengthInv /\ BytesInv
  BY DEF AudioInv, QueueInv
<1>3. sent \in Seq(Frm) /\ held \in Seq(Frm) /\ Len(sent) \in Nat
  BY <1>2 DEF PcmType
<1>4. CASE held = <<>>
  <2>1. faded = <<>> /\ sent = <<>>
    BY <1>1, <1>2, <1>4 DEF FadeInv
  <2>2. sent' = <<>>
    BY <1>1, <2>1
  <2> HIDE DEF faded
  <2>3. PcmType' /\ LeftInv'
    BY <1>1, <1>2, <2>2 DEF PcmType, RateInv, LeftInv
  <2>4. FadeInv' /\ LengthInv'
    BY <1>1, <1>2, <2>2 DEF FadeInv, LengthInv, AreFrames
  <2>5. BytesInv' /\ StreamInv'
    BY <1>1, <1>2 DEF BytesInv, StreamInv
  <2> QED BY <2>3, <2>4, <2>5 DEF AudioInv, QueueInv
<1>5. CASE held # <<>>
  <2>1. Len(held) = 1 /\ held[1] \in Frm /\ DOMAIN held = 1 .. 1
    BY <1>2, <1>3, <1>5 DEF PcmType
  <2>2. /\ e \in Frm /\ e.audio = held[1].audio /\ e.fadeOut
        /\ (e.fadeIn <=> held[1].fadeIn)
    BY <2>1 DEF Frm
  <2>3. faded = <<e>>
    <3>1. faded = [i \in 1 .. 1 |-> [held[i] EXCEPT !.fadeOut = TRUE]]
      BY <2>1
    <3>2. \A i \in 1 .. 1 : [held[i] EXCEPT !.fadeOut = TRUE] = e
      OBVIOUS
    <3>3. faded = [i \in 1 .. 1 |-> e]
      BY <3>1, <3>2
    <3> HIDE DEF e, faded
    <3> QED BY <3>3
  <2> HIDE DEF e, faded
  <2>4. sent' = Append(sent, e)
    BY <1>1, <1>3, <2>2, <2>3
  <2>5. /\ sent' \in Seq(Frm) /\ Len(sent') = Len(sent) + 1
        /\ sent'[Len(sent) + 1] = e
        /\ \A i \in 1 .. Len(sent) : sent'[i] = sent[i]
    BY <1>3, <2>2, <2>4, AppendProperties
  <2>6. PcmType'
    BY <1>1, <1>2, <2>5 DEF PcmType, RateInv
  <2>7. FadeInv'
    <3>1. ASSUME NEW i \in 1 .. Len(sent')
          PROVE  (sent'[i].fadeIn <=> i = 1)
                 /\ (sent'[i].fadeOut => i = Len(sent'))
      <4>1. CASE i \in 1 .. Len(sent)
        BY <1>2, <1>5, <2>5, <4>1 DEF FadeInv
      <4>2. CASE i = Len(sent) + 1
        <5>1. sent = <<>> <=> i = 1
          BY <1>3, <4>2
        <5> QED BY <1>2, <1>5, <2>2, <2>5, <4>2, <5>1 DEF FadeInv
      <4> QED BY <1>3, <2>5, <4>1, <4>2
    <3>2. sent'[Len(sent')].fadeOut
      BY <2>2, <2>5
    <3> QED BY <1>1, <3>1, <3>2 DEF FadeInv
  <2>8. LeftInv'
    BY <1>1, <1>2 DEF LeftInv
  <2>9. LengthInv'
    <3>1. ASSUME NEW i \in 1 .. Len(sent')
          PROVE  Len(sent'[i].audio) = FrameLen
      <4>1. CASE i \in 1 .. Len(sent)
        BY <1>2, <2>5, <4>1 DEF LengthInv
      <4>2. CASE i = Len(sent) + 1
        BY <1>2, <2>1, <2>2, <2>5, <4>2 DEF LengthInv
      <4> QED BY <1>3, <2>5, <4>1, <4>2
    <3> QED BY <1>1, <1>2, <3>1 DEF LengthInv, AreFrames
  <2>10. BytesInv' /\ StreamInv'
    BY <1>1, <1>2 DEF BytesInv, StreamInv
  <2> QED BY <2>6, <2>7, <2>8, <2>9, <2>10 DEF AudioInv, QueueInv
<1> QED BY <1>4, <1>5

\* Samples that come are put into frames.
LEMMA AudioListenSamples == AudioInv /\ ListenSamples => AudioInv'
<1> SUFFICES ASSUME AudioInv, ListenSamples PROVE AudioInv'
  OBVIOUS
<1> DEFINE p == Process(rs, ttsChunk.data, from, To)
           r == Reframe(reframe \o p.out, FrameLen)
           A == Audio(sent \o held)
           d == bytes \div 2 - delivered
           k == DueCount(delivered)
           q == DueCount(delivered + d)
<1>1. /\ worker = "listen" /\ worker' = "queue" /\ tts = "select"
      /\ tts' = "read" /\ ttsChunk' = Nothing
      /\ rs' = p.rs /\ reframe' = r.rest /\ frames' = r.frames
      /\ delivered' = delivered + Len(ttsChunk.data)
      /\ UNCHANGED <<from, carry, bytes, held, sent>>
  BY DEF ListenSamples
<1>2. PcmType /\ FadeInv /\ LeftInv /\ LengthInv /\ BytesInv /\ StreamInv
  BY DEF AudioInv, QueueInv
<1>3. /\ bytes \in Nat /\ delivered \in Nat /\ d \in Nat
      /\ ttsChunk.data = Ordinals(delivered, d) /\ carry = Carried(bytes)
      /\ delivered + d = bytes \div 2 /\ bytes \div 2 \in Nat
  BY <1>1, <1>2 DEF BytesInv
<1>4. delivered' = delivered + d
  BY <1>1, <1>3, OrdinalsLength
<1>5. RateInv /\ ResamplerAt(rs, delivered) /\ Output = Outs(0, k)
  BY <1>1, <1>2 DEF PcmType, StreamInv
<1> HIDE DEF d
<1>6. /\ k \in Nat /\ q - k \in Nat /\ ResamplerAt(p.rs, delivered + d)
      /\ p.out = Outs(k, q - k)
  BY <1>3, <1>5, Resampled
<1> HIDE DEF p, k, q
<1>7. /\ p.out \in Seq(Nat) /\ Outs(0, k) \o p.out = Outs(0, q)
  <2>1. Outs(k, q - k) \in Seq(Nat)
    BY ONLY <1>5, <1>6, 0 \in Nat, OutsJoin
  <2>2. Outs(0, k) \o Outs(0 + k, q - k) = Outs(0, k + (q - k))
    BY ONLY <1>5, <1>6, 0 \in Nat, OutsJoin
  <2>3. 0 + k = k /\ k + (q - k) = q
    <3>1. q \in Int
      <4>1. q \in Nat
        <5>1. delivered + d \in Nat
          BY <1>3
        <5>2. CASE from = To BY <5>1, <5>2 DEF q, DueCount
        <5>3. CASE from # To
          BY <1>5, <5>1, <5>3, DueAreThoseThatFit DEF q
        <5> QED BY <5>2, <5>3
      <4> QED BY <4>1
    <3> QED BY <1>6, <3>1
  <2> QED BY <1>6, <2>1, <2>2, <2>3
<1>8. reframe \in Seq(Int) /\ p.out \in Seq(Int)
      /\ reframe \o p.out \in Seq(Int)
  <2>1. reframe \in Seq(Int)
    BY <1>2 DEF PcmType
  <2>2. p.out \in Seq(Int)
    BY <1>7
  <2> QED BY <2>1, <2>2, ConcatProperties
<1>9. /\ r.frames \in Seq(Seq(Int)) /\ AreFrames(r.frames, FrameLen)
      /\ r.rest \in Seq(Int)
      /\ FlattenSeq(r.frames) \o r.rest = reframe \o p.out
  BY <1>8, Framed, ReplyConstants
<1> HIDE DEF r
<1>10. PcmType'
  BY <1>1, <1>2, <1>9 DEF PcmType, RateInv
<1>11. FadeInv'
  BY <1>1, <1>2 DEF FadeInv
<1>12. LeftInv'
  BY <1>1, <1>2 DEF LeftInv
<1>13. LengthInv'
  BY <1>1, <1>2, <1>9 DEF LengthInv, AreFrames
<1>14. BytesInv'
  <2>1. Ordinals(delivered', bytes \div 2 - delivered') = <<>>
    <3>1. bytes \div 2 - delivered' = 0
      BY <1>3, <1>4
    <3>2. Ordinals(delivered', 0) = <<>>
      BY DEF Ordinals
    <3> QED BY <3>1, <3>2
  <2>2. delivered' \in Nat /\ delivered' <= bytes \div 2
    BY <1>3, <1>4
  <2> QED BY <1>1, <1>3, <2>1, <2>2 DEF BytesInv, Nothing, Chunk
<1>15. Output' = Outs(0, q)
  <2> DEFINE B == FlattenSeq(r.frames)
             o == p.out
  <2>1. Output' = A \o B \o r.rest
    BY <1>1 DEF Output, Audio
  <2>2. Output = A \o FlattenSeq(<<>>) \o reframe
    BY <1>1, <1>2 DEF LeftInv, Output
  <2>3. A \in Seq(Int) /\ B \in Seq(Int)
    <3>1. sent \o held \in Seq(Frm)
      BY <1>2, ConcatProperties DEF PcmType
    <3>2. \A fs \in Seq(Frm) : Audio(fs) \in Seq(Int)
      <4>1. [audio |-> <<>>, fadeIn |-> TRUE, fadeOut |-> TRUE] \in Frm
        BY DEF Frm
      <4> QED BY <4>1, AudioAppend
    <3> QED BY <1>9, <3>1, <3>2, FlattenType
  <2>4. A \o FlattenSeq(<<>>) = A
    BY <2>3, FlattenEmpty
  <2>5. o \in Seq(Int) /\ B \o r.rest = reframe \o o
    BY <1>8, <1>9
  <2>6. Output \o o = Outs(0, q)
    BY <1>5, <1>7
  <2> DEFINE z == r.rest
  <2> HIDE DEF A, B, o
  <2>7. z \in Seq(Int)
    BY <1>9
  <2> HIDE DEF z
  <2>8. (A \o B) \o z = A \o (B \o z)
    BY ONLY <2>3, <2>7, IntsRegroup, Zenon
  <2>9. o \in Seq(Int) /\ reframe \in Seq(Int)
    BY <1>8, <2>5
  <2>10. (A \o reframe) \o o = A \o (reframe \o o)
    BY ONLY <2>3, <2>9, IntsRegroup, Zenon
  <2> QED BY ONLY <2>1, <2>2, <2>4, <2>5, <2>6, <2>8, <2>10 DEF z
<1>16. StreamInv'
  BY <1>1, <1>4, <1>6, <1>15, SameRate DEF StreamInv, q
<1> QED
  BY <1>10, <1>11, <1>12, <1>13, <1>14, <1>16 DEF AudioInv, QueueInv

\* Flush yields what ends the stream.
LEMMA FlushIsEnding ==
  ASSUME RateInv, NEW n \in Nat, NEW s, ResamplerAt(s, n)
  PROVE  /\ FlushResampler(s, from, To) = Ending(n)
         /\ FlushResampler(s, from, To) \in Seq(Int)
<1>1. CASE from = To
  BY <1>1 DEF FlushResampler, Ending
<1>2. CASE from # To
  <2> DEFINE c == (DueCount(n) * from) \div To
  <2>1. c \in 0 .. n
    BY <1>2, CursorInside
  <2>2. s.buf = Ordinals(c, n - c)
    BY <1>2 DEF ResamplerAt
  <2>3. Ending(n) = IF c >= n THEN <<>> ELSE <<(n - 1) * To>>
    BY <1>2 DEF Ending
  <2> HIDE DEF c
  <2>4. s.buf \in Seq(Nat) /\ Len(s.buf) = n - c
    <3>1. c \in Nat /\ n - c \in Nat
      BY <2>1
    <3> QED BY ONLY <2>2, <3>1, OrdinalsLength
  <2>5. CASE c = n
    BY <1>2, <2>3, <2>4, <2>5 DEF FlushResampler
  <2>6. CASE c # n
    <3>1. s.buf # <<>> /\ n - c \in 1 .. n - c
      BY <2>1, <2>4, <2>6
    <3>2. s.buf[n - c] = n
      BY <2>1, <2>2, <3>1 DEF Ordinals
    <3>3. FlushResampler(s, from, To) = <<(n - 1) * To>>
      BY <1>2, <2>4, <3>1, <3>2 DEF FlushResampler
    <3>4. (n - 1) * To \in Int
      BY ReplyConstants
    <3> QED BY <2>1, <2>3, <2>6, <3>3, <3>4
  <2> QED BY <2>5, <2>6
<1> QED BY <1>1, <1>2

\* The stream of a phrase ends: what is left, and silence that fills a frame.
LEMMA AudioListenEnd == AudioInv /\ ListenEnd => AudioInv'
<1> SUFFICES ASSUME AudioInv, ListenEnd PROVE AudioInv'
  OBVIOUS
<1> DEFINE ending == FlushResampler(rs, from, To)
           r == Reframe(reframe \o ending, FrameLen)
           pd == Padded(r.rest, FrameLen, Silence)
           A == Audio(sent \o held)
           B == FlattenSeq(r.frames)
           z == r.rest
           O == Outs(0, DueCount(delivered))
<1>1. /\ worker = "listen" /\ worker' = "tail" /\ tts' = "ended"
      /\ reframe' = <<>> /\ frames' = r.frames \o pd
      /\ UNCHANGED <<from, bytes, delivered, held, sent>>
  BY DEF ListenEnd
<1>2. PcmType /\ FadeInv /\ LeftInv /\ LengthInv /\ BytesInv /\ StreamInv
  BY DEF AudioInv, QueueInv
<1>3. RateInv /\ ResamplerAt(rs, delivered) /\ Output = O /\ delivered \in Nat
  BY <1>1, <1>2 DEF PcmType, StreamInv, BytesInv
<1>4. ending = Ending(delivered) /\ ending \in Seq(Int)
  BY <1>3, FlushIsEnding
<1>5. reframe \in Seq(Int)
  BY <1>2 DEF PcmType
<1> HIDE DEF ending
<1>6. reframe \o ending \in Seq(Int)
  BY <1>4, <1>5, ConcatProperties
<1>7. /\ r.frames \in Seq(Seq(Int)) /\ AreFrames(r.frames, FrameLen)
      /\ z \in Seq(Int) /\ Len(z) < FrameLen
      /\ B \o z = reframe \o ending
  BY <1>6, Framed, ReplyConstants
<1>8. PICK p \in Seq({Silence}) :
        FlattenSeq(pd) = z \o p /\ Len(p) < FrameLen
  <2>1. Silence \in Int /\ FrameLen \in Nat
    BY ReplyConstants DEF Silence
  <2> QED BY <1>7, <2>1, PaddedIs
<1>9. pd \in Seq(Seq(Int)) /\ AreFrames(pd, FrameLen)
  <2>1. Silence \in Int /\ FrameLen \in Nat
    BY ReplyConstants DEF Silence
  <2> QED BY <1>7, <2>1, PaddedIs
<1> HIDE DEF pd, r
<1>10. /\ frames' \in Seq(Seq(Int)) /\ AreFrames(frames', FrameLen)
       /\ FlattenSeq(frames') = B \o FlattenSeq(pd)
  <2> DEFINE fs == r.frames
  <2>1. fs \in Seq(Seq(Int)) /\ AreFrames(fs, FrameLen) /\ frames' = fs \o pd
    BY <1>1, <1>7
  <2> HIDE DEF fs
  <2>2. /\ fs \o pd \in Seq(Seq(Int)) /\ Len(fs \o pd) = Len(fs) + Len(pd)
        /\ \A i \in 1 .. Len(fs) + Len(pd) :
             (fs \o pd)[i] = IF i <= Len(fs) THEN fs[i] ELSE pd[i - Len(fs)]
    BY <1>9, <2>1, ConcatProperties
  <2>3. AreFrames(fs \o pd, FrameLen)
    <3> SUFFICES ASSUME NEW i \in 1 .. Len(fs) + Len(pd)
                 PROVE  Len((fs \o pd)[i]) = FrameLen
      BY <2>2 DEF AreFrames
    <3>1. Len(fs) \in Nat /\ Len(pd) \in Nat
      BY <1>9, <2>1
    <3>2. CASE i <= Len(fs)
      BY <2>1, <2>2, <3>1, <3>2 DEF AreFrames
    <3>3. CASE ~(i <= Len(fs))
      <4>1. i - Len(fs) \in 1 .. Len(pd)
        BY <3>1, <3>3
      <4> QED BY <1>9, <2>2, <3>3, <4>1 DEF AreFrames
    <3> QED BY <3>2, <3>3
  <2>4. FlattenSeq(fs \o pd) = FlattenSeq(fs) \o FlattenSeq(pd)
    BY <1>9, <2>1, FlattenConcat
  <2> QED BY <2>1, <2>2, <2>3, <2>4 DEF fs
<1>11. PcmType'
  <2>1. <<>> \in Seq(Int)
    OBVIOUS
  <2> QED BY <1>1, <1>2, <1>10, <2>1 DEF PcmType, RateInv
<1>12. FadeInv' /\ LeftInv'
  BY <1>1, <1>2 DEF FadeInv, LeftInv
<1>13. LengthInv'
  BY <1>1, <1>2, <1>10 DEF LengthInv
<1>14. BytesInv'
  BY <1>1, <1>2 DEF BytesInv
<1>15. Output' = (O \o ending) \o p
  <2>1. A \in Seq(Int)
    <3>1. sent \o held \in Seq(Frm)
      BY <1>2, ConcatProperties DEF PcmType
    <3>2. \A fs \in Seq(Frm) : Audio(fs) \in Seq(Int)
      <4>1. [audio |-> <<>>, fadeIn |-> TRUE, fadeOut |-> TRUE] \in Frm
        BY DEF Frm
      <4> QED BY <4>1, AudioAppend
    <3> QED BY <3>1, <3>2
  <2>2. B \in Seq(Int) /\ p \in Seq(Int)
    <3>1. {Silence} \subseteq Int
      BY DEF Silence
    <3>2. p \in Seq(Int)
      BY <3>1, SeqMonotonic
    <3> QED BY <1>7, <3>2, FlattenType
  <2>3. Output' = A \o (B \o (z \o p)) \o <<>>
    BY <1>1, <1>8, <1>10 DEF Output, Audio
  <2>4. O = A \o FlattenSeq(<<>>) \o reframe
    BY <1>1, <1>2, <1>3 DEF LeftInv, Output
  <2>5. A \o FlattenSeq(<<>>) = A
    BY <2>1, FlattenEmpty
  <2>6. z \in Seq(Int) /\ B \o z = reframe \o ending
    BY <1>7
  <2> HIDE DEF A, B, z, O
  <2>7. (B \o z) \o p = B \o (z \o p)
    <3>1. z \in Seq(Int)
      BY <2>6
    <3> QED BY ONLY <2>2, <3>1, IntsRegroup, Zenon
  <2> DEFINE w == reframe \o ending
  <2>8. /\ A \o (w \o p) \in Seq(Int)
        /\ A \o (w \o p) = (A \o w) \o p
    <3>1. w \in Seq(Int)
      BY <1>6
    <3> HIDE DEF w
    <3>2. w \o p \in Seq(Int)
      BY ONLY <2>2, <3>1, ConcatProperties
    <3>3. A \o (w \o p) \in Seq(Int)
      BY ONLY <2>1, <3>2, ConcatProperties
    <3>4. A \o (w \o p) = (A \o w) \o p
      <4>1. \A a, b, c \in Seq(Int) : (a \o b) \o c = a \o (b \o c)
        BY IntsRegroup
      <4>2. p \in Seq(Int)
        BY <2>2
      <4> QED BY ONLY <2>1, <3>1, <4>1, <4>2, Zenon
    <3> QED BY <3>3, <3>4
  <2>9. A \o (reframe \o ending) = (A \o reframe) \o ending
    BY ONLY <1>4, <1>5, <2>1, IntsRegroup, Zenon
  <2>10. A \o (w \o p) \o <<>> = A \o (w \o p)
    BY <2>8
  <2> QED BY ONLY <2>3, <2>4, <2>5, <2>6, <2>7, <2>8, <2>9, <2>10
<1>16. StreamInv'
  <2>1. Audible(delivered) = O \o ending
    BY <1>4 DEF Audible
  <2>2. Audible(delivered)' = Audible(delivered)
    BY <1>1, SameRate
  <2>3. Output' = Audible(delivered)' \o p
    BY <1>15, <2>1, <2>2
  <2> QED BY <1>1, <1>8, <2>3 DEF StreamInv
<1> QED
  BY <1>11, <1>12, <1>13, <1>14, <1>16 DEF AudioInv, QueueInv

\* The goroutine of Synthesize keeps the account of the bytes.
LEMMA BytesTts == BytesInv /\ Tts => BytesInv'
<1> SUFFICES ASSUME BytesInv, Tts PROVE BytesInv'
  OBVIOUS
<1>1. delivered' = delivered /\ bytes \in Nat /\ delivered \in Nat
  <2>1. Quiet
    BY OthersAreQuiet, Zenon
  <2> QED BY <2>1 DEF Quiet, pcmVars, BytesInv
<1>2. CASE TtsCancelled
  BY <1>1, <1>2 DEF TtsCancelled, BytesInv
<1>3. ASSUME NEW kind \in {"done", "err"}, TtsEnds(kind) PROVE BytesInv'
  <2>1. /\ tts = "read" /\ tts' = "select" /\ ttsChunk' = Chunk(kind, <<>>)
        /\ carry' = carry /\ bytes' = bytes
    BY <1>3 DEF TtsEnds, TtsOffers
  <2>2. <<>> = Ordinals(delivered, bytes \div 2 - delivered)
    BY <2>1 DEF BytesInv, Nothing, Chunk
  <2> QED BY <1>1, <2>1, <2>2 DEF BytesInv, Chunk
<1>4. ASSUME NEW n \in ByteCounts, TtsAudio(n) PROVE BytesInv'
  <2> DEFINE a == Align(carry, [i \in 1 .. n |-> bytes + i])
             k == (bytes + n) \div 2 - bytes \div 2
  <2>1. /\ tts = "read" /\ bytes' = bytes + n /\ carry' = a.carry
        /\ IF Len(a.raw) < 2 THEN UNCHANGED <<tts, ttsChunk>>
           ELSE tts' = "select" /\ ttsChunk' = Chunk("samples", Samples(a.raw))
    BY <1>4 DEF TtsAudio, TtsOffers
  <2>2. n \in Nat /\ bytes + n \in Nat
    BY <1>1, ReplyConstants
  <2>3. /\ carry = Carried(bytes) /\ ttsChunk = Nothing
        /\ delivered <= bytes \div 2 /\ bytes \div 2 \in Nat
        /\ <<>> = Ordinals(delivered, bytes \div 2 - delivered)
    BY <1>1, <2>1 DEF BytesInv, Nothing, Chunk
  <2>4. a = Align(Carried(bytes), Ordinals(bytes, n))
    BY <2>3 DEF Ordinals
  <2>5. /\ k \in Nat /\ Len(a.raw) = 2 * k
        /\ Samples(a.raw) = Ordinals(bytes \div 2, k)
        /\ a.carry = Carried(bytes + n)
    BY <1>1, <2>2, <2>4, Aligned
  <2>6. bytes \div 2 = delivered
    <3> DEFINE d == bytes \div 2 - delivered
    <3>1. d \in Nat /\ Len(Ordinals(delivered, d)) = 0
      BY <1>1, <2>3
    <3> HIDE DEF d
    <3>2. d = 0
      BY <1>1, <3>1, OrdinalsLength
    <3> QED BY <1>1, <2>3, <3>2 DEF d
  <2> DEFINE g == (bytes + n) \div 2
  <2>7. g \in Nat /\ k = g - delivered /\ delivered <= g
    <3>1. g \in Nat
      BY <2>2
    <3> QED BY <1>1, <2>5, <2>6, <3>1
  <2> HIDE DEF a, k, g
  <2>8. CASE Len(a.raw) < 2
    <3>1. k = 0
      BY <2>5, <2>8
    <3>2. ttsChunk'.data = Ordinals(delivered, 0)
      BY <2>1, <2>3, <2>8 DEF Ordinals, Nothing, Chunk
    <3> QED BY <1>1, <2>1, <2>2, <2>3, <2>5, <2>7, <2>8, <3>1, <3>2
            DEF BytesInv, g
  <2>9. CASE ~(Len(a.raw) < 2)
    <3>1. tts' = "select" /\ ttsChunk'.data = Ordinals(delivered, k)
      BY <2>1, <2>5, <2>6, <2>9 DEF Chunk
    <3> QED BY <1>1, <2>1, <2>2, <2>5, <2>7, <3>1 DEF BytesInv, g
  <2> QED BY <2>8, <2>9
<1> QED BY <1>2, <1>3, <1>4 DEF Tts

\* Other quiet steps do not touch the bytes.
LEMMA BytesQuiet ==
  ASSUME BytesInv,
         \/ Start \/ StartFails \/ ReceiveDelta \/ ReceiveEnd
         \/ ReceiveErrorCancelled \/ WaitForPlayout \/ SynthesizeFails
         \/ ListenErrorCancelled \/ SendFails
         \/ Llm \/ Cancel \/ UNCHANGED vars
  PROVE  BytesInv'
<1>1. Quiet
  BY OthersAreQuiet, Zenon
<1>2. delivered' = delivered
  BY <1>1 DEF Quiet, pcmVars
<1> USE DEF Return, ttsVars, BytesInv
<1>3. CASE Start BY <1>2, <1>3 DEF Start
<1>4. CASE StartFails BY <1>2, <1>4 DEF StartFails
<1>5. CASE ReceiveDelta BY <1>2, <1>5 DEF ReceiveDelta
<1>6. CASE ReceiveEnd BY <1>2, <1>6 DEF ReceiveEnd, LeaveLoop
<1>7. CASE ReceiveErrorCancelled BY <1>2, <1>7 DEF ReceiveErrorCancelled
<1>8. CASE WaitForPlayout BY <1>2, <1>8 DEF WaitForPlayout
<1>9. CASE SynthesizeFails BY <1>2, <1>9 DEF SynthesizeFails
<1>10. CASE ListenErrorCancelled BY <1>2, <1>10 DEF ListenErrorCancelled
<1>11. CASE SendFails BY <1>2, <1>11 DEF SendFails
<1>12. CASE Llm
  BY <1>2, <1>12 DEF Llm, LlmDelta, LlmDone, LlmGarbled, LlmReadError,
     LlmOffers, LlmCancelled
<1>13. CASE Cancel BY <1>2, <1>13 DEF Cancel
<1>14. CASE UNCHANGED vars BY <1>2, <1>14 DEF vars
<1> QED
  BY <1>3, <1>4, <1>5, <1>6, <1>7, <1>8, <1>9, <1>10, <1>11, <1>12, <1>13,
     <1>14

\* So all of it always holds.
THEOREM AudioInductive == Spec => []AudioInv
<1>1. Init => AudioInv
  <2> SUFFICES ASSUME Init PROVE AudioInv
    OBVIOUS
  <2>1. RateInv
    BY ReplyConstants DEF Init, RateInv
  <2>2. PcmType
    BY <2>1 DEF Init, PcmType
  <2>3. FadeInv /\ LeftInv /\ LengthInv
    BY DEF Init, FadeInv, LeftInv, LengthInv, AreFrames
  <2>4. BytesInv /\ StreamInv
    BY DEF Init, BytesInv, StreamInv
  <2> QED BY <2>2, <2>3, <2>4 DEF AudioInv, QueueInv
<1>2. AudioInv /\ [Next]_vars => AudioInv'
  <2> SUFFICES ASSUME AudioInv, [Next]_vars PROVE AudioInv'
    OBVIOUS
  <2>1. QueueInv /\ BytesInv /\ StreamInv
    BY DEF AudioInv
  <2>2. ASSUME \/ Start \/ StartFails \/ ReceiveDelta \/ ReceiveEnd
               \/ ReceiveErrorCancelled \/ WaitForPlayout \/ SynthesizeFails
               \/ ListenErrorCancelled \/ SendFails
               \/ Llm \/ Cancel \/ UNCHANGED vars
        PROVE  AudioInv'
    <3>1. Quiet
      BY <2>2, OthersAreQuiet, Zenon
    <3>2. BytesInv'
      BY <2>1, <2>2, BytesQuiet, Zenon
    <3> QED BY <2>1, <3>1, <3>2, QueueQuiet, StreamQuiet DEF AudioInv
  <2>3. CASE Tts
    <3>1. Quiet
      BY <2>3, OthersAreQuiet, Zenon
    <3> QED BY <2>1, <2>3, <3>1, BytesTts, QueueQuiet, StreamQuiet DEF AudioInv
  <2>4. CASE Synthesize BY <2>4, AudioSynthesize
  <2>5. CASE ListenSamples BY <2>5, AudioListenSamples
  <2>6. CASE ListenEnd BY <2>6, AudioListenEnd
  <2>7. CASE QueueFirst BY <2>7, AudioQueueFirst
  <2>8. CASE QueueNext BY <2>8, AudioQueueNext
  <2>9. CASE Queued BY <2>9, AudioQueued
  <2>10. CASE FlushFrame BY <2>10, AudioFlushFrame
  <2> QED
    BY <2>2, <2>3, <2>4, <2>5, <2>6, <2>7, <2>8, <2>9, <2>10 DEF Next, Worker
<1> QED BY <1>1, <1>2, PTL DEF Spec

\* In what was sent of a phrase only the first frame fades in and only the last
\* one out, and a phrase spoken to its end has left nothing behind.
THEOREM PhraseFades == Spec => []FadesAtTheEdges
<1>1. AudioInv => FadesAtTheEdges
  <2> SUFFICES ASSUME AudioInv PROVE FadesAtTheEdges
    OBVIOUS
  <2>1. PcmType /\ FadeInv /\ LeftInv
    BY DEF AudioInv, QueueInv
  <2>2. sent \in Seq(Frm) /\ held \in Seq(Frm) /\ Len(sent) \in Nat
    BY <2>1 DEF PcmType
  <2> DEFINE all == sent \o held
  <2>3. ASSUME NEW i \in DOMAIN all
        PROVE  /\ all[i].fadeIn <=> i = 1
               /\ all[i].fadeOut => i = Len(sent) /\ held = <<>>
    <3>1. /\ Len(all) = Len(sent) + Len(held) /\ DOMAIN all = 1 .. Len(all)
          /\ \A j \in 1 .. Len(sent) + Len(held) :
               all[j] = IF j <= Len(sent) THEN sent[j]
                        ELSE held[j - Len(sent)]
      BY <2>2, ConcatProperties
    <3> HIDE DEF all
    <3>2. CASE i <= Len(sent)
      <4>1. i \in 1 .. Len(sent) /\ all[i] = sent[i]
        BY <2>2, <3>1, <3>2
      <4> QED BY <2>1, <4>1 DEF FadeInv
    <3>3. CASE ~(i <= Len(sent))
      <4>1. held # <<>> /\ Len(held) = 1
        BY <2>1, <2>2, <3>1, <3>3 DEF PcmType
      <4>2. i = Len(sent) + 1 /\ all[i] = held[1]
        BY <2>2, <3>1, <3>3, <4>1
      <4>3. sent = <<>> <=> i = 1
        BY <2>2, <4>2
      <4> QED BY <2>1, <4>1, <4>2, <4>3 DEF FadeInv
    <3> QED BY <3>2, <3>3
  <2>4. worker = "receive" /\ sent # <<>> => Last(sent).fadeOut
    BY <2>1 DEF FadeInv, Last
  <2>5. worker = "receive" => Output = Audio(sent)
    <3> SUFFICES ASSUME worker = "receive" PROVE Output = Audio(sent)
      OBVIOUS
    <3>1. held = <<>> /\ frames = <<>> /\ reframe = <<>>
      BY <2>1 DEF LeftInv
    <3>2. Audio(sent) \in Seq(Int)
      <4>1. [audio |-> <<>>, fadeIn |-> TRUE, fadeOut |-> TRUE] \in Frm
        BY DEF Frm
      <4> QED BY <2>2, <4>1, AudioAppend
    <3>3. sent \o held = sent
      BY <2>2, <3>1
    <3>4. Output = Audio(sent) \o <<>> \o <<>>
      BY <3>1, <3>3, FlattenEmpty DEF Output
    <3> QED BY <3>2, <3>4
  <2> QED BY <2>3, <2>4, <2>5 DEF FadesAtTheEdges
<1> QED BY <1>1, AudioInductive, PTL

\* What is on its way, when all of it is frames, is a whole number of them.
LEMMA OutputInFrames ==
  ASSUME PcmType, LengthInv, reframe = <<>>
  PROVE  Output \in Seq(Int) /\ Len(Output) % FrameLen = 0
<1> DEFINE all == sent \o held
           a == [i \in DOMAIN all |-> all[i].audio]
           n == FrameLen
<1>1. /\ sent \in Seq(Frm) /\ held \in Seq(Frm)
      /\ frames \in Seq(Seq(Int)) /\ AreFrames(frames, n) /\ n \in Nat \ {0}
  BY ReplyConstants DEF PcmType, LengthInv
<1>2. /\ all \in Seq(Frm) /\ Len(all) = Len(sent) + Len(held)
      /\ DOMAIN all = 1 .. Len(all) /\ Len(all) \in Nat
      /\ \A i \in 1 .. Len(sent) + Len(held) :
           all[i] = IF i <= Len(sent) THEN sent[i] ELSE held[i - Len(sent)]
  BY <1>1, ConcatProperties
<1> HIDE DEF all
<1>3. a \in Seq(Seq(Int)) /\ Len(a) = Len(all)
  <2>1. \A i \in 1 .. Len(all) : all[i] \in Frm
    BY <1>2, ElementOfSeq
  <2>2. a \in [1 .. Len(all) -> Seq(Int)]
    BY <1>2, <2>1 DEF Frm
  <2> HIDE DEF a
  <2> QED BY <1>2, <2>2
<1>4. AreFrames(a, n)
  <2> SUFFICES ASSUME NEW i \in 1 .. Len(all) PROVE Len(all[i].audio) = n
    BY <1>2, <1>3 DEF AreFrames
  <2>1. Len(sent) \in Nat /\ Len(held) \in Nat
    BY <1>1
  <2>2. CASE i <= Len(sent)
    BY <1>2, <2>1, <2>2 DEF LengthInv
  <2>3. CASE ~(i <= Len(sent))
    <3>1. i - Len(sent) \in 1 .. Len(held)
      BY <1>2, <2>1, <2>3
    <3> QED BY <1>2, <2>3, <3>1 DEF LengthInv
  <2> QED BY <2>2, <2>3
<1> DEFINE A == FlattenSeq(a)
           B == FlattenSeq(frames)
<1>5. Output = A \o B \o <<>>
  BY DEF Output, Audio, all
<1>6. /\ A \in Seq(Int) /\ B \in Seq(Int) /\ n \in Nat
  BY <1>1, <1>3, FlattenType
<1> HIDE DEF a
<1>7. Len(A) = Len(a) * n
  BY <1>3, <1>4, <1>6, FlattenLength
<1>8. Len(B) = Len(frames) * n
  BY <1>1, <1>6, FlattenLength
<1> HIDE DEF A, B
<1>9. Output = A \o B /\ Output \in Seq(Int) /\ Len(Output) = Len(A) + Len(B)
  <2>1. A \o B \in Seq(Int) /\ Len(A \o B) = Len(A) + Len(B)
    BY <1>6, ConcatProperties
  <2>2. (A \o B) \o <<>> = A \o B
    BY <2>1
  <2> QED BY <1>5, <2>1, <2>2
<1> DEFINE x == Len(a)
           y == Len(frames)
<1>10. x \in Nat /\ y \in Nat
  BY <1>1, <1>3
<1> HIDE DEF x, y, n
<1>11. Len(Output) = (x + y) * n + 0 /\ Len(Output) \in Nat /\ x + y \in Nat
  <2>1. (x + y) * n = x * n + y * n /\ (x + y) * n \in Nat
    <3>1. x + y \in Nat
      BY <1>10
    <3>2. (x + y) * n \in Nat
      BY <1>6, <3>1, TimesKeepsOrder
    <3>3. (x + y) * n = x * n + y * n
      BY <1>6, <1>10
    <3> QED BY <3>2, <3>3
  <2>2. Len(Output) = x * n + y * n
    BY <1>7, <1>8, <1>9 DEF x, y
  <2> QED BY <1>10, <2>1, <2>2
<1>12. Len(Output) % n = 0
  <2>1. 0 \in 0 .. n - 1
    BY <1>1
  <2> QED BY <1>1, <1>11, <2>1, DivisionUnique
<1> QED BY <1>9, <1>12 DEF n

\* Whatever the sizes of the messages, bytes pair up to the samples they were,
\* the resampled stream has no gap, no repetition and no drift at the seams,
\* and at the end of a phrase only its last frame is padded.
THEOREM NothingIsOffBeat == Spec => []AudioExact
<1>1. AudioInv => AudioExact
  <2> SUFFICES ASSUME AudioInv PROVE AudioExact
    OBVIOUS
  <2>1. PcmType /\ LeftInv /\ LengthInv /\ BytesInv /\ StreamInv
    BY DEF AudioInv, QueueInv
  <2>2. \A n : Due(n) = Outs(0, DueCount(n))
    <3> SUFFICES ASSUME NEW n PROVE Due(n) = Outs(0, DueCount(n))
      OBVIOUS
    <3>1. \A i \in 1 .. DueCount(n) : 0 + i - 1 = i - 1
      OBVIOUS
    <3> QED BY <3>1 DEF Due, Outs
  <2>3. ASSUME tts \in {"read", "select"}
        PROVE  2 * (delivered + Len(ttsChunk.data)) + Len(carry) = bytes
    <3> DEFINE d == bytes \div 2 - delivered
    <3>1. /\ bytes \in Nat /\ delivered \in Nat /\ d \in Nat
          /\ ttsChunk.data = Ordinals(delivered, d) /\ carry = Carried(bytes)
          /\ delivered + d = bytes \div 2
      BY <2>1, <2>3 DEF BytesInv
    <3> HIDE DEF d
    <3>2. Len(ttsChunk.data) = d
      BY <3>1, OrdinalsLength
    <3>3. Len(carry) = bytes % 2
      BY <3>1 DEF Carried
    <3>4. bytes = 2 * (bytes \div 2) + (bytes % 2)
      BY <3>1
    <3> QED BY <3>1, <3>2, <3>3, <3>4
  <2>4. worker \in {"listen", "queue"} => Output = Due(delivered)
    BY <2>1, <2>2 DEF StreamInv
  <2>5. ASSUME worker \in {"tail", "release"}
        PROVE  LET audible == Due(delivered) \o Ending(delivered)
               IN /\ IsPrefix(audible, Output)
                  /\ Len(Output) - Len(audible) < FrameLen
                  /\ \A i \in Len(audible) + 1 .. Len(Output) :
                       Output[i] = Silence
                  /\ Len(Output) % FrameLen = 0
    <3> DEFINE w == Due(delivered) \o Ending(delivered)
    <3>1. PICK p \in Seq({Silence}) : Output = w \o p /\ Len(p) < FrameLen
      BY <2>1, <2>2, <2>5 DEF StreamInv, Audible
    <3>2. w \in Seq(Int)
      <4>1. delivered \in Nat /\ RateInv
        BY <2>1 DEF BytesInv, PcmType
      <4>2. DueCount(delivered) \in Nat
        <5>1. CASE from = To BY <4>1, <5>1 DEF DueCount
        <5>2. CASE from # To BY <4>1, <5>2, DueAreThoseThatFit
        <5> QED BY <5>1, <5>2
      <4>3. Due(delivered) \in Seq(Int)
        <5>1. Outs(0, DueCount(delivered)) \in Seq(Nat)
          BY ONLY <4>1, <4>2, 0 \in Nat, OutsJoin
        <5> QED BY <2>2, <5>1
      <4>4. Ending(delivered) \in Seq(Int)
        <5>1. (delivered - 1) * To \in Int
          BY <4>1, ReplyConstants
        <5> QED BY <5>1 DEF Ending
      <4> QED BY <4>3, <4>4, ConcatProperties
    <3>3. Output \in Seq(Int) /\ Len(Output) % FrameLen = 0
      <4>1. reframe = <<>>
        BY <2>1, <2>5 DEF LeftInv
      <4> QED BY <2>1, <4>1, OutputInFrames
    <3> HIDE DEF w
    <3>4. p \in Seq(Int)
      <4>1. {Silence} \subseteq Int
        BY DEF Silence
      <4> QED BY <4>1, SeqMonotonic
    <3>5. /\ Len(Output) = Len(w) + Len(p) /\ Len(w) \in Nat /\ Len(p) \in Nat
          /\ \A i \in 1 .. Len(w) + Len(p) :
               Output[i] = IF i <= Len(w) THEN w[i] ELSE p[i - Len(w)]
      BY <3>1, <3>2, <3>4, ConcatProperties
    <3>6. IsPrefix(w, Output)
      <4>1. SubSeq(w \o p, 1, Len(w)) = w
        BY <3>2, <3>4, ConcatCut
      <4>2. SubSeq(w, 1, Len(w)) = w
        BY <3>2, SubSeqFull
      <4> QED BY <3>1, <3>5, <4>1, <4>2 DEF IsPrefix
    <3>7. ASSUME NEW i \in Len(w) + 1 .. Len(Output)
          PROVE  Output[i] = Silence
      <4>1. i \in 1 .. Len(w) + Len(p) /\ ~(i <= Len(w))
            /\ i - Len(w) \in 1 .. Len(p)
        BY <3>5
      <4>2. p[i - Len(w)] \in {Silence}
        BY <4>1, ElementOfSeq
      <4> QED BY <3>5, <4>1, <4>2
    <3>8. Len(Output) - Len(w) < FrameLen
      BY <3>1, <3>5, ReplyConstants
    <3> QED BY <3>3, <3>6, <3>7, <3>8 DEF w
  <2> QED BY <2>3, <2>4, <2>5 DEF AudioExact
<1> QED BY <1>1, AudioInductive, PTL

-----------------------------------------------------------------------------
(* Part 5: runs of characters, and blanks.                                 *)

\* m is where the run of characters of class from k on ends.
RunEnds(r, k, class, m) ==
  /\ m \in k .. Len(r) + 1
  /\ m = Len(r) + 1 \/ r[m] \notin class
  /\ \A l \in k .. m - 1 : r[l] \in class

\* There is one such position, and EndOfRun is it.
LEMMA EndOfRunIs ==
  ASSUME NEW r, Len(r) \in Nat, NEW k \in 1 .. Len(r) + 1, NEW class
  PROVE  /\ RunEnds(r, k, class, EndOfRun(r, k, class))
         /\ \A m : RunEnds(r, k, class, m) => m = EndOfRun(r, k, class)
<1> DEFINE T == {m \in k .. Len(r) + 1 : m = Len(r) + 1 \/ r[m] \notin class}
<1>1. PICK m \in T : \A x \in T : m <= x
  <2>1. T \in SUBSET Nat /\ T # {}
    <3>1. Len(r) + 1 \in T
      OBVIOUS
    <3> QED BY <3>1
  <2> HIDE DEF T
  <2> QED BY <2>1, LeastElement
<1>2. RunEnds(r, k, class, m)
  <2>1. m \in k .. Len(r) + 1 /\ (m = Len(r) + 1 \/ r[m] \notin class)
    OBVIOUS
  <2>2. ASSUME NEW l \in k .. m - 1 PROVE r[l] \in class
    <3>1. l \in k .. Len(r) + 1 /\ ~(m <= l)
      BY <2>1
    <3>2. l \notin T
      BY <1>1, <3>1
    <3> QED BY <3>1, <3>2
  <2> QED BY <2>1, <2>2 DEF RunEnds
<1>3. EndOfRun(r, k, class)
        = CHOOSE x \in k .. Len(r) + 1 :
            /\ x = Len(r) + 1 \/ r[x] \notin class
            /\ \A l \in k .. x - 1 : r[l] \in class
  BY DEF EndOfRun
<1>4. RunEnds(r, k, class, EndOfRun(r, k, class))
  BY <1>2, <1>3 DEF RunEnds
<1>5. ASSUME NEW x, NEW y, RunEnds(r, k, class, x), RunEnds(r, k, class, y)
      PROVE  x = y
  BY <1>5 DEF RunEnds
<1> QED BY <1>4, <1>5

\* m is where the run of characters of class before k, and at k, begins.
RunStarts(r, k, class, m) ==
  /\ m \in 1 .. k + 1
  /\ m = 1 \/ r[m - 1] \notin class
  /\ \A l \in m .. k : r[l] \in class

\* There is one such position, and StartOfRun is it.
LEMMA StartOfRunIs ==
  ASSUME NEW r, NEW k \in Nat, NEW class
  PROVE  /\ RunStarts(r, k, class, StartOfRun(r, k, class))
         /\ \A m : RunStarts(r, k, class, m) => m = StartOfRun(r, k, class)
<1> DEFINE T == {d \in 0 .. k : d = k \/ r[k - d] \notin class}
<1>1. PICK d \in T : \A x \in T : d <= x
  <2>1. T \in SUBSET Nat /\ T # {}
    <3>1. k \in T
      OBVIOUS
    <3> QED BY <3>1
  <2> HIDE DEF T
  <2> QED BY <2>1, LeastElement
<1> DEFINE m == k + 1 - d
<1>2. RunStarts(r, k, class, m)
  <2>1. m \in 1 .. k + 1 /\ m - 1 = k - d /\ (m = 1 \/ r[m - 1] \notin class)
    OBVIOUS
  <2>2. ASSUME NEW l \in m .. k PROVE r[l] \in class
    <3>1. k - l \in 0 .. k /\ ~(d <= k - l) /\ k - (k - l) = l
      BY <2>1
    <3>2. k - l \notin T
      BY <1>1, <3>1
    <3> QED BY <3>1, <3>2
  <2> QED BY <2>1, <2>2 DEF RunStarts
<1>3. StartOfRun(r, k, class)
        = CHOOSE x \in 1 .. k + 1 :
            /\ x = 1 \/ r[x - 1] \notin class
            /\ \A l \in x .. k : r[l] \in class
  BY DEF StartOfRun
<1> HIDE DEF m
<1>4. RunStarts(r, k, class, StartOfRun(r, k, class))
  BY <1>2, <1>3 DEF RunStarts
<1>5. ASSUME NEW x, NEW y, RunStarts(r, k, class, x), RunStarts(r, k, class, y)
      PROVE  x = y
  <2>1. x \in 1 .. k + 1 /\ y \in 1 .. k + 1
    BY <1>5 DEF RunStarts
  <2>2. ~(x < y)
    <3> SUFFICES ASSUME x < y PROVE FALSE
      OBVIOUS
    <3>1. y - 1 \in x .. k /\ y # 1
      BY <2>1
    <3> QED BY <1>5, <3>1 DEF RunStarts
  <2>3. ~(y < x)
    <3> SUFFICES ASSUME y < x PROVE FALSE
      OBVIOUS
    <3>1. x - 1 \in y .. k /\ x # 1
      BY <2>1
    <3> QED BY <1>5, <3>1 DEF RunStarts
  <2> QED BY <2>1, <2>2, <2>3
<1> QED BY <1>4, <1>5

\* What is not blank of two texts is that of the one, then of the other.
LEMMA NonBlankConcat ==
  ASSUME NEW s \in Seq(STRING), NEW t \in Seq(STRING)
  PROVE  /\ NonBlank(s) \in Seq(STRING)
         /\ NonBlank(s \o t) = NonBlank(s) \o NonBlank(t)
<1> DEFINE nb(u) == [i \in DOMAIN u |->
                       IF u[i] = Blank THEN <<>> ELSE <<u[i]>>]
<1>1. \A u : NonBlank(u) = FlattenSeq(nb(u))
  BY DEF NonBlank
<1>2. ASSUME NEW u \in Seq(STRING) PROVE nb(u) \in Seq(Seq(STRING))
  <2>1. DOMAIN u = 1 .. Len(u) /\ Len(u) \in Nat
    OBVIOUS
  <2>2. \A i \in 1 .. Len(u) :
          (IF u[i] = Blank THEN <<>> ELSE <<u[i]>>) \in Seq(STRING)
    <3> SUFFICES ASSUME NEW i \in 1 .. Len(u)
                 PROVE  (IF u[i] = Blank THEN <<>> ELSE <<u[i]>>)
                          \in Seq(STRING)
      OBVIOUS
    <3> DEFINE c == u[i]
    <3>1. c \in STRING
      BY ElementOfSeq
    <3> HIDE DEF c
    <3>2. <<c>> \in Seq(STRING) /\ <<>> \in Seq(STRING)
      BY ONLY <3>1, ShortSeqs
    <3>3. (IF c = Blank THEN <<>> ELSE <<c>>) \in Seq(STRING)
      BY <3>2
    <3> QED BY <3>3 DEF c
  <2>3. nb(u) \in [1 .. Len(u) -> Seq(STRING)]
    BY <2>1, <2>2
  <2> HIDE DEF nb
  <2> QED BY <2>1, <2>3
<1>3. s \o t \in Seq(STRING)
  BY ConcatProperties
<1>4. nb(s \o t) = nb(s) \o nb(t)
  <2>1. /\ DOMAIN s = 1 .. Len(s) /\ DOMAIN t = 1 .. Len(t)
        /\ DOMAIN (s \o t) = 1 .. Len(s \o t)
        /\ Len(s) \in Nat /\ Len(t) \in Nat
        /\ Len(s \o t) = Len(s) + Len(t)
        /\ \A i \in 1 .. Len(s) + Len(t) :
             (s \o t)[i] = IF i <= Len(s) THEN s[i] ELSE t[i - Len(s)]
    BY <1>3, ConcatProperties
  <2>2. Len(nb(s)) = Len(s) /\ Len(nb(t)) = Len(t)
        /\ Len(nb(s \o t)) = Len(s) + Len(t)
    BY <2>1
  <2>3. /\ nb(s) \in Seq(Seq(STRING)) /\ nb(t) \in Seq(Seq(STRING))
        /\ nb(s \o t) \in Seq(Seq(STRING))
    BY <1>2, <1>3
  <2>4. ASSUME NEW i \in 1 .. Len(s) + Len(t)
        PROVE  nb(s \o t)[i]
                 = IF i <= Len(s) THEN nb(s)[i] ELSE nb(t)[i - Len(s)]
    <3>1. CASE i <= Len(s)
      <4>1. i \in DOMAIN s /\ i \in DOMAIN (s \o t) /\ (s \o t)[i] = s[i]
        BY <2>1, <3>1
      <4> QED BY <3>1, <4>1
    <3>2. CASE ~(i <= Len(s))
      <4>1. /\ i - Len(s) \in DOMAIN t /\ i \in DOMAIN (s \o t)
            /\ (s \o t)[i] = t[i - Len(s)]
        BY <2>1, <3>2
      <4> QED BY <3>2, <4>1
    <3> QED BY <3>1, <3>2
  <2> HIDE DEF nb
  <2> DEFINE a == nb(s)
             b == nb(t)
             c == nb(s \o t)
  <2>5. /\ a \in Seq(Seq(STRING)) /\ b \in Seq(Seq(STRING))
        /\ c \in Seq(Seq(STRING))
        /\ Len(a) = Len(s) /\ Len(b) = Len(t) /\ Len(c) = Len(a) + Len(b)
    BY <2>2, <2>3
  <2>6. \A i \in 1 .. Len(c) :
          c[i] = IF i <= Len(a) THEN a[i] ELSE b[i - Len(a)]
    BY <2>2, <2>4
  <2> HIDE DEF a, b, c
  <2>7. /\ a \o b \in Seq(Seq(STRING)) /\ Len(a \o b) = Len(a) + Len(b)
        /\ \A i \in 1 .. Len(a) + Len(b) :
             (a \o b)[i] = IF i <= Len(a) THEN a[i] ELSE b[i - Len(a)]
    BY <2>5, ConcatProperties
  <2>8. \A i \in 1 .. Len(c) : c[i] = (a \o b)[i]
    BY <2>5, <2>6, <2>7
  <2>9. c = a \o b
    BY <2>5, <2>7, <2>8, SeqEqual
  <2> QED BY <2>9 DEF a, b, c
<1> HIDE DEF nb
<1>5. FlattenSeq(nb(s) \o nb(t)) = FlattenSeq(nb(s)) \o FlattenSeq(nb(t))
  BY <1>2, FlattenConcat
<1>6. FlattenSeq(nb(s)) \in Seq(STRING)
  BY <1>2, FlattenType
<1> QED BY <1>1, <1>4, <1>5, <1>6

\* Of blanks nothing remains.
LEMMA NonBlankOfBlanks ==
  ASSUME NEW s \in Seq(STRING), \A i \in 1 .. Len(s) : s[i] = Blank
  PROVE  NonBlank(s) = <<>>
<1> DEFINE a == [i \in DOMAIN s |-> IF s[i] = Blank THEN <<>> ELSE <<s[i]>>]
<1>1. DOMAIN s = 1 .. Len(s) /\ Len(s) \in Nat
  OBVIOUS
<1>2. a = [i \in 1 .. Len(s) |-> <<>>]
  BY <1>1
<1> HIDE DEF a
<1>3. a \in Seq(Seq(STRING)) /\ Len(a) = Len(s) /\ AreFrames(a, 0)
  BY <1>1, <1>2 DEF AreFrames
<1>4. Len(FlattenSeq(a)) = Len(a) * 0 /\ FlattenSeq(a) \in Seq(STRING)
  BY <1>3, FlattenLength, FlattenType
<1>5. FlattenSeq(a) = <<>>
  BY <1>1, <1>3, <1>4
<1> QED BY <1>5 DEF NonBlank, a

\* Trimming on the left drops blanks, and nothing else.
LEMMA TrimLeftDropsBlanks ==
  ASSUME NEW s \in Seq(STRING)
  PROVE  /\ TrimLeft(s, {Blank}) \in Seq(STRING)
         /\ NonBlank(TrimLeft(s, {Blank})) = NonBlank(s)
<1> DEFINE m == EndOfRun(s, 1, {Blank})
           u == SubSeq(s, 1, m - 1)
           v == SubSeq(s, m, Len(s))
<1>1. TrimLeft(s, {Blank}) = v
  BY DEF TrimLeft
<1>2. RunEnds(s, 1, {Blank}, m)
  <2>1. Len(s) \in Nat /\ 1 \in 1 .. Len(s) + 1
    OBVIOUS
  <2> QED BY <2>1, EndOfRunIs
<1> HIDE DEF m
<1>3. /\ u \in Seq(STRING) /\ v \in Seq(STRING) /\ u \o v = s
      /\ \A i \in 1 .. Len(u) : u[i] = Blank
  <2>1. m - 1 \in 0 .. Len(s) /\ (m - 1) + 1 = m
        /\ \A l \in 1 .. m - 1 : s[l] = Blank
    BY <1>2 DEF RunEnds
  <2>2. /\ u \in Seq(STRING) /\ v \in Seq(STRING) /\ Len(u) = m - 1
        /\ u \o v = s
    BY <2>1, CutConcat
  <2>3. \A i \in 1 .. m - 1 : u[i] = s[i]
    BY <2>1
  <2> QED BY <2>1, <2>2, <2>3
<1> HIDE DEF u, v
<1>4. NonBlank(u) = <<>>
  BY <1>3, NonBlankOfBlanks
<1>5. NonBlank(s) = <<>> \o NonBlank(v) /\ NonBlank(v) \in Seq(STRING)
  BY <1>3, <1>4, NonBlankConcat
<1>6. <<>> \o NonBlank(v) = NonBlank(v)
  BY <1>5
<1> QED BY <1>1, <1>3, <1>5, <1>6

\* Trimming on both sides likewise.
LEMMA TrimDropsBlanks ==
  ASSUME NEW s \in Seq(STRING)
  PROVE  /\ TrimSpace(s) \in Seq(STRING)
         /\ NonBlank(TrimSpace(s)) = NonBlank(s)
<1> DEFINE v == TrimLeft(s, {Blank})
           k == StartOfRun(v, Len(v), {Blank})
           x == SubSeq(v, 1, k - 1)
           y == SubSeq(v, k, Len(v))
<1>1. TrimSpace(s) = x
  BY DEF TrimSpace, Trim, TrimRight
<1>2. v \in Seq(STRING) /\ NonBlank(v) = NonBlank(s)
  BY TrimLeftDropsBlanks
<1> HIDE DEF v
<1>3. Len(v) \in Nat /\ RunStarts(v, Len(v), {Blank}, k)
  <2>1. Len(v) \in Nat
    BY <1>2
  <2> QED BY <2>1, StartOfRunIs
<1> HIDE DEF k
<1>4. /\ x \in Seq(STRING) /\ y \in Seq(STRING) /\ x \o y = v
      /\ \A i \in 1 .. Len(y) : y[i] = Blank
  <2>1. k - 1 \in 0 .. Len(v) /\ (k - 1) + 1 = k
        /\ \A l \in k .. Len(v) : v[l] = Blank
    BY <1>3 DEF RunStarts
  <2>2. /\ x \in Seq(STRING) /\ y \in Seq(STRING)
        /\ Len(y) = Len(v) - (k - 1) /\ x \o y = v
    BY <1>2, <2>1, CutConcat
  <2>3. \A i \in 1 .. Len(v) - k + 1 : y[i] = v[k + i - 1]
    <3>1. k \in Int /\ Len(v) \in Int
          /\ \A i \in k .. Len(v) : v[i] \in STRING
      BY <1>2, <1>3, <2>1, ElementOfSeq
    <3> QED BY <3>1, SubSeqProperties
  <2>4. \A i \in 1 .. Len(y) :
          i \in 1 .. Len(v) - k + 1 /\ k + i - 1 \in k .. Len(v)
    BY <1>3, <2>1, <2>2
  <2> QED BY <2>1, <2>2, <2>3, <2>4
<1> HIDE DEF x, y
<1>5. NonBlank(y) = <<>>
  BY <1>4, NonBlankOfBlanks
<1>6. NonBlank(v) = NonBlank(x) \o <<>> /\ NonBlank(x) \in Seq(STRING)
  <2>1. /\ NonBlank(x) \in Seq(STRING)
        /\ NonBlank(x \o y) = NonBlank(x) \o NonBlank(y)
    BY ONLY <1>4, NonBlankConcat
  <2> QED BY <1>4, <1>5, <2>1
<1>7. NonBlank(x) \o <<>> = NonBlank(x)
  BY <1>6
<1> QED BY <1>1, <1>2, <1>4, <1>6, <1>7

\* Cutting a text at positions drops blanks, and nothing else.
LEMMA PiecesKeepText ==
  ASSUME NEW r \in Seq(STRING), NEW ends, Ascending(ends, Len(r))
  PROVE  /\ Pieces(r, ends) \in Seq(Seq(STRING))
         /\ Remainder(r, ends) \in Seq(STRING)
         /\ NonBlank(FlattenSeq(Pieces(r, ends)) \o Remainder(r, ends))
              = NonBlank(r)
<1> DEFINE N == Len(r)
           m == Len(ends)
           lo(i) == IF i = 1 THEN 1 ELSE ends[i - 1] + 1
           ps == Pieces(r, ends)
<1>1. /\ N \in Nat /\ m \in Nat /\ DOMAIN ends = 1 .. m
      /\ \A i \in 1 .. m : ends[i] \in 1 .. N
      /\ \A i \in 1 .. m - 1 : ends[i] < ends[i + 1]
  <2>1. ends \in Seq(1 .. N) /\ N \in Nat
    BY DEF Ascending
  <2>2. \A i \in 1 .. m : ends[i] \in 1 .. N
    BY <2>1, ElementOfSeq
  <2> QED BY <2>1, <2>2 DEF Ascending
<1>2. ASSUME NEW i \in 1 .. m
      PROVE  /\ lo(i) \in 1 .. ends[i] /\ ends[i] \in 1 .. N
             /\ SubSeq(r, lo(i), ends[i]) \in Seq(STRING)
  <2>1. CASE i = 1
    BY <1>1, <2>1
  <2>2. CASE i # 1
    <3>1. i - 1 \in 1 .. m - 1 /\ (i - 1) + 1 = i /\ i - 1 \in 1 .. m
      BY <1>1, <2>2
    <3>2. ends[i - 1] < ends[i] /\ ends[i - 1] \in 1 .. N /\ ends[i] \in 1 .. N
      BY <1>1, <3>1
    <3> HIDE DEF m
    <3> QED BY <2>2, <3>2
  <2> QED BY <2>1, <2>2
<1>3. ps = [i \in 1 .. m |-> TrimSpace(SubSeq(r, lo(i), ends[i]))]
  BY <1>1 DEF Pieces
<1> HIDE DEF N, m, lo, ps
<1>4. ASSUME NEW i \in 1 .. m
      PROVE  /\ ps[i] \in Seq(STRING)
             /\ NonBlank(ps[i]) = NonBlank(SubSeq(r, lo(i), ends[i]))
  BY <1>2, <1>3, TrimDropsBlanks
<1>5. ps \in Seq(Seq(STRING)) /\ Len(ps) = m
  <2>1. ps \in [1 .. m -> Seq(STRING)]
    BY <1>3, <1>4
  <2> QED BY <1>1, <2>1
<1>6. CASE m = 0
  <2>1. ends = <<>> /\ ps = <<>>
    BY <1>1, <1>5, <1>6 DEF Ascending, m
  <2>2. Remainder(r, ends) = r
    BY <2>1, SubSeqFull DEF Remainder
  <2>3. <<>> \o r = r
    OBVIOUS
  <2>4. Pieces(r, ends) = <<>>
    BY <2>1 DEF ps
  <2>5. FlattenSeq(Pieces(r, ends)) \o Remainder(r, ends) = r
    BY <2>2, <2>3, <2>4, FlattenEmpty
  <2> HIDE DEF ps
  <2>6. Pieces(r, ends) \in Seq(Seq(STRING))
    BY <2>4, ShortSeqs
  <2> QED BY <2>2, <2>5, <2>6
<1>7. CASE m # 0
  <2>1. m \in 1 .. m /\ 1 \in 1 .. m /\ ps # <<>> /\ ends # <<>>
    BY <1>1, <1>5, <1>7 DEF m
  <2>2. PICK g \in [1 .. Len(ps) -> Seq(STRING)] : Runs(ps, g)
    BY <1>5, RunsExist
  <2>3. /\ \A i \in 1 .. m : g[i] \in Seq(STRING)
        /\ g[1] = ps[1]
        /\ \A i \in 1 .. m - 1 : g[i + 1] = g[i] \o ps[i + 1]
        /\ FlattenSeq(ps) = g[m]
    BY <1>5, <2>1, <2>2, RunsStep, FlattenRuns
  <2> DEFINE S == {i \in 1 .. m :
                     NonBlank(g[i]) = NonBlank(SubSeq(r, 1, ends[i]))}
  <2>4. 1 \in S
    <3>1. lo(1) = 1
      BY DEF lo
    <3> QED BY <1>4, <2>1, <2>3, <3>1
  <2>5. ASSUME NEW i \in 1 .. m - 1, i \in S PROVE i + 1 \in S
    <3>1. i \in 1 .. m /\ i + 1 \in 1 .. m
      BY <1>1
    <3> DEFINE a == ends[i]
               b == ends[i + 1]
               u == SubSeq(r, 1, a)
               v == SubSeq(r, a + 1, b)
    <3>2. a \in 1 .. N /\ b \in 1 .. N /\ a < b
      BY <1>1, <3>1 DEF m, N
    <3>3. lo(i + 1) = a + 1
      BY <1>1, <3>1 DEF lo
    <3>4. ps[i + 1] \in Seq(STRING) /\ NonBlank(ps[i + 1]) = NonBlank(v)
      BY <1>4, <3>1, <3>3
    <3> HIDE DEF a, b
    <3>5. u \in Seq(STRING) /\ v \in Seq(STRING) /\ u \o v = SubSeq(r, 1, b)
      <4>1. 1 \in 1 .. Len(r) + 1 /\ a \in 1 - 1 .. Len(r) /\ b \in a .. Len(r)
        BY <1>1, <3>2 DEF N
      <4>2. u \o v = SubSeq(r, 1, b)
        BY <4>1, ConcatAdjacentSubSeq
      <4>3. u \in Seq(STRING) /\ v \in Seq(STRING)
        BY <3>2 DEF N
      <4> QED BY <4>2, <4>3
    <3>6. NonBlank(g[i]) = NonBlank(u) /\ g[i] \in Seq(STRING)
      BY <2>3, <2>5, <3>1 DEF a
    <3> HIDE DEF u, v
    <3>7. NonBlank(g[i] \o ps[i + 1]) = NonBlank(u) \o NonBlank(v)
      BY <3>4, <3>6, NonBlankConcat
    <3>8. NonBlank(u \o v) = NonBlank(u) \o NonBlank(v)
      BY <3>5, NonBlankConcat
    <3>9. NonBlank(g[i + 1]) = NonBlank(SubSeq(r, 1, b))
      BY <2>3, <3>5, <3>7, <3>8
    <3> QED BY <3>1, <3>9 DEF b
  <2>6. m \in S
    <3>1. m \in Nat
      BY <1>1 DEF m
    <3> HIDE DEF S
    <3>2. 1 .. m \subseteq S
      BY <2>4, <2>5, <3>1, IntervalInduction
    <3> QED BY <2>1, <3>2
  <2> DEFINE e == ends[m]
             u == SubSeq(r, 1, e)
             v == SubSeq(r, e + 1, Len(r))
  <2>7. Remainder(r, ends) = v
    BY <2>1 DEF Remainder, m
  <2>8. e \in 0 .. Len(r)
    BY <1>2, <2>1, <1>1 DEF N
  <2>9. NonBlank(g[m]) = NonBlank(u) /\ g[m] \in Seq(STRING)
    BY <2>1, <2>3, <2>6
  <2> HIDE DEF e
  <2>10. u \in Seq(STRING) /\ v \in Seq(STRING) /\ u \o v = r
    BY <2>8, CutConcat
  <2> HIDE DEF u, v
  <2>11. NonBlank(g[m] \o v) = NonBlank(r)
    <3>1. NonBlank(g[m] \o v) = NonBlank(u) \o NonBlank(v)
      BY <2>9, <2>10, NonBlankConcat
    <3>2. NonBlank(u \o v) = NonBlank(u) \o NonBlank(v)
      BY <2>10, NonBlankConcat
    <3> QED BY <2>10, <3>1, <3>2
  <2> QED BY <1>5, <2>3, <2>7, <2>10, <2>11 DEF ps
<1> QED BY <1>6, <1>7

-----------------------------------------------------------------------------
(* Part 6: what becomes of the text.                                       *)

\* The end of the sentence that ends at position i, if one does, and where the
\* scan of splitSentences goes on.
EndsItem(r, force) ==
  [i \in 1 .. Len(r) |->
     IF EndsSentence(r, force, i)
     THEN <<EndOfRun(r, EndOfRun(r, i, Terminators), Closing) - 1>>
     ELSE <<>>]
EndsNext(r, force) ==
  [i \in 1 .. Len(r) |->
     IF EndsSentence(r, force, i)
     THEN EndOfRun(r, EndOfRun(r, i, Terminators), Closing)
     ELSE IF EndOfRun(r, i, Terminators) > i THEN EndOfRun(r, i, Terminators)
     ELSE i + 1]

\* Where both runs end, that of terminators at i and that of what closes.
LEMMA RunsAt ==
  ASSUME NEW r, Len(r) \in Nat, NEW i \in 1 .. Len(r) + 1
  PROVE  LET j   == EndOfRun(r, i, Terminators)
             end == EndOfRun(r, j, Closing)
         IN /\ RunEnds(r, i, Terminators, j) /\ j \in i .. Len(r) + 1
            /\ RunEnds(r, j, Closing, end) /\ end \in j .. Len(r) + 1
<1> DEFINE j == EndOfRun(r, i, Terminators)
           end == EndOfRun(r, j, Closing)
<1>1. RunEnds(r, i, Terminators, j)
  BY EndOfRunIs
<1>2. j \in i .. Len(r) + 1 /\ j \in 1 .. Len(r) + 1
  BY <1>1 DEF RunEnds
<1> HIDE DEF j
<1>3. RunEnds(r, j, Closing, end)
  BY <1>2, EndOfRunIs
<1>4. end \in j .. Len(r) + 1
  BY <1>3 DEF RunEnds
<1> QED BY <1>1, <1>2, <1>3, <1>4 DEF j

\* splitSentences scans like this.
LEMMA EndsScan ==
  ASSUME NEW r, Len(r) \in Nat, NEW force
  PROVE  /\ Stepping(EndsNext(r, force), EndsItem(r, force), Len(r))
         /\ \E f : /\ f = [i \in 1 .. Len(r) + 1 |->
                           ScanStep(f, EndsNext(r, force), EndsItem(r, force),
                                    Len(r), i)]
                  /\ EndsFound(r, force) = f[1]
<1> DEFINE N == Len(r)
           nx == EndsNext(r, force)
           it == EndsItem(r, force)
           body(f, i) ==
             LET j   == EndOfRun(r, i, Terminators)
                 end == EndOfRun(r, j, Closing)
             IN IF i > Len(r) THEN <<>>
                ELSE IF EndsSentence(r, force, i) THEN <<end - 1>> \o f[end]
                ELSE f[IF j > i THEN j ELSE i + 1]
           F == CHOOSE f : f = [i \in 1 .. Len(r) + 1 |-> body(f, i)]
<1>1. ASSUME NEW i \in 1 .. N
      PROVE  /\ nx[i] \in i + 1 .. N + 1 /\ it[i] \in Seq(1 .. N)
             /\ it[i] = <<>> \/ \E e \in i .. nx[i] - 1 : it[i] = <<e>>
  <2> DEFINE j == EndOfRun(r, i, Terminators)
             end == EndOfRun(r, j, Closing)
  <2>1. j \in i .. N + 1 /\ end \in j .. N + 1
    BY RunsAt
  <2>2. CASE EndsSentence(r, force, i)
    <3>1. j > i
      BY <2>2 DEF EndsSentence
    <3>2. nx[i] = end /\ it[i] = <<end - 1>>
      BY <2>2 DEF EndsNext, EndsItem
    <3> HIDE DEF end, j, nx, it
    <3>3. /\ end \in i + 1 .. N + 1
          /\ end - 1 \in i .. end - 1 /\ end - 1 \in 1 .. N
      BY <2>1, <3>1
    <3>4. <<end - 1>> \in Seq(1 .. N)
      BY <3>3
    <3> QED BY <3>2, <3>3, <3>4
  <2>3. CASE ~EndsSentence(r, force, i)
    <3>1. nx[i] = (IF j > i THEN j ELSE i + 1) /\ it[i] = <<>>
      BY <2>3 DEF EndsNext, EndsItem
    <3> HIDE DEF end, j, nx, it
    <3>2. nx[i] \in i + 1 .. N + 1
      BY <2>1, <3>1
    <3>3. it[i] \in Seq(1 .. N)
      BY <3>1, ShortSeqs
    <3> QED BY <3>1, <3>2, <3>3
  <2> QED BY <2>2, <2>3
<1>2. Stepping(nx, it, N)
  <2>1. DOMAIN nx = 1 .. N /\ DOMAIN it = 1 .. N
        /\ nx = [i \in 1 .. N |-> nx[i]] /\ it = [i \in 1 .. N |-> it[i]]
    BY DEF EndsNext, EndsItem
  <2> HIDE DEF nx, it
  <2>2. \A i \in 1 .. N : nx[i] \in 1 .. N + 1 /\ nx[i] > i
    BY <1>1
  <2>3. nx \in [1 .. N -> 1 .. N + 1] /\ it \in [1 .. N -> Seq(1 .. N)]
    BY <1>1, <2>1, <2>2
  <2> QED BY <1>1, <2>2, <2>3 DEF Stepping
<1>3. ASSUME NEW f, NEW i \in 1 .. N + 1
      PROVE  body(f, i) = ScanStep(f, nx, it, N, i)
  <2>1. CASE i = N + 1
    BY <2>1 DEF ScanStep
  <2>2. CASE i # N + 1
    <3>1. i \in 1 .. N /\ ~(i > Len(r))
      BY <2>2
    <3>2. CASE EndsSentence(r, force, i)
      BY <2>2, <3>1, <3>2 DEF ScanStep, EndsNext, EndsItem
    <3>3. CASE ~EndsSentence(r, force, i)
      BY <2>2, <3>1, <3>3 DEF ScanStep, EndsNext, EndsItem
    <3> QED BY <3>2, <3>3
  <2> QED BY <2>1, <2>2
<1>4. EndsFound(r, force) = F[1]
  BY DEF EndsFound
<1> HIDE DEF body, nx, it, N
<1>5. PICK g : g = [i \in 1 .. N + 1 |-> ScanStep(g, nx, it, N, i)]
  BY <1>2, ScanExists
<1>6. g = [i \in 1 .. Len(r) + 1 |-> body(g, i)]
  BY <1>3, <1>5 DEF N
<1>7. F = [i \in 1 .. Len(r) + 1 |-> body(F, i)]
  BY <1>6
<1> HIDE DEF F
<1>8. F = [i \in 1 .. N + 1 |-> ScanStep(F, nx, it, N, i)]
  BY <1>3, <1>7 DEF N
<1> QED BY <1>2, <1>4, <1>8 DEF nx, it, N

\* Where splitSentences cuts, in ascending order, and what it yields.
LEMMA SplitKeepsText ==
  ASSUME NEW r \in Seq(STRING), NEW force
  PROVE  LET s == SplitSentences(r, force)
         IN /\ Ascending(EndsFound(r, force), Len(r))
            /\ s.chunks \in Seq(Seq(STRING))
            /\ s.rest \in Seq(STRING)
            /\ NonBlank(FlattenSeq(s.chunks) \o s.rest) = NonBlank(r)
<1> DEFINE N == Len(r)
           nx == EndsNext(r, force)
           it == EndsItem(r, force)
           ends == EndsFound(r, force)
<1>1. N \in Nat
  OBVIOUS
<1>2. /\ Stepping(nx, it, N)
      /\ \E f : /\ f = [i \in 1 .. N + 1 |-> ScanStep(f, nx, it, N, i)]
                /\ ends = f[1]
  BY <1>1, EndsScan
<1>3. SplitSentences(r, force)
        = [chunks |-> Pieces(r, ends), rest |-> Remainder(r, ends)]
  BY DEF SplitSentences
<1> HIDE DEF nx, it, ends
<1>4. Ascending(ends, N)
  <2>1. PICK f : /\ f = [i \in 1 .. N + 1 |-> ScanStep(f, nx, it, N, i)]
                 /\ ends = f[1]
    BY <1>2
  <2>2. 1 \in 1 .. N + 1
    BY <1>1
  <2>3. \A i \in 1 .. N + 1 : Ascending(f[i], N)
    BY <1>2, <2>1, ScanYields
  <2> QED BY <2>1, <2>2, <2>3
<1>5. /\ Pieces(r, ends) \in Seq(Seq(STRING))
      /\ Remainder(r, ends) \in Seq(STRING)
      /\ NonBlank(FlattenSeq(Pieces(r, ends)) \o Remainder(r, ends))
           = NonBlank(r)
  BY <1>4, PiecesKeepText
<1> QED BY <1>3, <1>4, <1>5 DEF ends

\* splitAtMax cuts within the text.
LEMMA CutAtWithin ==
  ASSUME NEW r, Len(r) \in Nat, CanCut(r), MaxChunkChars \in Nat
  PROVE  CutAt(r) \in 1 .. Len(r)
<1> DEFINE blanks == {k \in 2 .. Len(r) : /\ k <= MaxChunkChars + 1
                                          /\ r[k] = Blank}
           T == {d \in 0 .. Len(r) : Len(r) - d \in blanks}
<1>1. MaxChunkChars > 0 /\ MaxChunkChars <= Len(r)
  BY DEF CanCut
<1>2. CASE blanks = {}
  BY <1>1, <1>2 DEF CutAt
<1>3. CASE blanks # {}
  <2>1. T \in SUBSET Nat /\ T # {}
    <3>1. PICK k \in blanks : TRUE
      BY <1>3
    <3>2. Len(r) - k \in 0 .. Len(r) /\ Len(r) - (Len(r) - k) = k
      OBVIOUS
    <3>3. Len(r) - k \in T
      BY <3>1, <3>2
    <3>4. T \subseteq 0 .. Len(r)
      OBVIOUS
    <3> HIDE DEF T
    <3>5. T \subseteq Nat
      BY <3>4
    <3> QED BY <3>3, <3>5
  <2>2. PICK d \in T : \A x \in T : d <= x
    <3> HIDE DEF T
    <3> QED BY <2>1, LeastElement
  <2>3. ASSUME NEW l \in blanks PROVE l <= Len(r) - d
    <3>1. Len(r) - l \in 0 .. Len(r) /\ Len(r) - (Len(r) - l) = l
      OBVIOUS
    <3>2. Len(r) - l \in T
      BY <2>3, <3>1
    <3>3. l \in 2 .. Len(r) /\ d \in 0 .. Len(r)
      OBVIOUS
    <3>4. d <= Len(r) - l
      <4> HIDE DEF T
      <4> QED BY <2>2, <3>2
    <3> HIDE DEF T, blanks
    <3> QED BY <3>3, <3>4
  <2>4. \E k \in blanks : \A l \in blanks : l <= k
    BY <2>2, <2>3
  <2> DEFINE k == CHOOSE k \in blanks : \A l \in blanks : l <= k
  <2>5. k \in blanks
    BY <2>4
  <2>6. CutAt(r) = k - 1
    BY <1>3 DEF CutAt
  <2>7. k \in 2 .. Len(r)
    BY <2>5
  <2> HIDE DEF k
  <2> QED BY <2>6, <2>7
<1> QED BY <1>2, <1>3

\* Where the loop around splitAtMax cuts next, and where it goes on.
CutsItem(r) ==
  [i \in 1 .. Len(r) |->
     IF CanCut(SubSeq(r, i, Len(r)))
     THEN <<i + CutAt(SubSeq(r, i, Len(r))) - 1>> ELSE <<>>]
CutsNext(r) ==
  [i \in 1 .. Len(r) |->
     IF CanCut(SubSeq(r, i, Len(r)))
     THEN EndOfRun(r, i + CutAt(SubSeq(r, i, Len(r))), {Blank})
     ELSE Len(r) + 1]

\* The loop around splitAtMax scans like this.
LEMMA CutsScan ==
  ASSUME NEW r \in Seq(STRING), MaxChunkChars \in Nat
  PROVE  /\ Stepping(CutsNext(r), CutsItem(r), Len(r))
         /\ \E f : /\ f = [i \in 1 .. Len(r) + 1 |->
                           ScanStep(f, CutsNext(r), CutsItem(r), Len(r), i)]
                   /\ CutsFound(r) = f[1]
<1> DEFINE N == Len(r)
           nx == CutsNext(r)
           it == CutsItem(r)
           tail(i) == SubSeq(r, i, Len(r))
           body(f, i) ==
             LET s == SubSeq(r, i, Len(r))
             IN IF ~CanCut(s) THEN <<>>
                ELSE <<i + CutAt(s) - 1>>
                       \o f[EndOfRun(r, i + CutAt(s), {Blank})]
           F == CHOOSE f : f = [i \in 1 .. Len(r) + 1 |-> body(f, i)]
<1>0. N \in Nat
  OBVIOUS
<1>1. ASSUME NEW i \in 1 .. N
      PROVE  /\ nx[i] \in i + 1 .. N + 1 /\ it[i] \in Seq(1 .. N)
             /\ it[i] = <<>> \/ \E e \in i .. nx[i] - 1 : it[i] = <<e>>
  <2>1. Len(tail(i)) = N - i + 1
    OBVIOUS
  <2>2. CASE CanCut(tail(i))
    <3> DEFINE c == CutAt(tail(i))
               m == EndOfRun(r, i + c, {Blank})
    <3>1. c \in 1 .. N - i + 1
      <4>1. Len(tail(i)) \in Nat
        BY <2>1
      <4> HIDE DEF tail
      <4> QED BY <2>1, <2>2, <4>1, CutAtWithin
    <3>2. nx[i] = m /\ it[i] = <<i + c - 1>>
      BY <2>2 DEF CutsNext, CutsItem
    <3> HIDE DEF tail, c, nx, it
    <3>3. i + c \in 1 .. N + 1 /\ i + c - 1 \in 1 .. N
      BY <3>1
    <3>4. m \in i + c .. N + 1
      <4>1. RunEnds(r, i + c, {Blank}, m)
        BY <1>0, <3>3, EndOfRunIs
      <4> QED BY <4>1 DEF RunEnds
    <3> HIDE DEF m
    <3>5. m \in i + 1 .. N + 1 /\ i + c - 1 \in i .. m - 1
      BY <3>1, <3>4
    <3>6. <<i + c - 1>> \in Seq(1 .. N)
      BY <3>3
    <3> QED BY <3>2, <3>5, <3>6
  <2>3. CASE ~CanCut(tail(i))
    <3>1. nx[i] = N + 1 /\ it[i] = <<>>
      BY <2>3 DEF CutsNext, CutsItem
    <3> HIDE DEF nx, it
    <3>2. <<>> \in Seq(1 .. N)
      BY ShortSeqs
    <3> QED BY <3>1, <3>2
  <2> QED BY <2>2, <2>3
<1>2. Stepping(nx, it, N)
  <2>1. DOMAIN nx = 1 .. N /\ DOMAIN it = 1 .. N
        /\ nx = [i \in 1 .. N |-> nx[i]] /\ it = [i \in 1 .. N |-> it[i]]
    BY DEF CutsNext, CutsItem
  <2> HIDE DEF nx, it
  <2>2. \A i \in 1 .. N : nx[i] \in 1 .. N + 1 /\ nx[i] > i
    BY <1>1
  <2>3. nx \in [1 .. N -> 1 .. N + 1] /\ it \in [1 .. N -> Seq(1 .. N)]
    BY <1>1, <2>1, <2>2
  <2> QED BY <1>1, <2>2, <2>3, <1>0 DEF Stepping
<1>3. ASSUME NEW f PROVE body(f, N + 1) = <<>>
  <2>1. Len(SubSeq(r, N + 1, Len(r))) = 0
    OBVIOUS
  <2>2. ~CanCut(SubSeq(r, N + 1, Len(r)))
    BY <2>1 DEF CanCut
  <2> QED BY <2>2
<1>4. ASSUME NEW f, NEW i \in 1 .. N + 1, f[N + 1] = <<>>
      PROVE  body(f, i) = ScanStep(f, nx, it, N, i)
  <2>1. CASE i = N + 1
    BY <1>3, <2>1 DEF ScanStep
  <2>2. CASE i # N + 1
    <3>1. i \in 1 .. N
      BY <2>2
    <3>2. CASE CanCut(SubSeq(r, i, Len(r)))
      BY <2>2, <3>1, <3>2 DEF ScanStep, CutsNext, CutsItem
    <3>3. CASE ~CanCut(SubSeq(r, i, Len(r)))
      BY <1>4, <2>2, <3>1, <3>3 DEF ScanStep, CutsNext, CutsItem
    <3> QED BY <3>2, <3>3
  <2> QED BY <2>1, <2>2
<1>5. CutsFound(r) = F[1]
  BY DEF CutsFound
<1> HIDE DEF body, nx, it, N
<1>6. PICK g : g = [i \in 1 .. N + 1 |-> ScanStep(g, nx, it, N, i)]
  BY <1>2, ScanExists
<1>7. g = [i \in 1 .. Len(r) + 1 |-> body(g, i)]
  <2>1. \A i \in 1 .. N + 1 : g[i] = ScanStep(g, nx, it, N, i)
    BY <1>6
  <2>2. g[N + 1] = <<>>
    <3>1. N + 1 \in 1 .. N + 1
      BY <1>0
    <3> QED BY <2>1, <3>1 DEF ScanStep
  <2> QED BY <1>4, <1>6, <2>2 DEF N
<1>8. F = [i \in 1 .. Len(r) + 1 |-> body(F, i)]
  BY <1>7
<1> HIDE DEF F
<1>9. F[N + 1] = <<>>
  <2>1. \A i \in 1 .. N + 1 : F[i] = body(F, i)
    BY <1>8 DEF N
  <2>2. N + 1 \in 1 .. N + 1
    BY <1>0
  <2> QED BY <1>3, <2>1, <2>2
<1>10. F = [i \in 1 .. N + 1 |-> ScanStep(F, nx, it, N, i)]
  BY <1>4, <1>8, <1>9 DEF N
<1> QED BY <1>2, <1>5, <1>10 DEF nx, it, N

\* Cutting for length keeps the text.
LEMMA CutLongKeepsText ==
  ASSUME NEW chunks \in Seq(Seq(STRING)), NEW r \in Seq(STRING),
         MaxChunkChars \in Nat
  PROVE  LET c == CutLong(chunks, r)
         IN /\ c.chunks \in Seq(Seq(STRING))
            /\ c.rest \in Seq(STRING)
            /\ NonBlank(FlattenSeq(c.chunks) \o c.rest)
                 = NonBlank(FlattenSeq(chunks) \o r)
<1> DEFINE N == Len(r)
           nx == CutsNext(r)
           it == CutsItem(r)
           cuts == CutsFound(r)
           ps == Pieces(r, cuts)
           rest == Remainder(r, cuts)
           left == IF cuts = <<>> THEN r ELSE TrimLeft(rest, {Blank})
<1>1. /\ Stepping(nx, it, N)
      /\ \E f : /\ f = [i \in 1 .. N + 1 |-> ScanStep(f, nx, it, N, i)]
                /\ cuts = f[1]
  BY CutsScan
<1>2. CutLong(chunks, r) = [chunks |-> chunks \o ps, rest |-> left]
  BY DEF CutLong
<1>3. N \in Nat
  OBVIOUS
<1> HIDE DEF nx, it, cuts
<1>4. Ascending(cuts, N)
  <2>1. PICK f : /\ f = [i \in 1 .. N + 1 |-> ScanStep(f, nx, it, N, i)]
                 /\ cuts = f[1]
    BY <1>1
  <2>2. 1 \in 1 .. N + 1
    BY <1>3
  <2>3. \A i \in 1 .. N + 1 : Ascending(f[i], N)
    BY <1>1, <2>1, ScanYields
  <2> QED BY <2>1, <2>2, <2>3
<1>5. /\ ps \in Seq(Seq(STRING)) /\ rest \in Seq(STRING)
      /\ NonBlank(FlattenSeq(ps) \o rest) = NonBlank(r)
  BY <1>4, PiecesKeepText
<1>6. left \in Seq(STRING) /\ NonBlank(FlattenSeq(ps) \o left) = NonBlank(r)
  <2>1. CASE cuts = <<>>
    <3>1. ps = <<>>
      BY <2>1 DEF Pieces
    <3>2. FlattenSeq(ps) \o r = <<>> \o r
      BY <3>1, FlattenEmpty
    <3>3. <<>> \o r = r
      OBVIOUS
    <3> QED BY <2>1, <3>2, <3>3
  <2>2. CASE cuts # <<>>
    <3>1. left = TrimLeft(rest, {Blank})
      BY <2>2
    <3> HIDE DEF ps, rest, left
    <3>2. left \in Seq(STRING) /\ NonBlank(left) = NonBlank(rest)
      BY <1>5, <3>1, TrimLeftDropsBlanks
    <3>3. FlattenSeq(ps) \in Seq(STRING)
      BY <1>5, FlattenType
    <3>4. NonBlank(FlattenSeq(ps) \o left)
            = NonBlank(FlattenSeq(ps)) \o NonBlank(left)
      BY <3>2, <3>3, NonBlankConcat
    <3>5. NonBlank(FlattenSeq(ps) \o rest)
            = NonBlank(FlattenSeq(ps)) \o NonBlank(rest)
      BY <1>5, <3>3, NonBlankConcat
    <3> QED BY <1>5, <3>2, <3>4, <3>5
  <2> QED BY <2>1, <2>2
<1> HIDE DEF ps, left, rest
<1>7. NonBlank(FlattenSeq(chunks \o ps) \o left)
        = NonBlank(FlattenSeq(chunks) \o r)
  <2> DEFINE a == FlattenSeq(chunks)
             b == FlattenSeq(ps)
  <2>1. a \in Seq(STRING) /\ b \in Seq(STRING)
    BY <1>5, FlattenType
  <2>2. FlattenSeq(chunks \o ps) = a \o b
    BY <1>5, FlattenConcat
  <2> HIDE DEF a, b
  <2>3. NonBlank(b \o left) = NonBlank(r)
    BY <1>6 DEF b
  <2>4. b \o left \in Seq(STRING)
    BY <1>6, <2>1
  <2>5. (a \o b) \o left = a \o (b \o left)
    BY ONLY <1>6, <2>1, StringsRegroup, Zenon
  <2>6. NonBlank(a \o (b \o left)) = NonBlank(a) \o NonBlank(b \o left)
    BY <2>1, <2>4, NonBlankConcat
  <2>7. NonBlank(a \o r) = NonBlank(a) \o NonBlank(r)
    BY <2>1, NonBlankConcat
  <2> QED BY <2>2, <2>3, <2>5, <2>6, <2>7 DEF a
<1>8. chunks \o ps \in Seq(Seq(STRING))
  BY <1>5, ConcatProperties
<1> QED BY <1>2, <1>6, <1>7, <1>8

\* push keeps what the buffer held and what came.
LEMMA PushKeepsText ==
  ASSUME NEW b \in Seq(STRING), NEW d \in Seq(STRING), MaxChunkChars \in Nat
  PROVE  LET c == Push(b, d)
         IN /\ c.chunks \in Seq(Seq(STRING))
            /\ c.rest \in Seq(STRING)
            /\ NonBlank(FlattenSeq(c.chunks) \o c.rest) = NonBlank(b \o d)
<1> DEFINE r == b \o d
           s == SplitSentences(r, FALSE)
<1>1. r \in Seq(STRING)
  BY ConcatProperties
<1>2. Push(b, d) = CutLong(s.chunks, s.rest)
  BY DEF Push
<1> HIDE DEF r
<1>3. /\ s.chunks \in Seq(Seq(STRING)) /\ s.rest \in Seq(STRING)
      /\ NonBlank(FlattenSeq(s.chunks) \o s.rest) = NonBlank(r)
  BY <1>1, SplitKeepsText
<1> HIDE DEF s
<1> QED BY <1>2, <1>3, CutLongKeepsText DEF r

\* flush gives away everything but blanks.
LEMMA FlushKeepsText ==
  ASSUME NEW b \in Seq(STRING)
  PROVE  LET c == Flush(b)
         IN /\ c.chunks \in Seq(Seq(STRING))
            /\ c.rest \in Seq(STRING)
            /\ NonBlank(FlattenSeq(c.chunks) \o c.rest) = NonBlank(b)
            /\ NonBlank(c.rest) = <<>>
<1> DEFINE s == SplitSentences(b, TRUE)
           t == TrimSpace(s.rest)
           ps == s.chunks
<1>1. /\ ps \in Seq(Seq(STRING)) /\ s.rest \in Seq(STRING)
      /\ NonBlank(FlattenSeq(ps) \o s.rest) = NonBlank(b)
  BY SplitKeepsText
<1>2. t \in Seq(STRING) /\ NonBlank(t) = NonBlank(s.rest)
  <2> HIDE DEF s
  <2> QED BY <1>1, TrimDropsBlanks
<1>3. Flush(b) = IF t = <<>> THEN s
                 ELSE [chunks |-> Append(ps, t), rest |-> <<>>]
  BY DEF Flush
<1>4. NonBlank(<<>>) = <<>>
  <2>1. <<>> \in Seq(STRING) /\ \A i \in 1 .. Len(<<>>) : <<>>[i] = Blank
    BY ShortSeqs
  <2> QED BY <2>1, NonBlankOfBlanks
<1>5. CASE t = <<>>
  <2> HIDE DEF s, t
  <2> QED BY <1>1, <1>2, <1>3, <1>4, <1>5
<1>6. CASE t # <<>>
  <2> DEFINE u == s.rest
             a == FlattenSeq(ps)
  <2> HIDE DEF s, t, ps
  <2>1. Flush(b).chunks = Append(ps, t) /\ Flush(b).rest = <<>>
    BY <1>3, <1>6
  <2>2. Append(ps, t) \in Seq(Seq(STRING))
    BY <1>1, <1>2
  <2>3. FlattenSeq(Append(ps, t)) = a \o t
    BY <1>1, <1>2, FlattenAppend
  <2>4. a \in Seq(STRING)
    BY <1>1, FlattenType
  <2>5. u \in Seq(STRING) /\ NonBlank(t) = NonBlank(u)
        /\ NonBlank(a \o u) = NonBlank(b)
    BY <1>1, <1>2
  <2> HIDE DEF a, u
  <2>6. NonBlank(a \o t) = NonBlank(a) \o NonBlank(t)
        /\ NonBlank(a \o u) = NonBlank(a) \o NonBlank(u)
    BY <1>2, <2>4, <2>5, NonBlankConcat
  <2>7. (a \o t) \o <<>> = a \o t
    BY <1>2, <2>4
  <2>8. NonBlank(FlattenSeq(Append(ps, t)) \o <<>>) = NonBlank(b)
    BY <2>3, <2>5, <2>6, <2>7
  <2>9. <<>> \in Seq(STRING)
    BY ShortSeqs
  <2> QED BY <1>4, <2>1, <2>2, <2>8, <2>9
<1> QED BY <1>5, <1>6

\* What the text is made of, and that none of it is lost.
TextType ==
  /\ text \in Seq(STRING) /\ buf \in Seq(STRING)
  /\ todo \in Seq(Seq(STRING)) /\ spoken \in Seq(Seq(STRING))
  /\ llmChunk.kind = "delta" => llmChunk.data \in Seq(STRING)

TextInv ==
  /\ TextType
  /\ NonBlank(FlattenSeq(spoken \o todo) \o buf) = NonBlank(text)
  /\ last => NonBlank(buf) = <<>>

\* What is conserved when a text moves from the buffer to the phrases.
LEMMA MoveKeepsText ==
  ASSUME NEW a \in Seq(Seq(STRING)), NEW ps \in Seq(Seq(STRING)),
         NEW b \in Seq(STRING), NEW c \in Seq(STRING), NEW d \in Seq(STRING),
         NonBlank(FlattenSeq(ps) \o c) = NonBlank(b \o d)
  PROVE  NonBlank(FlattenSeq(a \o ps) \o c)
           = NonBlank(FlattenSeq(a) \o b) \o NonBlank(d)
<1> DEFINE A == FlattenSeq(a)
           P == FlattenSeq(ps)
<1>1. A \in Seq(STRING) /\ P \in Seq(STRING)
  BY FlattenType
<1>2. FlattenSeq(a \o ps) = A \o P
  BY FlattenConcat
<1> HIDE DEF A, P
<1>3. (A \o P) \o c = A \o (P \o c)
  BY ONLY <1>1, StringsRegroup, Zenon
<1>4. P \o c \in Seq(STRING)
  BY <1>1
<1>5. NonBlank(A \o (P \o c)) = NonBlank(A) \o NonBlank(P \o c)
  BY <1>1, <1>4, NonBlankConcat
<1>6. NonBlank(b \o d) = NonBlank(b) \o NonBlank(d)
  BY NonBlankConcat
<1>7. NonBlank(A \o b) = NonBlank(A) \o NonBlank(b)
  BY <1>1, NonBlankConcat
<1>8. /\ NonBlank(A) \in Seq(STRING) /\ NonBlank(b) \in Seq(STRING)
      /\ NonBlank(d) \in Seq(STRING)
  BY <1>1, NonBlankConcat
<1> DEFINE x == NonBlank(A)
           y == NonBlank(b)
           z == NonBlank(d)
<1>9. x \in Seq(STRING) /\ y \in Seq(STRING) /\ z \in Seq(STRING)
  BY <1>8
<1>10. NonBlank(P \o c) = y \o z
  BY <1>6 DEF P
<1> HIDE DEF x, y, z
<1>11. (x \o y) \o z = x \o (y \o z)
  <2>1. IsSeq(x, STRING) /\ IsSeq(y, STRING) /\ IsSeq(z, STRING)
    BY <1>9 DEF IsSeq
  <2>2. Cat(Cat(x, y), z) = Cat(x, Cat(y, z))
    BY ONLY <2>1, CatShift
  <2> QED BY <2>2, Zenon DEF Cat
<1> QED BY <1>2, <1>3, <1>5, <1>7, <1>10, <1>11 DEF x, y, z, A

\* Steps that leave the text alone.
LEMMA TextQuiet ==
  /\ TextInv
  /\ UNCHANGED <<text, buf, todo, last, spoken>>
  /\ llmChunk' = llmChunk \/ llmChunk'.kind # "delta"
       \/ llmChunk'.data \in Seq(STRING)
  => TextInv'
<1> SUFFICES ASSUME TextInv, UNCHANGED <<text, buf, todo, last, spoken>>,
                    \/ llmChunk' = llmChunk
                    \/ llmChunk'.kind # "delta"
                    \/ llmChunk'.data \in Seq(STRING)
             PROVE  TextInv'
  OBVIOUS
<1>1. TextType'
  BY DEF TextInv, TextType
<1>2. /\ spoken' = spoken /\ todo' = todo /\ buf' = buf /\ text' = text
      /\ last' = last
  OBVIOUS
<1>3. /\ (NonBlank(FlattenSeq(spoken \o todo) \o buf) = NonBlank(text))'
      /\ (last => NonBlank(buf) = <<>>)'
  BY <1>2 DEF TextInv
<1> QED BY <1>1, <1>3 DEF TextInv

\* A delta goes into the buffer, and phrases come out.
LEMMA TextReceiveDelta ==
  ASSUME TextInv, ReceiveDelta, MaxChunkChars \in Nat
  PROVE  TextInv'
<1> DEFINE d == llmChunk.data
           c == Push(buf, d)
           cs == c.chunks
           cr == c.rest
<1>1. /\ llmChunk.kind = "delta" /\ llmChunk' = Nothing
      /\ text' = text \o d /\ buf' = cr /\ todo' = cs
      /\ spoken' = spoken /\ last' = last
  BY DEF ReceiveDelta, Receiving, LlmTaken
<1>2. todo = <<>> /\ ~last
  BY DEF ReceiveDelta, Receiving
<1>3. /\ text \in Seq(STRING) /\ buf \in Seq(STRING) /\ d \in Seq(STRING)
      /\ spoken \in Seq(Seq(STRING))
  BY <1>1 DEF TextInv, TextType
<1> HIDE DEF d
<1>4. /\ cs \in Seq(Seq(STRING)) /\ cr \in Seq(STRING)
      /\ NonBlank(FlattenSeq(cs) \o cr) = NonBlank(buf \o d)
  BY <1>3, PushKeepsText
<1> HIDE DEF c, cs, cr
<1>5. NonBlank(FlattenSeq(spoken) \o buf) = NonBlank(text)
  <2>1. spoken \o <<>> = spoken
    BY <1>3
  <2> QED BY <1>2, <2>1 DEF TextInv
<1>6. NonBlank(FlattenSeq(spoken \o cs) \o cr) = NonBlank(text) \o NonBlank(d)
  <2>1. NonBlank(FlattenSeq(spoken \o cs) \o cr)
          = NonBlank(FlattenSeq(spoken) \o buf) \o NonBlank(d)
    BY ONLY <1>3, <1>4, MoveKeepsText
  <2> QED BY <1>5, <2>1
<1>7. NonBlank(text \o d) = NonBlank(text) \o NonBlank(d)
  BY <1>3, NonBlankConcat
<1>8. text \o d \in Seq(STRING)
  BY <1>3
<1>9. Nothing.kind # "delta"
  BY DEF Nothing, Chunk
<1>10. TextType'
  BY <1>1, <1>3, <1>4, <1>8, <1>9 DEF TextType
<1>11. (NonBlank(FlattenSeq(spoken \o todo) \o buf) = NonBlank(text))'
  BY <1>1, <1>6, <1>7
<1> QED BY <1>1, <1>2, <1>10, <1>11 DEF TextInv

\* The end of the stream flushes the buffer.
LEMMA TextReceiveEnd ==
  ASSUME TextInv, ReceiveEnd
  PROVE  TextInv'
<1> DEFINE c == Flush(buf)
           cs == c.chunks
           cr == c.rest
<1>1. /\ last' = TRUE /\ buf' = cr /\ todo' = cs
      /\ text' = text /\ spoken' = spoken
  BY DEF ReceiveEnd, LeaveLoop
<1>2. todo = <<>> /\ ~last
  BY DEF ReceiveEnd, Receiving
<1>3. /\ text \in Seq(STRING) /\ buf \in Seq(STRING)
      /\ spoken \in Seq(Seq(STRING))
  BY DEF TextInv, TextType
<1>4. /\ cs \in Seq(Seq(STRING)) /\ cr \in Seq(STRING)
      /\ NonBlank(FlattenSeq(cs) \o cr) = NonBlank(buf)
      /\ NonBlank(cr) = <<>>
  BY <1>3, FlushKeepsText
<1> HIDE DEF c, cs, cr
<1>5. NonBlank(FlattenSeq(spoken) \o buf) = NonBlank(text)
  <2>1. spoken \o <<>> = spoken
    BY <1>3
  <2> QED BY <1>2, <2>1 DEF TextInv
<1> DEFINE e == <<>>
<1>6. e \in Seq(STRING) /\ buf \o e = buf /\ NonBlank(e) = <<>>
  <2>1. <<>> \in Seq(STRING) /\ \A i \in 1 .. Len(<<>>) : <<>>[i] = Blank
    BY ShortSeqs
  <2>2. NonBlank(<<>>) = <<>>
    BY <2>1, NonBlankOfBlanks
  <2> QED BY <1>3, <2>1, <2>2
<1>7. NonBlank(FlattenSeq(cs) \o cr) = NonBlank(buf \o e)
  BY <1>4, <1>6
<1>8. NonBlank(text) \in Seq(STRING)
  BY <1>3, NonBlankConcat
<1>9. NonBlank(text) \o <<>> = NonBlank(text)
  BY <1>8
<1> HIDE DEF e
<1>10. NonBlank(FlattenSeq(spoken \o cs) \o cr)
         = NonBlank(FlattenSeq(spoken) \o buf) \o NonBlank(e)
  <2>1. ASSUME NEW d \in Seq(STRING),
               NonBlank(FlattenSeq(cs) \o cr) = NonBlank(buf \o d)
        PROVE  NonBlank(FlattenSeq(spoken \o cs) \o cr)
                 = NonBlank(FlattenSeq(spoken) \o buf) \o NonBlank(d)
    BY ONLY <1>3, <1>4, <2>1, MoveKeepsText
  <2> QED BY <1>6, <1>7, <2>1
<1>11. NonBlank(FlattenSeq(spoken \o cs) \o cr) = NonBlank(text)
  BY <1>5, <1>6, <1>9, <1>10
<1>12. TextType'
  <2>1. /\ llmChunk' = llmChunk \/ llmChunk' = Nothing
        /\ Nothing.kind # "delta"
    BY DEF ReceiveEnd, LlmTaken, llmVars, Nothing, Chunk
  <2> QED BY <1>1, <1>3, <1>4, <2>1 DEF TextInv, TextType
<1>13. (NonBlank(FlattenSeq(spoken \o todo) \o buf) = NonBlank(text))'
  BY <1>1, <1>11
<1> QED BY <1>1, <1>4, <1>12, <1>13 DEF TextInv

\* A phrase is handed to the speech service, or skipped.
LEMMA TextSpoken ==
  ASSUME TextInv, todo # <<>>,
         todo' = Tail(todo), spoken' = Append(spoken, Head(todo)),
         UNCHANGED <<text, buf, last, llmChunk>>
  PROVE  TextInv'
<1>1. /\ text \in Seq(STRING) /\ buf \in Seq(STRING)
      /\ todo \in Seq(Seq(STRING)) /\ spoken \in Seq(Seq(STRING))
  BY DEF TextInv, TextType
<1>2. Append(spoken, Head(todo)) \in Seq(Seq(STRING))
      /\ Tail(todo) \in Seq(Seq(STRING))
      /\ Append(spoken, Head(todo)) \o Tail(todo) = spoken \o todo
  BY <1>1, MoveHead
<1>4. TextType'
  BY <1>1, <1>2 DEF TextInv, TextType
<1>5. (NonBlank(FlattenSeq(spoken \o todo) \o buf) = NonBlank(text))'
  BY <1>2 DEF TextInv
<1> QED BY <1>4, <1>5 DEF TextInv

\* The inductive invariant of the text: what is not blank of the phrases and of
\* the buffer is what is not blank of the text (runResponse, push, flush).
THEOREM TextInductive == Spec => []TextInv
<1>1. Init => TextInv
  <2> SUFFICES ASSUME Init PROVE TextInv
    OBVIOUS
  <2>1. <<>> \in Seq(STRING) /\ <<>> \in Seq(Seq(STRING))
    BY ShortSeqs
  <2>2. <<>> \o <<>> = <<>>
    OBVIOUS
  <2>3. FlattenSeq(spoken \o todo) \o buf = <<>>
    BY <2>2, FlattenEmpty DEF Init
  <2>4. llmChunk.kind # "delta"
    BY DEF Init, Nothing, Chunk
  <2> QED BY <2>1, <2>3, <2>4 DEF Init, TextInv, TextType
<1>2. TextInv /\ [Next]_vars => TextInv'
  <2> SUFFICES ASSUME TextInv, [Next]_vars PROVE TextInv'
    OBVIOUS
  <2> DEFINE Still ==
        /\ UNCHANGED <<text, buf, todo, last, spoken>>
        /\ \/ llmChunk' = llmChunk
           \/ llmChunk'.kind # "delta"
           \/ llmChunk'.data \in Seq(STRING)
  <2>1. Still => TextInv'
    BY TextQuiet
  <2>2. Nothing.kind # "delta"
    BY DEF Nothing, Chunk
  <2>3. CASE Start BY <2>1, <2>3 DEF Start, textVars
  <2>4. CASE StartFails
    BY <2>1, <2>4 DEF StartFails, Return, textVars, llmVars
  <2>5. CASE ReceiveDelta
    BY <2>5, TextReceiveDelta, ChunkerConstants
  <2>6. CASE ReceiveEnd BY <2>6, TextReceiveEnd
  <2>7. CASE ReceiveErrorCancelled
    BY <2>1, <2>2, <2>7 DEF ReceiveErrorCancelled, Return, LlmTaken, textVars
  <2>8. CASE WaitForPlayout
    BY <2>1, <2>8 DEF WaitForPlayout, Return, textVars, llmVars
  <2>9. CASE Synthesize
    BY <2>9, TextSpoken DEF Synthesize, llmVars
  <2>10. CASE SynthesizeFails
    <3>1. CASE ctxDone
      BY <2>1, <2>10, <3>1 DEF SynthesizeFails, Return, textVars, llmVars
    <3>2. CASE ~ctxDone
      BY <2>10, <3>2, TextSpoken DEF SynthesizeFails, llmVars
    <3> QED BY <3>1, <3>2
  <2>11. CASE ListenSamples
    BY <2>1, <2>11 DEF ListenSamples, textVars, llmVars
  <2>12. CASE ListenEnd BY <2>1, <2>12 DEF ListenEnd, textVars, llmVars
  <2>13. CASE ListenErrorCancelled
    BY <2>1, <2>13 DEF ListenErrorCancelled, Return, textVars, llmVars
  <2>14. CASE QueueFirst BY <2>1, <2>14 DEF QueueFirst, textVars, llmVars
  <2>15. CASE QueueNext BY <2>1, <2>15 DEF QueueNext, textVars, llmVars
  <2>16. CASE Queued BY <2>1, <2>16 DEF Queued, textVars, llmVars
  <2>17. CASE FlushFrame BY <2>1, <2>17 DEF FlushFrame, textVars, llmVars
  <2>18. CASE SendFails
    BY <2>1, <2>18 DEF SendFails, Return, textVars, llmVars
  <2>19. CASE Llm
    <3>1. ASSUME NEW d \in Deltas, LlmDelta(d) PROVE TextInv'
      <4>1. llmChunk'.data \in Seq(STRING)
        BY <3>1, ReplyConstants DEF LlmDelta, LlmOffers, Chunk
      <4> QED BY <2>1, <3>1, <4>1 DEF LlmDelta, LlmOffers, textVars
    <3>2. CASE LlmDone \/ LlmGarbled \/ LlmReadError
      BY <2>1, <3>2
         DEF LlmDone, LlmGarbled, LlmReadError, LlmOffers, Chunk, textVars
    <3>3. CASE LlmCancelled
      BY <2>1, <2>2, <3>3 DEF LlmCancelled, textVars
    <3> QED BY <2>19, <3>1, <3>2, <3>3 DEF Llm
  <2>20. CASE Tts
    <3>1. ASSUME NEW n \in ByteCounts, TtsAudio(n) PROVE TextInv'
      BY <2>1, <3>1 DEF TtsAudio, textVars, llmVars
    <3>2. ASSUME NEW kind \in {"done", "err"}, TtsEnds(kind) PROVE TextInv'
      BY <2>1, <3>2 DEF TtsEnds, textVars, llmVars
    <3>3. CASE TtsCancelled
      BY <2>1, <3>3 DEF TtsCancelled, textVars, llmVars
    <3> QED BY <2>20, <3>1, <3>2, <3>3 DEF Tts
  <2>21. CASE Cancel BY <2>1, <2>21 DEF Cancel, textVars, llmVars
  <2>22. CASE UNCHANGED vars BY <2>1, <2>22 DEF vars, textVars, llmVars
  <2> QED
    BY <2>3, <2>4, <2>5, <2>6, <2>7, <2>8, <2>9, <2>10, <2>11, <2>12, <2>13,
       <2>14, <2>15, <2>16, <2>17, <2>18, <2>19, <2>20, <2>21, <2>22
       DEF Next, Worker
<1> QED BY <1>1, <1>2, PTL DEF Spec

\* However the stream is cut, no character that is not blank is lost, repeated
\* or moved on its way to the speech service; and a reply that completed was
\* handed to it whole.
THEOREM NothingIsLost == Spec => []TextConserved
<1>1. TextInv /\ FlowInv => TextConserved
  <2> SUFFICES ASSUME TextInv, FlowInv PROVE TextConserved
    OBVIOUS
  <2>1. NonBlank(FlattenSeq(spoken \o todo) \o buf) = NonBlank(text)
    BY DEF TextInv
  <2>2. ASSUME completed PROVE NonBlank(FlattenSeq(spoken)) = NonBlank(text)
    <3>1. todo = <<>> /\ NonBlank(buf) = <<>>
      BY <2>2 DEF FlowInv, TextInv
    <3>2. spoken \in Seq(Seq(STRING)) /\ buf \in Seq(STRING)
      BY DEF TextInv, TextType
    <3>3. spoken \o todo = spoken
      BY <3>1, <3>2
    <3> DEFINE s == FlattenSeq(spoken)
    <3>4. s \in Seq(STRING)
      BY <3>2, FlattenType
    <3>5. NonBlank(s \o buf) = NonBlank(text)
      BY <2>1, <3>3
    <3> HIDE DEF s
    <3>6. /\ NonBlank(s \o buf) = NonBlank(s) \o NonBlank(buf)
          /\ NonBlank(s) \in Seq(STRING)
      BY <3>2, <3>4, NonBlankConcat
    <3>7. NonBlank(s) \o <<>> = NonBlank(s)
      BY <3>6
    <3> QED BY <3>1, <3>5, <3>6, <3>7 DEF s
  <2> QED BY <2>1, <2>2 DEF TextConserved
<1> QED BY <1>1, TextInductive, FlowInductive, PTL

-----------------------------------------------------------------------------
(* Part 7: where sentences end.                                            *)

\* The classes of characters are apart.
LEMMA Classes ==
  /\ Blank \notin Terminators /\ Blank \notin Closing /\ Blank # "."
  /\ "." \in Terminators
  /\ \A c \in Closing : c \notin Terminators
BY DEF Blank, Terminators, Closing

\* A sentence of t: its terminators at a .. b, the closing characters that
\* follow up to e, and a blank.
SentenceAt(t, a, b, e) ==
  /\ e \in 1 .. Len(t) - 1 /\ a \in 1 .. e /\ b \in a .. e
  /\ t[e + 1] = Blank
  /\ \A k \in a .. b : t[k] \in Terminators
  /\ a > 1 => t[a - 1] \notin Terminators
  /\ \A k \in b + 1 .. e : t[k] \in Closing
  /\ a < b => \E k \in a .. b : t[k] # "."
  /\ a = b /\ t[a] = "." => ~IsAbbreviation(t, a)

\* The ends of such sentences are those of the property.
LEMMA SentenceEndsAre ==
  ASSUME NEW t, Len(t) \in Nat
  PROVE  \A e : e \in SentenceEnds(t) <=> \E a, b : SentenceAt(t, a, b, e)
<1> SUFFICES ASSUME NEW e
             PROVE  e \in SentenceEnds(t) <=> \E a, b : SentenceAt(t, a, b, e)
  OBVIOUS
<1>1. ASSUME e \in SentenceEnds(t) PROVE \E a, b : SentenceAt(t, a, b, e)
  <2>1. e \in 1 .. Len(t) - 1 /\ t[e + 1] = Blank
    BY <1>1 DEF SentenceEnds
  <2>2. PICK a \in 1 .. e, b \in 1 .. e :
          /\ a <= b
          /\ \A k \in a .. b : t[k] \in Terminators
          /\ a > 1 => t[a - 1] \notin Terminators
          /\ \A k \in b + 1 .. e : t[k] \in Closing
          /\ a < b => \E k \in a .. b : t[k] # "."
          /\ a = b /\ t[a] = "." => ~IsAbbreviation(t, a)
    BY <1>1 DEF SentenceEnds
  <2>3. b \in a .. e
    BY <2>1, <2>2
  <2> QED BY <2>1, <2>2, <2>3 DEF SentenceAt
<1>2. ASSUME NEW a, NEW b, SentenceAt(t, a, b, e) PROVE e \in SentenceEnds(t)
  <2>1. e \in 1 .. Len(t) - 1 /\ a \in 1 .. e /\ b \in 1 .. e /\ a <= b
    BY <1>2 DEF SentenceAt
  <2> QED BY <1>2, <2>1 DEF SentenceAt, SentenceEnds
<1> QED BY <1>1, <1>2

\* Where the scan of splitSentences takes a sentence from i on to end, and the
\* positions it never comes to.
EndAt(t, i) == EndOfRun(t, EndOfRun(t, i, Terminators), Closing) - 1
Inside(t, i) ==
  i > 1 /\ i <= Len(t) /\ t[i - 1] \in Terminators /\ t[i] \in Terminators
Opens(t, a) == a <= Len(t) /\ ~Inside(t, a) /\ EndsSentence(t, FALSE, a)

\* What the scan takes for the end of a sentence is one ...
LEMMA ScanIsRight ==
  ASSUME NEW t, Len(t) \in Nat, NEW a \in 1 .. Len(t), Opens(t, a)
  PROVE  \E b : SentenceAt(t, a, b, EndAt(t, a))
<1> DEFINE j == EndOfRun(t, a, Terminators)
           end == EndOfRun(t, j, Closing)
           b == j - 1
           e == end - 1
<1>1. /\ RunEnds(t, a, Terminators, j) /\ j \in a .. Len(t) + 1
      /\ RunEnds(t, j, Closing, end) /\ end \in j .. Len(t) + 1
  BY RunsAt
<1>2. /\ j > a /\ ~IsEllipsis(t, a, j)
      /\ end <= Len(t) /\ t[end] = Blank
      /\ ~(j - a = 1 /\ t[a] = "." /\ IsAbbreviation(t, a))
  BY <1>1 DEF EndsSentence, Opens
<1>3. ~Inside(t, a)
  BY DEF Opens
<1> HIDE DEF j, end
<1>4. /\ e \in 1 .. Len(t) - 1 /\ a \in 1 .. e /\ b \in a .. e
      /\ e + 1 = end /\ b + 1 = j /\ j \in Int /\ end \in Int
  BY <1>1, <1>2
<1>5. \A k \in a .. b : t[k] \in Terminators
  BY <1>1 DEF RunEnds
<1>6. a > 1 => t[a - 1] \notin Terminators
  <2>1. t[a] \in Terminators
    BY <1>4, <1>5
  <2> QED BY <1>3, <2>1 DEF Inside
<1>7. \A k \in b + 1 .. e : t[k] \in Closing
  BY <1>1, <1>4 DEF RunEnds
<1>8. a < b => \E k \in a .. b : t[k] # "."
  BY <1>2, <1>4 DEF IsEllipsis
<1>9. a = b /\ t[a] = "." => ~IsAbbreviation(t, a)
  BY <1>2, <1>4
<1>10. EndAt(t, a) = e
  BY DEF EndAt, e, end, j
<1> HIDE DEF b, e
<1>11. t[e + 1] = Blank
  BY <1>2, <1>4
<1> QED BY <1>4, <1>5, <1>6, <1>7, <1>8, <1>9, <1>10, <1>11 DEF SentenceAt

\* ... and every one that there is it can find.
LEMMA ScanIsComplete ==
  ASSUME NEW t, Len(t) \in Nat, NEW a, NEW b, NEW e, SentenceAt(t, a, b, e)
  PROVE  a \in 1 .. Len(t) /\ Opens(t, a) /\ EndAt(t, a) = e
<1> DEFINE j == EndOfRun(t, a, Terminators)
           end == EndOfRun(t, j, Closing)
<1>1. /\ e \in 1 .. Len(t) - 1 /\ a \in 1 .. e /\ b \in a .. e
      /\ t[e + 1] = Blank
      /\ \A k \in a .. b : t[k] \in Terminators
      /\ a > 1 => t[a - 1] \notin Terminators
      /\ \A k \in b + 1 .. e : t[k] \in Closing
      /\ a < b => \E k \in a .. b : t[k] # "."
      /\ a = b /\ t[a] = "." => ~IsAbbreviation(t, a)
  BY DEF SentenceAt
<1>2. a \in 1 .. Len(t) /\ a \in 1 .. Len(t) + 1 /\ b + 1 \in a .. Len(t) + 1
      /\ b + 1 \in 1 .. Len(t) + 1 /\ e + 1 \in b + 1 .. Len(t) + 1
  BY <1>1
<1>3. j = b + 1
  <2>1. t[b + 1] \notin Terminators
    <3>1. CASE b = e BY <1>1, <3>1, Classes
    <3>2. CASE b # e
      <4>1. b + 1 \in b + 1 .. e
        BY <1>1, <3>2
      <4> QED BY <1>1, <4>1, Classes
    <3> QED BY <3>1, <3>2
  <2>2. RunEnds(t, a, Terminators, b + 1)
    BY <1>1, <1>2, <2>1 DEF RunEnds
  <2> QED BY <1>2, <2>2, EndOfRunIs
<1> HIDE DEF j
<1>4. end = e + 1
  <2>1. RunEnds(t, b + 1, Closing, e + 1)
    BY <1>1, <1>2, Classes DEF RunEnds
  <2> QED BY <1>2, <1>3, <2>1, EndOfRunIs
<1>5. EndAt(t, a) = e
  BY <1>1, <1>4 DEF EndAt, j
<1> HIDE DEF end
<1>6. j > a /\ ~(end > Len(t)) /\ t[end] = Blank
  BY <1>1, <1>3, <1>4
<1>7. ~IsEllipsis(t, a, j)
  BY <1>1, <1>3 DEF IsEllipsis
<1>8. ~(j - a = 1 /\ t[a] = "." /\ IsAbbreviation(t, a))
  BY <1>1, <1>3
<1>9. EndsSentence(t, FALSE, a)
  BY <1>6, <1>7, <1>8 DEF EndsSentence, end, j
<1>10. ~Inside(t, a)
  BY <1>1 DEF Inside
<1>11. Opens(t, a)
  <2>1. a <= Len(t)
    BY <1>2
  <2> QED BY <1>9, <1>10, <2>1, Zenon DEF Opens
<1> QED BY <1>2, <1>5, <1>11

\* From a position it can come to, the scan finds every sentence that begins
\* to end there or later.
LEMMA ScanFinds ==
  ASSUME NEW t, Len(t) \in Nat, NEW f,
         f = [i \in 1 .. Len(t) + 1 |->
                ScanStep(f, EndsNext(t, FALSE), EndsItem(t, FALSE), Len(t), i)]
  PROVE  \A i \in 1 .. Len(t) + 1 :
           ~Inside(t, i) =>
             ToSet(f[i])
               = {EndAt(t, a) : a \in {x \in i .. Len(t) : Opens(t, x)}}
<1> DEFINE N == Len(t)
           nx == EndsNext(t, FALSE)
           it == EndsItem(t, FALSE)
           Open(i) == {x \in i .. N : Opens(t, x)}
           Ends(i) == {EndAt(t, a) : a \in Open(i)}
           S == {i \in 1 .. N + 1 : ~Inside(t, i) => ToSet(f[i]) = Ends(i)}
<1>1. Stepping(nx, it, N)
  BY EndsScan
<1>2. /\ f[N + 1] = <<>>
      /\ \A i \in 1 .. N : nx[i] \in i + 1 .. N + 1 /\ f[i] = it[i] \o f[nx[i]]
      /\ \A i \in 1 .. N + 1 : Ascending(f[i], N)
  <2>1. f = [i \in 1 .. N + 1 |-> ScanStep(f, nx, it, N, i)]
    OBVIOUS
  <2> HIDE DEF nx, it, N
  <2>2. \A i \in 1 .. N + 1 : Ascending(f[i], N)
    BY <1>1, <2>1, ScanYields
  <2>3. ASSUME NEW i \in 1 .. N
        PROVE  nx[i] \in i + 1 .. N + 1 /\ f[i] = it[i] \o f[nx[i]]
    <3>1. nx[i] \in 1 .. N + 1 /\ nx[i] > i /\ N \in Nat
      BY <1>1 DEF Stepping
    <3>2. nx[i] \in i + 1 .. N + 1 /\ i \in 1 .. N + 1 /\ i # N + 1
      BY <3>1
    <3>3. f[i] = ScanStep(f, nx, it, N, i)
      BY <2>1, <3>2
    <3>4. f[nx[i]] \in Seq(1 .. N)
      <4>1. Ascending(f[nx[i]], N)
        BY <2>2, <3>1
      <4> QED BY <4>1 DEF Ascending
    <3>5. <<>> \o f[nx[i]] = f[nx[i]]
      BY <3>4
    <3>6. f[i] = IF it[i] = <<>> THEN f[nx[i]] ELSE it[i] \o f[nx[i]]
      BY <3>2, <3>3, Zenon DEF ScanStep
    <3> QED BY <3>2, <3>5, <3>6, Zenon
  <2>4. f[N + 1] = <<>>
    <3>1. N + 1 \in 1 .. N + 1
      BY DEF N
    <3>2. \A i \in 1 .. N + 1 : f[i] = ScanStep(f, nx, it, N, i)
      BY <2>1
    <3> QED BY <3>1, <3>2 DEF ScanStep
  <2> QED BY <2>2, <2>3, <2>4
<1>3. N + 1 \in S
  <2>1. ToSet(f[N + 1]) = {}
    <3>1. ToSet(<<>>) = {}
      BY DEF ToSet
    <3>2. f[N + 1] = <<>>
      BY <1>2
    <3> QED BY <3>1, <3>2
  <2>2. Open(N + 1) = {}
    OBVIOUS
  <2> HIDE DEF Open
  <2>3. Ends(N + 1) = {}
    BY <2>2
  <2>4. N + 1 \in 1 .. N + 1
    OBVIOUS
  <2> HIDE DEF Ends
  <2> QED BY <2>1, <2>3, <2>4
<1>4. ASSUME NEW i \in 1 .. N, \A l \in i + 1 .. N + 1 : l \in S
      PROVE  i \in S
  <2> SUFFICES ASSUME ~Inside(t, i) PROVE ToSet(f[i]) = Ends(i)
    <3> HIDE DEF Ends
    <3>1. i \in 1 .. N + 1
      OBVIOUS
    <3> QED BY <3>1
  <2> DEFINE j == EndOfRun(t, i, Terminators)
             end == EndOfRun(t, j, Closing)
  <2>1. /\ RunEnds(t, i, Terminators, j) /\ j \in i .. N + 1
        /\ RunEnds(t, j, Closing, end) /\ end \in j .. N + 1
    BY RunsAt
  <2>2. /\ \A k \in i .. j - 1 : t[k] \in Terminators
        /\ j = N + 1 \/ t[j] \notin Terminators
        /\ \A k \in j .. end - 1 : t[k] \in Closing
    BY <2>1 DEF RunEnds
  <2>3. ASSUME NEW k \in i + 1 .. j - 1 PROVE ~Opens(t, k)
    <3>1. k \in i .. j - 1 /\ k - 1 \in i .. j - 1 /\ k > 1 /\ k <= Len(t)
      BY <2>1
    <3> QED BY <2>2, <3>1 DEF Opens, Inside
  <2>4. ASSUME NEW k \in 1 .. N, t[k] \notin Terminators PROVE ~Opens(t, k)
    <3> SUFFICES ASSUME Opens(t, k) PROVE FALSE
      OBVIOUS
    <3>1. PICK b : SentenceAt(t, k, b, EndAt(t, k))
      BY ScanIsRight
    <3>2. k \in k .. b
      BY <3>1 DEF SentenceAt
    <3> QED BY <2>4, <3>1, <3>2 DEF SentenceAt
  <2>5. ASSUME NEW l \in i + 1 .. N + 1, nx[i] = l, ~Inside(t, l),
               \A k \in i + 1 .. l - 1 : ~Opens(t, k)
        PROVE  /\ ToSet(f[l]) = Ends(l)
               /\ f[i] = it[i] \o f[l]
               /\ Open(i) = Open(l) \cup (IF Opens(t, i) THEN {i} ELSE {})
    <3>1. ToSet(f[l]) = Ends(l)
      BY <1>4, <2>5
    <3>2. f[i] = it[i] \o f[l]
      BY <1>2, <2>5
    <3>3. ASSUME NEW x
          PROVE  x \in Open(i)
                   <=> x \in Open(l) \cup (IF Opens(t, i) THEN {i} ELSE {})
      <4>1. x \in i .. N <=> x = i \/ x \in i + 1 .. l - 1 \/ x \in l .. N
        BY <2>5
      <4> QED BY <2>5, <4>1
    <3> HIDE DEF Open
    <3> QED BY <3>1, <3>2, <3>3
  <2>6. CASE EndsSentence(t, FALSE, i)
    <3>1. Opens(t, i) /\ j > i
      BY <2>6 DEF Opens, EndsSentence
    <3>2. nx[i] = end /\ it[i] = <<end - 1>> /\ EndAt(t, i) = end - 1
      BY <2>6 DEF EndsNext, EndsItem, EndAt
    <3>3. end <= N /\ t[end] = Blank
      BY <2>1, <2>6 DEF EndsSentence
    <3> HIDE DEF j, end, nx, it, Open
    <3>4. ~Inside(t, end)
      BY <3>3, Classes DEF Inside
    <3>5. ASSUME NEW k \in i + 1 .. end - 1 PROVE ~Opens(t, k)
      <4>1. CASE k <= j - 1
        <5>1. k \in i + 1 .. j - 1
          BY <2>1, <4>1
        <5> QED BY <2>3, <5>1
      <4>2. CASE ~(k <= j - 1)
        <5>1. k \in j .. end - 1 /\ k \in 1 .. N
          BY <2>1, <4>2
        <5> QED BY <2>2, <2>4, <5>1, Classes
      <4> QED BY <4>1, <4>2
    <3>6. end \in i + 1 .. N + 1
      BY <2>1, <3>1
    <3>7. /\ ToSet(f[end]) = Ends(end) /\ f[i] = <<end - 1>> \o f[end]
          /\ Open(i) = Open(end) \cup {i}
      BY <2>5, <3>1, <3>2, <3>4, <3>5, <3>6
    <3>8. Ends(i) = Ends(end) \cup {end - 1}
      BY <3>2, <3>7
    <3>9. ToSet(<<end - 1>> \o f[end])
            = ToSet(<<end - 1>>) \cup ToSet(f[end])
      <4>1. f[end] \in Seq(1 .. N)
        <5>1. end \in 1 .. N + 1
          BY <3>6
        <5>2. Ascending(f[end], N)
          BY <1>2, <5>1
        <5> QED BY <5>2 DEF Ascending
      <4>2. end - 1 \in 1 .. N
        BY <3>3, <3>6
      <4> DEFINE one == <<end - 1>>
                 more == f[end]
      <4>3. one \in Seq(1 .. N) /\ more \in Seq(1 .. N)
        BY <4>1, <4>2, ShortSeqs
      <4> HIDE DEF one, more
      <4>4. ToSet(one \o more) = ToSet(one) \cup ToSet(more)
        BY ONLY <4>3, ConcatElements
      <4> QED BY <4>4 DEF one, more
    <3>10. ToSet(<<end - 1>>) = {end - 1}
      BY DEF ToSet
    <3> HIDE DEF Ends
    <3> QED BY <3>7, <3>8, <3>9, <3>10
  <2>7. CASE ~EndsSentence(t, FALSE, i)
    <3> DEFINE l == IF j > i THEN j ELSE i + 1
    <3>1. nx[i] = l /\ it[i] = <<>> /\ ~Opens(t, i)
      BY <2>7 DEF EndsNext, EndsItem, Opens
    <3> HIDE DEF j, nx, it, Open
    <3>2. l \in i + 1 .. N + 1
      BY <2>1
    <3>3. ~Inside(t, l)
      <4>1. CASE j > i
        BY <2>1, <2>2, <4>1 DEF Inside
      <4>2. CASE ~(j > i)
        <5>1. j = i /\ j # N + 1
          BY <2>1, <4>2
        <5>2. t[i] \notin Terminators /\ l = i + 1 /\ l - 1 = i
          BY <2>2, <5>1
        <5> QED BY <5>2 DEF Inside
      <4> QED BY <4>1, <4>2
    <3>4. ASSUME NEW k \in i + 1 .. l - 1 PROVE ~Opens(t, k)
      <4>1. k \in i + 1 .. j - 1
        BY <2>1
      <4> QED BY <2>3, <4>1
    <3> HIDE DEF l
    <3>5. /\ ToSet(f[l]) = Ends(l) /\ f[i] = <<>> \o f[l]
          /\ Open(i) = Open(l)
      BY <2>5, <3>1, <3>2, <3>3, <3>4
    <3>6. f[l] \in Seq(1 .. N)
      <4>1. l \in 1 .. N + 1
        BY <3>2
      <4>2. Ascending(f[l], N)
        BY <1>2, <4>1
      <4> QED BY <4>2 DEF Ascending
    <3>7. <<>> \o f[l] = f[l]
      BY <3>6
    <3> QED BY <3>5, <3>7
  <2> QED BY <2>6, <2>7
<1> HIDE DEF S
<1>5. 1 .. N + 1 \subseteq S
  BY <1>3, <1>4, DownwardInduction
<1> QED BY <1>5 DEF S

\* Where push cuts a text that may still grow.
EndsOf(t) == EndsFound(t, FALSE)

\* It finds where the sentences end, in order: all of them, and nothing else
\* (splitSentences).
LEMMA EndsAreSentenceEnds ==
  ASSUME NEW t \in Seq(STRING)
  PROVE  /\ Ascending(EndsOf(t), Len(t))
         /\ ToSet(EndsOf(t)) = SentenceEnds(t)
<1>1. Len(t) \in Nat
  OBVIOUS
<1>2. PICK f : /\ f = [i \in 1 .. Len(t) + 1 |->
                         ScanStep(f, EndsNext(t, FALSE), EndsItem(t, FALSE),
                                  Len(t), i)]
               /\ EndsFound(t, FALSE) = f[1]
  BY <1>1, EndsScan
<1>3. ToSet(f[1])
        = {EndAt(t, a) : a \in {x \in 1 .. Len(t) : Opens(t, x)}}
  <2>1. 1 \in 1 .. Len(t) + 1 /\ ~Inside(t, 1)
    BY <1>1 DEF Inside
  <2>2. \A i \in 1 .. Len(t) + 1 :
           ~Inside(t, i) =>
             ToSet(f[i])
               = {EndAt(t, a) : a \in {x \in i .. Len(t) : Opens(t, x)}}
    BY <1>1, <1>2, ScanFinds
  <2> QED BY <2>1, <2>2
<1>4. ASSUME NEW e
      PROVE  e \in {EndAt(t, a) : a \in {x \in 1 .. Len(t) : Opens(t, x)}}
               <=> e \in SentenceEnds(t)
  <2>1. ASSUME NEW a \in 1 .. Len(t), Opens(t, a), e = EndAt(t, a)
        PROVE  e \in SentenceEnds(t)
    BY <1>1, <2>1, ScanIsRight, SentenceEndsAre
  <2>2. ASSUME e \in SentenceEnds(t)
        PROVE  \E a \in 1 .. Len(t) : Opens(t, a) /\ e = EndAt(t, a)
    <3>1. PICK a, b : SentenceAt(t, a, b, e)
      BY <1>1, <2>2, SentenceEndsAre
    <3> QED BY <1>1, <3>1, ScanIsComplete
  <2> QED BY <2>1, <2>2
<1>5. Ascending(EndsFound(t, FALSE), Len(t))
  BY SplitKeepsText
<1>6. ToSet(f[1]) = SentenceEnds(t)
  BY <1>3, <1>4
<1> QED BY <1>2, <1>5, <1>6, Zenon DEF EndsOf

-----------------------------------------------------------------------------
(* Part 8: a text that grows.                                              *)

\* t and u agree on the positions lo .. hi of t, which are d further on in u;
\* and nothing before lo matters: it is the first position of both, or what
\* is there is blank.
Window(t, u, d, lo, hi) ==
  /\ t \in Seq(STRING) /\ u \in Seq(STRING)
  /\ d \in Int /\ lo \in Nat /\ hi \in Nat
  /\ lo >= 1 /\ lo + d >= 1 /\ hi <= Len(t) /\ hi + d <= Len(u)
  /\ \A k \in lo .. hi : t[k] = u[k + d]
  /\ (lo = 1 /\ d = 0) \/ (lo <= hi /\ t[lo] = Blank)

\* Whether a word is an abbreviation can be seen from a window.
LEMMA SameAbbreviation ==
  ASSUME NEW t, NEW u, NEW d, NEW lo, NEW hi, Window(t, u, d, lo, hi),
         NEW a \in lo .. hi, (lo = 1 /\ d = 0) \/ (a > lo /\ t[lo] = Blank)
  PROVE  IsAbbreviation(t, a) <=> IsAbbreviation(u, a + d)
<1> DEFINE C == Letters \cup {"."}
           s == StartOfRun(t, a - 1, C)
           v == StartOfRun(u, (a + d) - 1, C)
<1>1. /\ t \in Seq(STRING) /\ u \in Seq(STRING) /\ d \in Int
      /\ lo \in Nat /\ hi \in Nat /\ lo >= 1 /\ lo + d >= 1
      /\ Len(t) \in Nat /\ Len(u) \in Nat
      /\ hi <= Len(t) /\ hi + d <= Len(u)
      /\ \A k \in lo .. hi : t[k] = u[k + d]
  BY DEF Window
<1>2. a - 1 \in Nat /\ (a + d) - 1 \in Nat /\ (a + d) - 1 = (a - 1) + d
  BY <1>1
<1>3. Blank \notin C
  BY ChunkerConstants, Classes
<1>4. RunStarts(t, a - 1, C, s)
  BY <1>2, StartOfRunIs
<1> HIDE DEF C, s, v
<1>5. /\ s \in 1 .. a /\ (s = 1 \/ t[s - 1] \notin C)
      /\ \A l \in s .. a - 1 : t[l] \in C
  BY <1>1, <1>4 DEF RunStarts
<1>6. (lo = 1 /\ d = 0) \/ s > lo
  <2> SUFFICES ASSUME a > lo, t[lo] = Blank, ~(s > lo) PROVE FALSE
    BY <1>5
  <2>1. lo \in s .. a - 1
    BY <1>1, <1>5
  <2> QED BY <1>3, <1>5, <2>1
<1>7. s >= lo /\ s + d >= 1
  BY <1>1, <1>5, <1>6
<1>8. \A l \in s + d .. (a + d) - 1 : u[l] \in C
  <2> SUFFICES ASSUME NEW l \in s + d .. (a + d) - 1 PROVE u[l] \in C
    OBVIOUS
  <2>1. l - d \in s .. a - 1 /\ l - d \in lo .. hi /\ (l - d) + d = l
    BY <1>1, <1>5, <1>7
  <2> QED BY <1>1, <1>5, <2>1
<1>9. s + d = 1 \/ u[(s + d) - 1] \notin C
  <2>1. CASE s = 1
    BY <1>1, <1>6, <2>1
  <2>2. CASE s # 1
    <3>1. s - 1 \in lo .. hi /\ (s - 1) + d = (s + d) - 1
      BY <1>1, <1>5, <1>6, <2>2
    <3> QED BY <1>1, <1>5, <2>2, <3>1
  <2> QED BY <2>1, <2>2
<1>10. RunStarts(u, (a + d) - 1, C, s + d)
  <2>1. s + d \in 1 .. ((a + d) - 1) + 1
    BY <1>1, <1>5, <1>7
  <2> QED BY <1>8, <1>9, <2>1 DEF RunStarts
<1>11. v = s + d
  BY <1>2, <1>10, StartOfRunIs DEF v
<1>12. SubSeq(t, s, a - 1) = SubSeq(u, s + d, (a - 1) + d)
  <2>1. /\ s \in Int /\ a - 1 \in Int /\ 1 <= s /\ a - 1 <= Len(t)
        /\ 1 <= s + d /\ (a - 1) + d <= Len(u)
    BY <1>1, <1>5, <1>7
  <2>2. \A i \in s .. a - 1 : i \in lo .. hi
    BY <1>1, <1>5, <1>7
  <2>3. \A i \in s .. a - 1 : t[i] = u[i + d]
    BY <1>1, <2>2
  <2> QED BY <1>1, <2>1, <2>3, SameCut
<1>13. SubSeq(t, s, a - 1) = SubSeq(u, v, (a + d) - 1)
  BY <1>2, <1>11, <1>12
<1> QED BY <1>13 DEF IsAbbreviation, s, v, C

\* A sentence can be seen from a window with what follows it.
LEMMA SameSentence ==
  ASSUME NEW t, NEW u, NEW d, NEW lo, NEW hi, Window(t, u, d, lo, hi),
         NEW a, NEW b, NEW e, SentenceAt(t, a, b, e), e >= lo, e + 1 <= hi
  PROVE  SentenceAt(u, a + d, b + d, e + d)
<1>1. /\ t \in Seq(STRING) /\ u \in Seq(STRING) /\ d \in Int
      /\ lo \in Nat /\ hi \in Nat /\ lo >= 1 /\ lo + d >= 1
      /\ Len(t) \in Nat /\ Len(u) \in Nat
      /\ hi <= Len(t) /\ hi + d <= Len(u)
      /\ \A k \in lo .. hi : t[k] = u[k + d]
      /\ (lo = 1 /\ d = 0) \/ (lo <= hi /\ t[lo] = Blank)
  BY DEF Window
<1>2. /\ e \in 1 .. Len(t) - 1 /\ a \in 1 .. e /\ b \in a .. e
      /\ t[e + 1] = Blank
      /\ \A k \in a .. b : t[k] \in Terminators
      /\ a > 1 => t[a - 1] \notin Terminators
      /\ \A k \in b + 1 .. e : t[k] \in Closing
      /\ a < b => \E k \in a .. b : t[k] # "."
      /\ a = b /\ t[a] = "." => ~IsAbbreviation(t, a)
  BY DEF SentenceAt
<1>3. (lo = 1 /\ d = 0) \/ (a > lo /\ t[lo] = Blank)
  <2> SUFFICES ASSUME t[lo] = Blank, ~(a > lo) PROVE FALSE
    BY <1>1
  <2>1. lo \in a .. b \/ lo \in b + 1 .. e
    BY <1>1, <1>2
  <2> QED BY <1>2, <2>1, Classes
<1>4. a \in lo .. hi /\ \A k \in a .. e + 1 : k \in lo .. hi
  BY <1>1, <1>2, <1>3
<1>5. \A k \in a .. e + 1 : t[k] = u[k + d]
  BY <1>1, <1>4
<1>6. IsAbbreviation(t, a) <=> IsAbbreviation(u, a + d)
  BY <1>3, <1>4, SameAbbreviation
<1> DEFINE x == a + d
           y == b + d
           z == e + d
<1>7. /\ z \in 1 .. Len(u) - 1 /\ x \in 1 .. z /\ y \in x .. z
  BY <1>1, <1>2, <1>4
<1>8. u[z + 1] = Blank
  <2>1. e + 1 \in a .. e + 1 /\ (e + 1) + d = z + 1
    BY <1>1, <1>2
  <2> QED BY <1>2, <1>5, <2>1
<1>9. ASSUME NEW k \in x .. y PROVE u[k] \in Terminators
  <2>1. k - d \in a .. b /\ k - d \in a .. e + 1 /\ (k - d) + d = k
    BY <1>1, <1>2
  <2> QED BY <1>2, <1>5, <2>1
<1>10. ASSUME NEW k \in y + 1 .. z PROVE u[k] \in Closing
  <2>1. k - d \in b + 1 .. e /\ k - d \in a .. e + 1 /\ (k - d) + d = k
    BY <1>1, <1>2
  <2> QED BY <1>2, <1>5, <2>1
<1>11. x > 1 => u[x - 1] \notin Terminators
  <2> SUFFICES ASSUME x > 1 PROVE u[x - 1] \notin Terminators
    OBVIOUS
  <2>1. a > 1 /\ a - 1 \in lo .. hi /\ (a - 1) + d = x - 1
    BY <1>1, <1>2, <1>3
  <2> QED BY <1>1, <1>2, <2>1
<1>12. x < y => \E k \in x .. y : u[k] # "."
  <2> SUFFICES ASSUME x < y PROVE \E k \in x .. y : u[k] # "."
    OBVIOUS
  <2>1. a < b
    BY <1>1, <1>2
  <2>2. PICK k \in a .. b : t[k] # "."
    BY <1>2, <2>1
  <2>3. k + d \in x .. y /\ k \in a .. e + 1
    BY <1>1, <1>2
  <2> QED BY <1>5, <2>2, <2>3
<1>13. x = y /\ u[x] = "." => ~IsAbbreviation(u, x)
  <2>1. x = y => a = b
    BY <1>1, <1>2
  <2>2. a \in a .. e + 1
    BY <1>1, <1>2
  <2>3. u[x] = t[a]
    BY <1>5, <2>2
  <2> QED BY <1>2, <1>6, <2>1, <2>3
<1> HIDE DEF x, y, z
<1>14. SentenceAt(u, x, y, z)
  BY <1>7, <1>8, <1>9, <1>10, <1>11, <1>12, <1>13 DEF SentenceAt
<1> QED BY <1>14 DEF x, y, z

\* The last of some ends, and the position 0 if there is none.
LastEnd(ends) == IF ends = <<>> THEN 0 ELSE ends[Len(ends)]

\* The last sentence that has ended: there is a blank after it, and what the
\* buffer keeps begins there.
LEMMA LastSentence ==
  ASSUME NEW t \in Seq(STRING)
  PROVE  LET L == LastEnd(EndsOf(t))
         IN /\ L \in 0 .. Len(t)
            /\ \A e \in SentenceEnds(t) : e <= L
            /\ L # 0 => L + 1 <= Len(t) /\ t[L + 1] = Blank
            /\ Remainder(t, EndsOf(t)) = SubSeq(t, L + 1, Len(t))
<1> DEFINE ends == EndsOf(t)
           L == LastEnd(ends)
           m == Len(ends)
           N == Len(t)
<1>1. Ascending(ends, N) /\ ToSet(ends) = SentenceEnds(t) /\ N \in Nat
  <2>1. N \in Nat
    OBVIOUS
  <2> QED BY <2>1, EndsAreSentenceEnds
<1> HIDE DEF ends, N
<1>2. /\ m \in Nat /\ DOMAIN ends = 1 .. m
      /\ \A i \in 1 .. m : ends[i] \in 1 .. N
      /\ (ends = <<>> <=> m = 0)
  <2>1. ends \in Seq(1 .. N)
    BY <1>1 DEF Ascending
  <2>2. \A i \in 1 .. m : ends[i] \in 1 .. N
    BY <2>1, ElementOfSeq
  <2>3. m \in Nat /\ DOMAIN ends = 1 .. m /\ (ends = <<>> <=> m = 0)
    BY <2>1
  <2> QED BY <2>2, <2>3
<1>3. SentenceEnds(t) = {ends[i] : i \in 1 .. m}
  BY <1>1, <1>2 DEF ToSet
<1>4. Remainder(t, ends) = SubSeq(t, L + 1, Len(t))
  BY <1>2 DEF Remainder, LastEnd
<1>5. CASE m = 0
  <2>1. L = 0
    BY <1>2, <1>5 DEF LastEnd
  <2>2. SentenceEnds(t) = {}
    BY <1>3, <1>5
  <2> QED BY <1>1, <1>4, <2>1, <2>2 DEF ends, N
<1>6. CASE m # 0
  <2>1. m \in 1 .. m /\ L = ends[m] /\ L \in 1 .. N
    BY <1>2, <1>6 DEF LastEnd
  <2> HIDE DEF L
  <2>2. ASSUME NEW i \in 1 .. m PROVE ends[i] <= L
    <3>1. CASE i = m
      BY <2>1, <3>1
    <3>2. CASE i # m
      <4>1. m \in i + 1 .. m /\ i \in 1 .. m
        <5>1. m \in Nat
          BY <1>2
        <5> HIDE DEF m
        <5> QED BY <3>2, <5>1
      <4>2. ends[i] < ends[m]
        BY <1>1, <4>1, AscendingLess
      <4> QED BY <1>2, <2>1, <4>2
    <3> QED BY <3>1, <3>2
  <2>3. L \in SentenceEnds(t)
    BY <1>3, <2>1
  <2>4. L + 1 <= N /\ t[L + 1] = Blank
    BY <2>1, <2>3, <1>1 DEF SentenceEnds, N
  <2>5. \A e \in SentenceEnds(t) : e <= L
    BY <1>3, <2>2
  <2> QED BY <1>4, <2>1, <2>5, <2>4 DEF L, ends, N
<1> QED BY <1>5, <1>6, <1>2

\* What comes after a position of a text that grew.
LEMMA RestOfGrown ==
  ASSUME NEW X, NEW t \in Seq(X), NEW d \in Seq(X), NEW n \in 0 .. Len(t)
  PROVE  /\ t \o d \in Seq(X) /\ Len(t \o d) = Len(t) + Len(d)
         /\ \A k \in 1 .. Len(t) : (t \o d)[k] = t[k]
         /\ SubSeq(t, n + 1, Len(t)) \o d
              = SubSeq(t \o d, n + 1, Len(t \o d))
<1> DEFINE p == SubSeq(t, 1, n)
           q == SubSeq(t, n + 1, Len(t))
<1>1. p \in Seq(X) /\ q \in Seq(X) /\ Len(p) = n /\ p \o q = t
  BY CutConcat
<1>2. /\ t \o d \in Seq(X) /\ Len(t \o d) = Len(t) + Len(d)
      /\ \A k \in 1 .. Len(t) : (t \o d)[k] = t[k]
  <2>1. Len(t) \in Nat /\ Len(d) \in Nat
    OBVIOUS
  <2> QED BY <2>1, ConcatProperties
<1> HIDE DEF p, q
<1> DEFINE w == q \o d
<1>3. w \in Seq(X)
  BY <1>1
<1>4. (p \o q) \o d = p \o w
  <2>1. IsSeq(p, X) /\ IsSeq(q, X) /\ IsSeq(d, X)
    BY <1>1 DEF IsSeq
  <2>2. Cat(Cat(p, q), d) = Cat(p, Cat(q, d))
    BY ONLY <2>1, CatShift
  <2> QED BY <2>2, Zenon DEF Cat, w
<1> HIDE DEF w
<1>5. SubSeq(p \o w, Len(p) + 1, Len(p \o w)) = w
  BY <1>1, <1>3, ConcatCut
<1>6. w = SubSeq(t \o d, n + 1, Len(t \o d))
  BY <1>1, <1>4, <1>5
<1> QED BY <1>2, <1>6 DEF w, q

\* The buffer when d comes in after t: what follows the last end in t.
Rest(t, d) == SubSeq(t \o d, LastEnd(EndsOf(t)) + 1, Len(t \o d))

\* It is the buffer that was, and d; and it is the end of the whole text.
LEMMA RestIs ==
  ASSUME NEW t \in Seq(STRING), NEW d \in Seq(STRING)
  PROVE  LET L == LastEnd(EndsOf(t))
             r == Rest(t, d)
             g == t \o d
         IN /\ r = Remainder(t, EndsOf(t)) \o d
            /\ r \in Seq(STRING) /\ Len(r) = Len(g) - L
            /\ \A k \in 1 .. Len(r) : r[k] = g[L + k]
<1> DEFINE L == LastEnd(EndsOf(t))
           r == Rest(t, d)
           g == t \o d
<1>0. r = SubSeq(g, L + 1, Len(g))
  BY DEF Rest
<1>1. L \in 0 .. Len(t) /\ Remainder(t, EndsOf(t)) = SubSeq(t, L + 1, Len(t))
  BY LastSentence
<1>2. /\ Len(t) \in Nat /\ Len(d) \in Nat
      /\ g \in Seq(STRING) /\ Len(g) = Len(t) + Len(d)
  BY <1>1, RestOfGrown
<1>4. r = Remainder(t, EndsOf(t)) \o d
  <2> HIDE DEF L, r, g
  <2>1. SubSeq(t, L + 1, Len(t)) \o d = SubSeq(t \o d, L + 1, Len(t \o d))
    BY <1>1, RestOfGrown
  <2> QED BY <1>0, <1>1, <2>1 DEF g
<1> HIDE DEF L, r, g
<1>3. /\ r \in Seq(STRING) /\ Len(r) = Len(g) - L
      /\ \A k \in 1 .. Len(r) : r[k] = g[L + k]
  <2>1. r = SubSeq(g, L + 1, Len(g)) /\ L \in 0 .. Len(g)
    BY <1>0, <1>1, <1>2
  <2>2. r \in Seq(STRING) /\ Len(r) = Len(g) - L
    BY <1>2, <2>1, CutConcat
  <2> DEFINE lo == L + 1
  <2>3. lo \in Int /\ Len(g) \in Int
        /\ \A k \in lo .. Len(g) : g[k] \in STRING
    <3>1. \A k \in L + 1 .. Len(g) : k \in 1 .. Len(g)
      BY <1>1, <1>2
    <3> QED BY <1>1, <1>2, <3>1, ElementOfSeq
  <2>4. \A k \in 1 .. Len(g) - lo + 1 : r[k] = g[lo + k - 1]
    <3>1. r = SubSeq(g, lo, Len(g))
      BY <2>1
    <3> HIDE DEF lo
    <3> QED BY ONLY <2>3, <3>1, SubSeqProperties
  <2>5. \A k \in 1 .. Len(r) :
          k \in 1 .. Len(g) - (L + 1) + 1 /\ (L + 1) + k - 1 = L + k
    BY <1>1, <1>2, <2>2
  <2> QED BY <2>2, <2>4, <2>5
<1> QED BY <1>3, <1>4 DEF L, r, g

\* Positions, l further on.
Ahead(S, l) == {l + e : e \in S}

\* A text that grows keeps its sentences, and the new ones are those of what
\* came after the last.
LEMMA SentencesGrow ==
  ASSUME NEW t \in Seq(STRING), NEW d \in Seq(STRING)
  PROVE  SentenceEnds(t \o d)
           = SentenceEnds(t)
               \cup Ahead(SentenceEnds(Rest(t, d)), LastEnd(EndsOf(t)))
<1> DEFINE g == t \o d
           L == LastEnd(EndsOf(t))
           r == Rest(t, d)
<1>1. /\ L \in 0 .. Len(t)
      /\ \A e \in SentenceEnds(t) : e <= L
      /\ L # 0 => L + 1 <= Len(t) /\ t[L + 1] = Blank
  BY LastSentence
<1>2. /\ Len(t) \in Nat /\ Len(d) \in Nat
      /\ g \in Seq(STRING) /\ Len(g) = Len(t) + Len(d)
      /\ \A k \in 1 .. Len(t) : g[k] = t[k]
  BY <1>1, RestOfGrown
<1> HIDE DEF g, L, r
<1>3. /\ r \in Seq(STRING) /\ Len(r) = Len(g) - L
      /\ \A k \in 1 .. Len(r) : r[k] = g[L + k]
  BY RestIs DEF g, L, r
<1>4. L # 0 => g[L + 1] = Blank /\ r[1] = Blank /\ 1 <= Len(r)
  <2> SUFFICES ASSUME L # 0
               PROVE  g[L + 1] = Blank /\ r[1] = Blank /\ 1 <= Len(r)
    OBVIOUS
  <2>1. L + 1 \in 1 .. Len(t) /\ t[L + 1] = Blank
    BY <1>1
  <2>2. 1 <= Len(r) /\ 1 \in 1 .. Len(r)
    BY <1>1, <1>2, <1>3, <2>1
  <2> QED BY <1>2, <1>3, <2>1, <2>2
<1>5. Len(g) \in Nat /\ Len(r) \in Nat
  BY <1>2, <1>3
<1>6. Window(t, g, 0, 1, Len(t))
  BY <1>2 DEF Window
<1>7. Window(g, t, 0, 1, Len(t))
  BY <1>2 DEF Window
<1>8. Window(g, r, -L, L + 1, Len(g))
  <2>1. \A k \in L + 1 .. Len(g) : k + (-L) \in 1 .. Len(r)
                                   /\ L + (k + (-L)) = k
    BY <1>1, <1>3, <1>5
  <2>2. \A k \in L + 1 .. Len(g) : g[k] = r[k + (-L)]
    BY <1>3, <2>1
  <2>3. /\ -L \in Int /\ L + 1 \in Nat /\ L + 1 >= 1 /\ (L + 1) + (-L) >= 1
        /\ Len(g) + (-L) <= Len(r) /\ Len(g) <= Len(g)
    BY <1>1, <1>3, <1>5
  <2>4. (L + 1 = 1 /\ -L = 0) \/ (L + 1 <= Len(g) /\ g[L + 1] = Blank)
    BY <1>1, <1>2, <1>4
  <2> QED BY <1>2, <1>3, <1>5, <2>2, <2>3, <2>4 DEF Window
<1>9. Window(r, g, L, 1, Len(r))
  <2>1. \A k \in 1 .. Len(r) : r[k] = g[k + L]
    <3>1. \A k \in 1 .. Len(r) : L + k = k + L
      BY <1>1, <1>5
    <3> QED BY <1>3, <3>1
  <2>2. /\ L \in Int /\ 1 + L >= 1 /\ Len(r) + L <= Len(g)
        /\ Len(r) <= Len(r) /\ 1 \in Nat /\ 1 >= 1
    <3>1. L \in Nat /\ Len(r) = Len(g) - L
      BY <1>1, <1>3
    <3> QED BY <1>5, <3>1
  <2>3. (1 = 1 /\ L = 0) \/ (1 <= Len(r) /\ r[1] = Blank)
    BY <1>4
  <2> QED BY <1>2, <1>3, <1>5, <2>1, <2>2, <2>3 DEF Window
<1>10. ASSUME NEW e \in SentenceEnds(t) PROVE e \in SentenceEnds(g)
  <2>1. PICK a, b : SentenceAt(t, a, b, e)
    BY <1>2, SentenceEndsAre
  <2>2. e \in 1 .. Len(t) - 1 /\ e + 0 = e /\ e >= 1 /\ e + 1 <= Len(t)
    BY <1>2, <2>1 DEF SentenceAt
  <2>3. SentenceAt(g, a + 0, b + 0, e + 0)
    BY <1>6, <2>1, <2>2, SameSentence
  <2> QED BY <1>5, <2>2, <2>3, SentenceEndsAre
<1>11. ASSUME NEW e \in SentenceEnds(r) PROVE L + e \in SentenceEnds(g)
  <2>1. PICK a, b : SentenceAt(r, a, b, e)
    BY <1>5, SentenceEndsAre
  <2>2. /\ e \in 1 .. Len(r) - 1 /\ e + L = L + e /\ e >= 1
        /\ e + 1 <= Len(r)
    <3>1. e \in 1 .. Len(r) - 1
      BY <2>1 DEF SentenceAt
    <3>2. L \in Nat
      BY <1>1
    <3> QED BY <1>5, <3>1, <3>2
  <2>3. SentenceAt(g, a + L, b + L, e + L)
    BY <1>9, <2>1, <2>2, SameSentence
  <2> QED BY <1>5, <2>2, <2>3, SentenceEndsAre
<1>12. ASSUME NEW e \in SentenceEnds(g)
       PROVE  e \in SentenceEnds(t) \cup {L + x : x \in SentenceEnds(r)}
  <2>1. PICK a, b : SentenceAt(g, a, b, e)
    BY <1>5, SentenceEndsAre
  <2>2. e \in 1 .. Len(g) - 1 /\ e >= 1 /\ e + 1 <= Len(g)
    BY <1>5, <2>1 DEF SentenceAt
  <2>3. CASE e + 1 <= Len(t)
    <3>1. SentenceAt(t, a + 0, b + 0, e + 0) /\ e + 0 = e
      BY <1>7, <2>1, <2>2, <2>3, SameSentence
    <3> QED BY <1>2, <3>1, SentenceEndsAre
  <2>4. CASE ~(e + 1 <= Len(t))
    <3>1. e >= L + 1
      BY <1>1, <1>2, <2>2, <2>4
    <3>2. SentenceAt(r, a + (-L), b + (-L), e + (-L))
      BY <1>8, <2>1, <2>2, <3>1, SameSentence
    <3>3. e + (-L) \in SentenceEnds(r) /\ L + (e + (-L)) = e
      <4>1. e + (-L) \in SentenceEnds(r)
        BY <1>5, <3>2, SentenceEndsAre
      <4>2. L \in Int /\ e \in Int
        BY <1>1, <2>2
      <4> QED BY <4>1, <4>2
    <3> QED BY <3>3
  <2> QED BY <2>3, <2>4
<1>13. SentenceEnds(g)
         = SentenceEnds(t) \cup {L + e : e \in SentenceEnds(r)}
  BY <1>10, <1>11, <1>12
<1> QED BY <1>13 DEF g, L, r, Ahead

\* A sequence of ascending positions is the set of its positions in order.
LEMMA AscendingInOrder ==
  ASSUME NEW n \in Nat, NEW u, Ascending(u, n)
  PROVE  InOrder(ToSet(u)) = u
<1> DEFINE S == ToSet(u)
           m == Len(u)
           at(i) == CHOOSE e \in S : Cardinality({x \in S : x <= e}) = i
<1>1. /\ u \in Seq(1 .. n) /\ m \in Nat /\ DOMAIN u = 1 .. m
      /\ u = [i \in 1 .. m |-> u[i]]
  <2>1. u \in Seq(1 .. n)
    BY DEF Ascending
  <2> QED BY <2>1
<1>2. S = {u[i] : i \in 1 .. m}
  BY <1>1 DEF ToSet
<1>3. /\ \A i \in 1 .. m : Cardinality({x \in S : x <= u[i]}) = i
      /\ Cardinality(S) = m
  BY AscendingCounts
<1>4. InOrder(S) = [i \in 1 .. Cardinality(S) |-> at(i)]
  BY DEF InOrder
<1> HIDE DEF S, m
<1>5. ASSUME NEW i \in 1 .. m PROVE at(i) = u[i]
  <2>1. u[i] \in S /\ Cardinality({x \in S : x <= u[i]}) = i
    BY <1>2, <1>3
  <2>2. at(i) \in S /\ Cardinality({x \in S : x <= at(i)}) = i
    BY <2>1
  <2> HIDE DEF at
  <2>3. PICK k \in 1 .. m : at(i) = u[k]
    BY <1>2, <2>2
  <2>4. Cardinality({x \in S : x <= u[k]}) = k
    BY <1>3, <2>3
  <2>5. k = i
    BY <2>2, <2>3, <2>4
  <2> QED BY <2>3, <2>5
<1> HIDE DEF at
<1>6. InOrder(S) = u
  BY <1>1, <1>3, <1>4, <1>5
<1> QED BY <1>6 DEF S

\* Positions, l further on.
Later(ends, l) == [i \in 1 .. Len(ends) |-> l + ends[i]]

\* The cuts of a text that grew: the old ones, then those in what came after
\* the last of them.
LEMMA EndsGrow ==
  ASSUME NEW t \in Seq(STRING), NEW d \in Seq(STRING)
  PROVE  LET L == LastEnd(EndsOf(t))
             r == Rest(t, d)
         IN /\ EndsOf(t \o d) = EndsOf(t) \o Later(EndsOf(r), L)
            /\ r \in Seq(STRING) /\ Len(r) = Len(t \o d) - L
            /\ L \in 0 .. Len(t)
<1> DEFINE L == LastEnd(EndsOf(t))
           r == Rest(t, d)
           g == t \o d
           u == EndsOf(t)
           v == EndsOf(r)
           w == Later(v, L)
           N == Len(g)
<1>1. /\ L \in 0 .. Len(t)
      /\ \A e \in SentenceEnds(t) : e <= L
  BY LastSentence
<1>2. /\ Len(t) \in Nat /\ Len(d) \in Nat /\ N \in Nat
      /\ g \in Seq(STRING) /\ N = Len(t) + Len(d)
  BY <1>1, RestOfGrown
<1>3. SentenceEnds(g) = SentenceEnds(t) \cup Ahead(SentenceEnds(r), L)
  BY SentencesGrow
<1>4. r = SubSeq(g, L + 1, N)
  BY DEF Rest
<1>0. L = LastEnd(u)
  OBVIOUS
<1> HIDE DEF L, r, g, u, v, w, N
<1>5. r \in Seq(STRING) /\ Len(r) = N - L /\ Len(r) \in Nat
  <2>1. L \in 0 .. Len(g)
    BY <1>1, <1>2 DEF N
  <2>2. r \in Seq(STRING) /\ Len(r) = Len(g) - L
    BY <1>2, <1>4, <2>1, CutConcat DEF N
  <2> QED BY <1>1, <1>2, <2>1, <2>2 DEF N
<1>6. Ascending(u, Len(t)) /\ ToSet(u) = SentenceEnds(t)
  BY EndsAreSentenceEnds DEF u
<1>7. Ascending(v, Len(r)) /\ ToSet(v) = SentenceEnds(r)
  BY <1>5, EndsAreSentenceEnds DEF v
<1>8. Ascending(EndsOf(g), N) /\ ToSet(EndsOf(g)) = SentenceEnds(g)
  BY <1>2, EndsAreSentenceEnds DEF N
<1>9. Ascending(u, N)
  <2>1. u \in Seq(1 .. Len(t))
    BY <1>6 DEF Ascending
  <2>2. u \in Seq(1 .. N)
    <3>1. \A i \in 1 .. Len(u) : u[i] \in 1 .. Len(t)
      BY <2>1, ElementOfSeq
    <3>2. \A i \in 1 .. Len(u) : u[i] \in 1 .. N
      BY <1>2, <3>1
    <3>3. Len(u) \in Nat /\ u = [i \in 1 .. Len(u) |-> u[i]]
      BY <2>1
    <3> DEFINE k == Len(u)
    <3>4. k \in Nat /\ u = [i \in 1 .. k |-> u[i]]
          /\ \A i \in 1 .. k : u[i] \in 1 .. N
      BY <3>2, <3>3
    <3> HIDE DEF k
    <3>5. u \in [1 .. k -> 1 .. N]
      BY <3>4
    <3> QED BY <3>4, <3>5
  <2> QED BY <1>6, <2>2 DEF Ascending
<1>10. /\ v \in Seq(1 .. Len(r)) /\ Len(v) \in Nat
       /\ \A i \in 1 .. Len(v) : v[i] \in 1 .. Len(r)
       /\ \A i \in 1 .. Len(v) - 1 : v[i] < v[i + 1]
  <2>1. v \in Seq(1 .. Len(r))
    BY <1>7 DEF Ascending
  <2>2. \A i \in 1 .. Len(v) : v[i] \in 1 .. Len(r)
    BY <2>1, ElementOfSeq
  <2>3. \A i \in 1 .. Len(v) - 1 : v[i] < v[i + 1]
    BY <1>7 DEF Ascending
  <2>4. Len(v) \in Nat
    BY <2>1
  <2> QED BY <2>1, <2>2, <2>3, <2>4
<1>11. /\ w = [i \in 1 .. Len(v) |-> L + v[i]]
  BY DEF w, Later
<1>12. ASSUME NEW i \in 1 .. Len(v)
       PROVE  L + v[i] \in 1 .. N /\ L + v[i] > L
  <2> DEFINE c == v[i]
             k == Len(r)
  <2>1. c \in 1 .. k
    BY <1>10
  <2>2. L \in Nat /\ N \in Nat /\ k = N - L
    BY <1>1, <1>2, <1>5
  <2> HIDE DEF c, k
  <2>3. L + c \in 1 .. N /\ L + c > L
    BY ONLY <2>1, <2>2
  <2> QED BY <2>3 DEF c
<1>13. w \in Seq(1 .. N) /\ Len(w) = Len(v) /\ DOMAIN w = 1 .. Len(v)
  BY <1>10, <1>11, <1>12
<1>14. Ascending(w, N)
  <2>1. ASSUME NEW i \in 1 .. Len(w) - 1 PROVE w[i] < w[i + 1]
    <3>1. i \in 1 .. Len(v) /\ i + 1 \in 1 .. Len(v) /\ i \in 1 .. Len(v) - 1
      BY <1>10, <1>13
    <3>2. /\ v[i] < v[i + 1] /\ v[i] \in 1 .. Len(r)
          /\ v[i + 1] \in 1 .. Len(r)
      BY <1>10, <3>1
    <3>3. w[i] = L + v[i] /\ w[i + 1] = L + v[i + 1]
      BY <1>11, <3>1
    <3>4. L \in Nat
      BY <1>1
    <3> QED BY <3>2, <3>3, <3>4
  <2> QED BY <1>13, <2>1 DEF Ascending
<1>15. u = <<>> \/ w = <<>> \/ u[Len(u)] < w[1]
  <2> SUFFICES ASSUME u # <<>>, w # <<>> PROVE u[Len(u)] < w[1]
    OBVIOUS
  <2>1. u[Len(u)] = L
    BY <1>0 DEF LastEnd
  <2>2. 1 \in 1 .. Len(v)
    BY <1>10, <1>13
  <2>3. w[1] > L
    BY <1>11, <1>12, <2>2
  <2>4. w[1] \in Int /\ L \in Int
    BY <1>1, <1>11, <1>12, <2>2
  <2> QED BY <2>1, <2>3, <2>4
<1>16. Ascending(u \o w, N)
  BY <1>2, <1>9, <1>14, <1>15, AscendingConcat
<1>17. ToSet(u \o w) = ToSet(u) \cup ToSet(w)
  <2>1. u \in Seq(1 .. N)
    BY <1>9 DEF Ascending
  <2> QED BY <1>13, <2>1, ConcatElements
<1>18. ToSet(w) = Ahead(SentenceEnds(r), L)
  <2>1. ToSet(w) = {w[i] : i \in 1 .. Len(v)}
    BY <1>13 DEF ToSet
  <2>2. SentenceEnds(r) = {v[i] : i \in 1 .. Len(v)}
    <3>1. DOMAIN v = 1 .. Len(v)
      BY <1>10
    <3> QED BY <1>7, <3>1 DEF ToSet
  <2>3. \A i \in 1 .. Len(v) : w[i] = L + v[i]
    BY <1>11
  <2> QED BY <2>1, <2>2, <2>3 DEF Ahead
<1>19. ToSet(u \o w) = ToSet(EndsOf(g))
  BY <1>3, <1>6, <1>8, <1>17, <1>18
<1> DEFINE x == u \o w
           y == EndsOf(g)
<1>20. Ascending(x, N) /\ Ascending(y, N) /\ ToSet(x) = ToSet(y)
  BY <1>8, <1>16, <1>19
<1> HIDE DEF x, y
<1>21. InOrder(ToSet(x)) = x /\ InOrder(ToSet(y)) = y
  BY <1>2, <1>20, AscendingInOrder
<1>22. x = y
  BY <1>20, <1>21
<1> QED BY <1>1, <1>5, <1>22 DEF L, r, g, u, v, w, x, y, N

\* Where the i-th of the pieces begins.
Low(ends, i) == IF i = 1 THEN 1 ELSE ends[i - 1] + 1

\* It begins within the text.
LEMMA LowWithin ==
  ASSUME NEW n \in Nat, NEW ends, Ascending(ends, n)
  PROVE  \A i \in 1 .. Len(ends) : /\ ends[i] \in 1 .. n
                                   /\ Low(ends, i) \in 1 .. n
<1>1. ends \in Seq(1 .. n) /\ Len(ends) \in Nat
  BY DEF Ascending
<1>2. \A i \in 1 .. Len(ends) : ends[i] \in 1 .. n
  BY <1>1, ElementOfSeq
<1>3. \A i \in 1 .. Len(ends) - 1 : ends[i] < ends[i + 1]
  BY DEF Ascending
<1> SUFFICES ASSUME NEW i \in 1 .. Len(ends)
             PROVE  ends[i] \in 1 .. n /\ Low(ends, i) \in 1 .. n
  OBVIOUS
<1>4. CASE i = 1
  <2>1. ends[i] \in 1 .. n
    BY <1>2
  <2> QED BY <1>4, <2>1 DEF Low
<1>5. CASE i # 1
  <2>1. /\ i - 1 \in 1 .. Len(ends) - 1 /\ i - 1 \in 1 .. Len(ends)
        /\ (i - 1) + 1 = i
    BY <1>1, <1>5
  <2>2. /\ ends[i] \in 1 .. n /\ ends[i - 1] \in 1 .. n
        /\ ends[i - 1] < ends[i]
    BY <1>2, <1>3, <2>1
  <2>3. ends[i - 1] + 1 \in 1 .. n
    BY <2>2
  <2> QED BY <1>5, <2>2, <2>3 DEF Low
<1> QED BY <1>4, <1>5

\* The phrases of a text that grew are the old ones, then those of what came
\* after the last of them; and the same is left.
LEMMA PiecesGrow ==
  ASSUME NEW t \in Seq(STRING), NEW d \in Seq(STRING)
  PROVE  LET r == Rest(t, d)
             g == t \o d
         IN /\ Pieces(g, EndsOf(g))
                 = Pieces(t, EndsOf(t)) \o Pieces(r, EndsOf(r))
            /\ Remainder(g, EndsOf(g)) = Remainder(r, EndsOf(r))
<1> DEFINE L == LastEnd(EndsOf(t))
           r == Rest(t, d)
           g == t \o d
           u == EndsOf(t)
           v == EndsOf(r)
           x == EndsOf(g)
           w == Later(v, L)
           m == Len(u)
           n == Len(v)
<1>1. x = u \o w /\ L \in 0 .. Len(t)
  BY EndsGrow
<1>2. /\ Len(t) \in Nat /\ Len(d) \in Nat
      /\ g \in Seq(STRING) /\ Len(g) = Len(t) + Len(d)
      /\ \A k \in 1 .. Len(t) : g[k] = t[k]
  BY <1>1, RestOfGrown
<1>3. /\ r \in Seq(STRING) /\ Len(r) = Len(g) - L
      /\ \A k \in 1 .. Len(r) : r[k] = g[L + k]
  BY RestIs
<1>4. r = SubSeq(g, L + 1, Len(g))
  BY DEF Rest
<1>5. L = LastEnd(u)
  OBVIOUS
<1>6. Ascending(u, Len(t))
  BY EndsAreSentenceEnds
<1>7. Ascending(v, Len(r))
  BY <1>3, EndsAreSentenceEnds
<1> HIDE DEF L, r, g, u, v, x
<1>8. /\ u \in Seq(Nat) /\ m \in Nat /\ DOMAIN u = 1 .. m
      /\ \A i \in 1 .. m : u[i] \in 1 .. Len(t) /\ Low(u, i) \in 1 .. Len(t)
      /\ (u = <<>> <=> m = 0)
  <2>1. u \in Seq(1 .. Len(t))
    BY <1>6 DEF Ascending
  <2>2. \A i \in 1 .. m : u[i] \in 1 .. Len(t) /\ Low(u, i) \in 1 .. Len(t)
    BY <1>2, <1>6, LowWithin
  <2>3. m \in Nat /\ DOMAIN u = 1 .. m /\ (u = <<>> <=> m = 0)
    BY <2>1
  <2>4. u \in Seq(Nat)
    BY <2>1
  <2> QED BY <2>2, <2>3, <2>4
<1>9. /\ n \in Nat /\ DOMAIN v = 1 .. n
      /\ \A i \in 1 .. n : v[i] \in 1 .. Len(r) /\ Low(v, i) \in 1 .. Len(r)
      /\ (v = <<>> <=> n = 0)
  <2>1. v \in Seq(1 .. Len(r))
    BY <1>7 DEF Ascending
  <2>2. Len(r) \in Nat
    BY <1>3
  <2>3. \A i \in 1 .. n : v[i] \in 1 .. Len(r) /\ Low(v, i) \in 1 .. Len(r)
    BY <1>7, <2>2, LowWithin
  <2>4. n \in Nat /\ DOMAIN v = 1 .. n /\ (v = <<>> <=> n = 0)
    BY <2>1
  <2> QED BY <2>3, <2>4
<1>10. w = [i \in 1 .. n |-> L + v[i]]
  BY DEF Later
<1> HIDE DEF w, m, n
<1>11. /\ w \in Seq(Nat) /\ Len(w) = n
       /\ \A i \in 1 .. n : w[i] = L + v[i]
  <2>1. \A i \in 1 .. n : L + v[i] \in Nat
    BY <1>1, <1>9
  <2> QED BY <1>9, <1>10, <2>1
<1>12. /\ x \in Seq(Nat) /\ Len(x) = m + n /\ DOMAIN x = 1 .. m + n
       /\ \A i \in 1 .. m + n : x[i] = IF i <= m THEN u[i] ELSE w[i - m]
  <2>1. /\ u \o w \in Seq(Nat) /\ Len(u \o w) = Len(u) + Len(w)
        /\ \A i \in 1 .. Len(u) + Len(w) :
             (u \o w)[i] = IF i <= Len(u) THEN u[i] ELSE w[i - Len(u)]
    <3>1. u \in Seq(Nat) /\ w \in Seq(Nat)
      BY <1>8, <1>11
    <3> QED BY ONLY <3>1, ConcatProperties
  <2>2. Len(u) = m /\ Len(w) = n /\ x = u \o w
    BY <1>1, <1>11 DEF m
  <2>3. /\ x \in Seq(Nat) /\ Len(x) = m + n
        /\ \A i \in 1 .. m + n : x[i] = IF i <= m THEN u[i] ELSE w[i - m]
    BY ONLY <2>1, <2>2
  <2>4. DOMAIN x = 1 .. m + n
    BY ONLY <2>3
  <2> QED BY <2>3, <2>4
<1>13. ASSUME NEW i \in 1 .. m
       PROVE  SubSeq(g, Low(x, i), x[i]) = SubSeq(t, Low(u, i), u[i])
  <2>1. x[i] = u[i] /\ Low(x, i) = Low(u, i)
    <3>1. CASE i = 1
      BY <1>8, <1>9, <1>12, <3>1 DEF Low
    <3>2. CASE i # 1
      <4>1. /\ i \in 1 .. m + n /\ i - 1 \in 1 .. m + n
            /\ i <= m /\ i - 1 <= m
        BY <1>8, <1>9, <3>2
      <4> QED BY <1>12, <3>2, <4>1 DEF Low
    <3> QED BY <3>1, <3>2
  <2> DEFINE lo == Low(u, i)
             hi == u[i]
  <2>2. lo \in 1 .. Len(t) /\ hi \in 1 .. Len(t)
    BY <1>8
  <2> HIDE DEF lo, hi
  <2>3. /\ lo \in Int /\ hi \in Int /\ 1 <= lo /\ hi <= Len(t)
        /\ 1 <= lo + 0 /\ hi + 0 <= Len(g)
    BY <1>2, <2>2
  <2>4. \A k \in lo .. hi : t[k] = g[k + 0]
    BY <1>2, <2>2
  <2>5. SubSeq(t, lo, hi) = SubSeq(g, lo + 0, hi + 0)
    BY <1>2, <2>3, <2>4, SameCut
  <2>6. SubSeq(t, lo, hi) = SubSeq(g, lo, hi)
    BY <2>3, <2>5
  <2> QED BY <2>1, <2>6 DEF lo, hi
<1>14. ASSUME NEW k \in 1 .. n
       PROVE  SubSeq(g, Low(x, m + k), x[m + k]) = SubSeq(r, Low(v, k), v[k])
  <2> DEFINE lo == Low(v, k)
             hi == v[k]
  <2>1. lo \in 1 .. Len(r) /\ hi \in 1 .. Len(r)
    BY <1>9
  <2>2. x[m + k] = hi + L
    <3>1. m + k \in 1 .. m + n /\ ~(m + k <= m) /\ (m + k) - m = k
      BY <1>8, <1>9
    <3>2. x[m + k] = L + v[k]
      BY <1>11, <1>12, <3>1
    <3> QED BY <1>1, <2>1, <3>2
  <2>3. Low(x, m + k) = lo + L
    <3>1. CASE k = 1
      <4>1. lo = 1
        BY <3>1 DEF Low
      <4>2. CASE m = 0
        <5>1. L = 0
          BY <1>5, <1>8, <4>2 DEF LastEnd
        <5> QED BY <3>1, <4>1, <4>2, <5>1 DEF Low
      <4>3. CASE m # 0
        <5>1. /\ m + k # 1 /\ (m + k) - 1 = m /\ m \in 1 .. m + n /\ m <= m
          BY <1>8, <1>9, <3>1, <4>3
        <5>2. L = u[m]
          BY <1>5, <1>8, <4>3 DEF LastEnd, m
        <5>3. Low(x, m + k) = u[m] + 1
          BY <1>12, <5>1 DEF Low
        <5> QED BY <1>1, <4>1, <5>2, <5>3
      <4> QED BY <4>2, <4>3
    <3>2. CASE k # 1
      <4>1. /\ m + k # 1 /\ (m + k) - 1 = m + (k - 1) /\ k - 1 \in 1 .. n
            /\ m + (k - 1) \in 1 .. m + n /\ ~(m + (k - 1) <= m)
            /\ (m + (k - 1)) - m = k - 1
        BY <1>8, <1>9, <3>2
      <4>2. x[m + (k - 1)] = L + v[k - 1]
        BY <1>11, <1>12, <4>1
      <4>3. Low(x, m + k) = (L + v[k - 1]) + 1
        BY <4>1, <4>2 DEF Low
      <4>4. lo = v[k - 1] + 1 /\ v[k - 1] \in Nat /\ L \in Nat
        BY <1>1, <1>9, <3>2, <4>1 DEF Low
      <4> QED BY <4>3, <4>4
    <3> QED BY <3>1, <3>2
  <2> HIDE DEF lo, hi
  <2>4. /\ lo \in Int /\ hi \in Int /\ 1 <= lo /\ hi <= Len(r)
        /\ 1 <= lo + L /\ hi + L <= Len(g) /\ L \in Int
    BY <1>1, <1>2, <1>3, <2>1
  <2>5. \A i \in lo .. hi : r[i] = g[i + L]
    <3>1. \A i \in lo .. hi : i \in 1 .. Len(r) /\ L + i = i + L
      BY <2>4
    <3> QED BY <1>3, <3>1
  <2>6. SubSeq(r, lo, hi) = SubSeq(g, lo + L, hi + L)
    <3>1. g \in Seq(STRING) /\ r \in Seq(STRING)
      BY <1>2, <1>3
    <3>2. /\ lo \in Int /\ hi \in Int /\ L \in Int
          /\ 1 <= lo /\ hi <= Len(r) /\ 1 <= lo + L /\ hi + L <= Len(g)
      BY <2>4
    <3>3. \A a, b, c \in Int :
            /\ 1 <= a /\ b <= Len(r) /\ 1 <= a + c /\ b + c <= Len(g)
            /\ \A i \in a .. b : r[i] = g[i + c]
            => SubSeq(r, a, b) = SubSeq(g, a + c, b + c)
      BY ONLY <3>1, SameCut
    <3> QED BY ONLY <3>2, <3>3, <2>5
  <2> QED BY <2>2, <2>3, <2>6 DEF lo, hi
<1> DEFINE P == Pieces(t, u)
           Q == Pieces(r, v)
           R == Pieces(g, x)
<1>15. /\ P = [i \in 1 .. m |-> TrimSpace(SubSeq(t, Low(u, i), u[i]))]
       /\ Q = [i \in 1 .. n |-> TrimSpace(SubSeq(r, Low(v, i), v[i]))]
       /\ R = [i \in 1 .. m + n |-> TrimSpace(SubSeq(g, Low(x, i), x[i]))]
  BY <1>8, <1>9, <1>12 DEF Pieces, Low
<1>16. /\ P \in Seq(Seq(STRING)) /\ Q \in Seq(Seq(STRING))
  BY <1>3, <1>6, <1>7, PiecesKeepText
<1> HIDE DEF P, Q, R
<1>17. /\ R \in Seq(Seq(STRING))
       /\ Len(R) = m + n /\ Len(P) = m /\ Len(Q) = n
       /\ \A i \in 1 .. m : R[i] = P[i]
       /\ \A i \in 1 .. n : R[m + i] = Q[i]
  <2>1. ASSUME NEW i \in 1 .. m PROVE R[i] = P[i]
    <3>1. i \in 1 .. m + n
      BY <1>8, <1>9
    <3> QED BY <1>13, <1>15, <3>1
  <2>2. ASSUME NEW i \in 1 .. n PROVE R[m + i] = Q[i]
    <3>1. m + i \in 1 .. m + n
      BY <1>8, <1>9
    <3> QED BY <1>14, <1>15, <3>1
  <2>3. Len(P) = m /\ Len(Q) = n /\ Len(R) = m + n
    BY <1>8, <1>9, <1>15
  <2>4. \A i \in 1 .. m + n : R[i] \in Seq(STRING)
    <3> SUFFICES ASSUME NEW i \in 1 .. m + n PROVE R[i] \in Seq(STRING)
      OBVIOUS
    <3>1. CASE i <= m
      <4>1. i \in 1 .. m
        BY <3>1
      <4>2. P[i] \in Seq(STRING)
        BY <1>16, <2>3, <4>1, ElementOfSeq
      <4> QED BY <2>1, <4>1, <4>2
    <3>2. CASE ~(i <= m)
      <4>1. i - m \in 1 .. n /\ m + (i - m) = i
        BY <1>8, <1>9, <3>2
      <4>2. Q[i - m] \in Seq(STRING)
        BY <1>16, <2>3, <4>1, ElementOfSeq
      <4> QED BY <2>2, <4>1, <4>2
    <3> QED BY <3>1, <3>2
  <2>5. R \in [1 .. m + n -> Seq(STRING)] /\ m + n \in Nat
    BY <1>8, <1>9, <1>15, <2>4
  <2>6. R \in Seq(Seq(STRING))
    BY <2>5
  <2> QED BY <2>1, <2>2, <2>3, <2>6
<1>18. R = P \o Q
  <2>1. /\ P \o Q \in Seq(Seq(STRING)) /\ Len(P \o Q) = m + n
        /\ \A i \in 1 .. m + n :
             (P \o Q)[i] = IF i <= m THEN P[i] ELSE Q[i - m]
    BY <1>16, <1>17, ConcatProperties
  <2>2. ASSUME NEW i \in 1 .. m + n PROVE R[i] = (P \o Q)[i]
    <3>1. CASE i <= m
      <4>1. i \in 1 .. m
        BY <3>1
      <4> QED BY <1>17, <2>1, <3>1, <4>1
    <3>2. CASE ~(i <= m)
      <4>1. i - m \in 1 .. n /\ m + (i - m) = i
        BY <1>8, <1>9, <3>2
      <4>2. R[m + (i - m)] = Q[i - m]
        <5>1. \A k \in 1 .. n : R[m + k] = Q[k]
          BY <1>17
        <5> QED BY ONLY <4>1, <5>1
      <4>3. R[i] = Q[i - m]
        BY <4>1, <4>2
      <4>4. (P \o Q)[i] = Q[i - m]
        BY <2>1, <3>2
      <4> QED BY <4>3, <4>4
    <3> QED BY <3>1, <3>2
  <2> QED BY <1>17, <2>1, <2>2, SeqEqual
<1>19. Remainder(g, x) = Remainder(r, v)
  <2>1. CASE n = 0
    <3>1. w = <<>> /\ v = <<>>
      BY <1>9, <1>11, <2>1
    <3>2. x = u
      BY <1>1, <1>8, <3>1
    <3>3. Remainder(g, x) = SubSeq(g, L + 1, Len(g))
      <4>1. CASE u = <<>>
        <5>1. L = 0
          BY <1>5, <4>1 DEF LastEnd
        <5>2. L + 1 = 1
          BY <5>1
        <5> QED BY <3>2, <4>1, <5>2 DEF Remainder
      <4>2. CASE u # <<>>
        <5>1. L = u[Len(u)]
          BY <1>5, <4>2 DEF LastEnd
        <5> QED BY <3>2, <4>2, <5>1 DEF Remainder
      <4> QED BY <4>1, <4>2
    <3>4. Remainder(r, v) = r
      BY <1>3, <3>1, SubSeqFull DEF Remainder
    <3> QED BY <1>4, <3>3, <3>4
  <2>2. CASE n # 0
    <3> DEFINE lo == v[n] + 1
               hi == Len(r)
    <3>1. n \in 1 .. n /\ v[n] \in 1 .. Len(r) /\ v # <<>>
      BY <1>9, <2>2
    <3>2. Remainder(r, v) = SubSeq(r, lo, hi)
      BY <3>1 DEF Remainder, n
    <3>3. /\ m + n \in 1 .. m + n /\ ~(m + n <= m) /\ (m + n) - m = n
          /\ x # <<>>
      BY <1>8, <1>9, <1>12, <2>2
    <3>4. x[m + n] = L + v[n]
      BY <1>11, <1>12, <3>1, <3>3
    <3>5. Remainder(g, x) = SubSeq(g, (L + v[n]) + 1, Len(g))
      BY <1>12, <3>3, <3>4 DEF Remainder
    <3>6. /\ lo \in Int /\ hi \in Int /\ 1 <= lo /\ hi <= Len(r)
          /\ 1 <= lo + L /\ hi + L <= Len(g) /\ L \in Int
          /\ lo + L = (L + v[n]) + 1 /\ hi + L = Len(g)
      BY <1>1, <1>2, <1>3, <3>1
    <3> HIDE DEF lo, hi
    <3>7. \A i \in lo .. hi : r[i] = g[i + L]
      <4>1. \A i \in lo .. hi : i \in 1 .. Len(r) /\ L + i = i + L
        BY <3>6
      <4> QED BY <1>3, <4>1
    <3>8. SubSeq(r, lo, hi) = SubSeq(g, lo + L, hi + L)
      BY <1>2, <1>3, <3>6, <3>7, SameCut
    <3> QED BY <3>2, <3>5, <3>6, <3>8
  <2> QED BY <2>1, <2>2
<1> QED BY <1>18, <1>19 DEF P, Q, R, r, g, u, v, x

\* What cannot be cut is not too long.
LEMMA ShortIsKept ==
  ASSUME NEW chunks \in Seq(Seq(STRING)), NEW r \in Seq(STRING),
         ~CanCut(r), MaxChunkChars \in Nat
  PROVE  CutLong(chunks, r) = [chunks |-> chunks, rest |-> r]
<1> DEFINE N == Len(r)
           nx == CutsNext(r)
           it == CutsItem(r)
           cuts == CutsFound(r)
<1>1. /\ Stepping(nx, it, N)
      /\ \E f : /\ f = [i \in 1 .. N + 1 |-> ScanStep(f, nx, it, N, i)]
                /\ cuts = f[1]
  BY CutsScan
<1>2. N \in Nat /\ SubSeq(r, 1, N) = r
  BY SubSeqFull
<1>3. N > 0 => nx[1] = N + 1 /\ it[1] = <<>>
  <2>1. ~CanCut(SubSeq(r, 1, Len(r)))
    BY <1>2
  <2>2. N > 0 => 1 \in 1 .. Len(r)
    BY <1>2
  <2> QED BY <2>1, <2>2 DEF CutsNext, CutsItem
<1> HIDE DEF nx, it, cuts
<1>4. cuts = <<>>
  <2>1. PICK f : /\ f = [i \in 1 .. N + 1 |-> ScanStep(f, nx, it, N, i)]
                 /\ cuts = f[1]
    BY <1>1
  <2> HIDE DEF N
  <2>2. \A i \in 1 .. N + 1 : f[i] = ScanStep(f, nx, it, N, i)
    BY <2>1
  <2>3. f[N + 1] = <<>>
    <3>1. N + 1 \in 1 .. N + 1
      BY <1>2
    <3> QED BY <2>2, <3>1 DEF ScanStep
  <2>4. CASE N = 0
    <3>1. N + 1 = 1
      BY <2>4
    <3> QED BY <2>1, <2>3, <3>1
  <2>5. CASE N # 0
    <3>1. 1 \in 1 .. N + 1 /\ 1 # N + 1 /\ N > 0
      BY <1>2, <2>5
    <3>2. it[1] = <<>> /\ nx[1] = N + 1
      BY <1>3, <3>1
    <3>3. f[1] = f[nx[1]]
      BY <2>2, <3>1, <3>2 DEF ScanStep
    <3> QED BY <2>1, <2>3, <3>2, <3>3
  <2> QED BY <2>4, <2>5
<1>5. CutLong(chunks, r)
        = [chunks |-> chunks \o Pieces(r, <<>>), rest |-> r]
  BY <1>4 DEF CutLong, cuts
<1>6. Pieces(r, <<>>) = <<>>
  BY DEF Pieces
<1>7. chunks \o <<>> = chunks
  OBVIOUS
<1> QED BY <1>5, <1>6, <1>7

\* The strengthening of StreamSafe: the phrases are those of the text up to
\* its last end, and the buffer holds what comes after it.
SentencesInv ==
  ~cut /\ ~last =>
    /\ spoken \o todo = Pieces(text, EndsOf(text))
    /\ buf = Remainder(text, EndsOf(text))

\* Steps that leave the text alone.
LEMMA SentencesQuiet ==
  ASSUME SentencesInv, UNCHANGED <<text, buf, todo, last, spoken, cut>>
  PROVE  SentencesInv'
<1>1. /\ spoken' = spoken /\ todo' = todo /\ buf' = buf /\ text' = text
      /\ last' = last /\ cut' = cut
  OBVIOUS
<1> QED BY <1>1 DEF SentencesInv

\* A phrase is handed to the speech service, or skipped.
LEMMA SentencesSpoken ==
  ASSUME TextInv, SentencesInv, todo # <<>>,
         todo' = Tail(todo), spoken' = Append(spoken, Head(todo)),
         UNCHANGED <<text, buf, last, cut>>
  PROVE  SentencesInv'
<1>1. todo \in Seq(Seq(STRING)) /\ spoken \in Seq(Seq(STRING))
  BY DEF TextInv, TextType
<1>2. Append(spoken, Head(todo)) \o Tail(todo) = spoken \o todo
  BY <1>1, MoveHead
<1>3. (spoken \o todo)' = spoken \o todo
  BY <1>2
<1>4. text' = text /\ buf' = buf /\ last' = last /\ cut' = cut
  OBVIOUS
<1> SUFFICES ASSUME ~cut', ~last'
             PROVE  /\ spoken' \o todo' = Pieces(text', EndsOf(text'))
                    /\ buf' = Remainder(text', EndsOf(text'))
  BY DEF SentencesInv
<1>5. /\ spoken \o todo = Pieces(text, EndsOf(text))
      /\ buf = Remainder(text, EndsOf(text))
  BY <1>4 DEF SentencesInv
<1> QED BY <1>3, <1>4, <1>5

\* A delta: the phrases it brings are the new ones of the text that grew.
LEMMA SentencesReceiveDelta ==
  ASSUME TextInv, SentencesInv, ReceiveDelta, MaxChunkChars \in Nat
  PROVE  SentencesInv'
<1> SUFFICES ASSUME ~cut', ~last'
             PROVE  /\ spoken' \o todo' = Pieces(text', EndsOf(text'))
                    /\ buf' = Remainder(text', EndsOf(text'))
  BY DEF SentencesInv
<1> DEFINE d == llmChunk.data
           r == buf \o d
           ps == Pieces(r, EndsOf(r))
           q == Remainder(r, EndsOf(r))
           g == text \o d
<1>1. /\ llmChunk.kind = "delta" /\ todo = <<>> /\ ~last
      /\ text' = g /\ spoken' = spoken
      /\ buf' = Push(buf, d).rest /\ todo' = Push(buf, d).chunks
      /\ cut' = (cut \/ CanCut(SplitSentences(r, FALSE).rest))
  BY DEF ReceiveDelta, Receiving
<1>2. SplitSentences(r, FALSE) = [chunks |-> ps, rest |-> q]
  BY Zenon DEF SplitSentences, EndsOf
<1> DEFINE split == SplitSentences(r, FALSE)
<1>3. ~cut /\ ~CanCut(q)
  <2>1. cut' = (cut \/ CanCut(split.rest))
    BY <1>1, Zenon
  <2>2. split = [chunks |-> ps, rest |-> q]
    BY <1>2, Zenon
  <2> HIDE DEF split, ps, q
  <2>3. split.rest = q
    BY <2>2
  <2> QED BY <2>1, <2>3
<1>4. Push(buf, d) = CutLong(ps, q)
  <2>1. Push(buf, d) = CutLong(split.chunks, split.rest)
    BY Zenon DEF Push
  <2>2. split = [chunks |-> ps, rest |-> q]
    BY <1>2, Zenon
  <2> HIDE DEF split, ps, q
  <2>3. split.chunks = ps /\ split.rest = q
    BY <2>2
  <2> QED BY <2>1, <2>3
<1>5. /\ text \in Seq(STRING) /\ buf \in Seq(STRING) /\ d \in Seq(STRING)
      /\ spoken \in Seq(Seq(STRING))
  BY <1>1 DEF TextInv, TextType
<1> HIDE DEF d
<1>6. r \in Seq(STRING)
  BY <1>5
<1>7. r = Rest(text, d)
  <2>1. buf = Remainder(text, EndsOf(text))
    BY <1>1, <1>3 DEF SentencesInv
  <2>2. Rest(text, d) = Remainder(text, EndsOf(text)) \o d
    BY <1>5, RestIs
  <2> QED BY <2>1, <2>2
<1> HIDE DEF r
<1>8. ps \in Seq(Seq(STRING)) /\ q \in Seq(STRING)
  BY <1>6, EndsAreSentenceEnds, PiecesKeepText
<1>9. /\ Pieces(g, EndsOf(g)) = Pieces(text, EndsOf(text)) \o ps
      /\ Remainder(g, EndsOf(g)) = q
  BY <1>5, <1>7, PiecesGrow
<1> HIDE DEF ps, q, g
<1>10. todo' = ps /\ buf' = q
  BY <1>1, <1>3, <1>4, <1>8, ShortIsKept
<1>11. spoken = Pieces(text, EndsOf(text))
  <2>1. spoken \o <<>> = spoken
    BY <1>5
  <2>2. spoken \o todo = Pieces(text, EndsOf(text))
    BY <1>1, <1>3 DEF SentencesInv
  <2> QED BY <1>1, <2>1, <2>2
<1> QED BY <1>1, <1>9, <1>10, <1>11

\* The inductive invariant of the phrases: wherever the stream was cut, they
\* are the phrases of the text received, and the buffer holds the rest of it
\* (push, splitSentences).
THEOREM SentencesInductive == Spec => []SentencesInv
<1>1. Init => SentencesInv
  <2> SUFFICES ASSUME Init PROVE SentencesInv
    OBVIOUS
  <2>1. /\ text = <<>> /\ buf = <<>> /\ spoken = <<>> /\ todo = <<>>
        /\ <<>> \in Seq(STRING) /\ Len(<<>>) = 0
    BY ShortSeqs DEF Init
  <2> DEFINE t == <<>>
             ends == EndsOf(t)
  <2>2. t \in Seq(STRING) /\ Len(t) = 0
    BY <2>1
  <2>3. Ascending(ends, Len(t))
    BY <2>1, EndsAreSentenceEnds
  <2> HIDE DEF t, ends
  <2>4. ends = <<>>
    <3>1. ends \in Seq(1 .. 0)
      BY <2>2, <2>3 DEF Ascending
    <3>2. 1 .. 0 = {}
      OBVIOUS
    <3> QED BY <3>1, <3>2
  <2>5. Pieces(t, ends) = <<>>
    BY <2>4 DEF Pieces
  <2>6. Remainder(t, ends) = <<>>
    BY <2>2, <2>4 DEF Remainder
  <2>7. spoken \o todo = <<>>
    BY <2>1
  <2>8. text = t /\ EndsOf(text) = ends
    BY <2>1 DEF t, ends
  <2> QED BY <2>1, <2>5, <2>6, <2>7, <2>8 DEF SentencesInv
<1>2. TextInv /\ SentencesInv /\ [Next]_vars => SentencesInv'
  <2> SUFFICES ASSUME TextInv, SentencesInv, [Next]_vars
               PROVE  SentencesInv'
    OBVIOUS
  <2> DEFINE Still == UNCHANGED <<text, buf, todo, last, spoken, cut>>
  <2>1. Still => SentencesInv'
    BY SentencesQuiet
  <2>2. CASE ReceiveDelta
    BY <2>2, SentencesReceiveDelta, ChunkerConstants
  <2>3. CASE ReceiveEnd
    BY <2>3 DEF ReceiveEnd, LeaveLoop, SentencesInv
  <2>4. CASE Synthesize
    BY <2>4, SentencesSpoken DEF Synthesize
  <2>5. CASE SynthesizeFails
    <3>1. CASE ctxDone
      BY <2>1, <2>5, <3>1 DEF SynthesizeFails, Return, textVars
    <3>2. CASE ~ctxDone
      BY <2>5, <3>2, SentencesSpoken DEF SynthesizeFails
    <3> QED BY <3>1, <3>2
  <2>6. CASE Start \/ StartFails \/ ReceiveErrorCancelled \/ WaitForPlayout
    BY <2>1, <2>6
       DEF Start, StartFails, ReceiveErrorCancelled, WaitForPlayout, Return,
           textVars
  <2>7. CASE ListenSamples \/ ListenEnd \/ ListenErrorCancelled
    BY <2>1, <2>7
       DEF ListenSamples, ListenEnd, ListenErrorCancelled, Return, textVars
  <2>8. CASE QueueFirst \/ QueueNext \/ Queued \/ FlushFrame \/ SendFails
    BY <2>1, <2>8
       DEF QueueFirst, QueueNext, Queued, FlushFrame, SendFails, Return,
           textVars
  <2>9. CASE Llm
    BY <2>1, <2>9
       DEF Llm, LlmDelta, LlmDone, LlmGarbled, LlmReadError, LlmOffers,
           LlmCancelled, textVars
  <2>10. CASE Tts
    BY <2>1, <2>10 DEF Tts, TtsAudio, TtsEnds, TtsCancelled, textVars
  <2>11. CASE Cancel
    BY <2>1, <2>11 DEF Cancel, textVars
  <2>12. CASE UNCHANGED vars
    BY <2>1, <2>12 DEF vars, textVars
  <2> QED
    BY <2>2, <2>3, <2>4, <2>5, <2>6, <2>7, <2>8, <2>9, <2>10, <2>11, <2>12
       DEF Next, Worker
<1>3. Spec => []TextInv
  BY TextInductive
<1> QED BY <1>1, <1>2, <1>3, PTL DEF Spec

\* The phrases spoken so far are the sentences of the text received so far, as
\* long as none was cut for its length: no matter where the stream is cut, a
\* number or an abbreviation is not torn apart.
THEOREM SpeaksSentences == Spec => []StreamSafe
<1>1. TextInv /\ SentencesInv => StreamSafe
  <2> SUFFICES ASSUME TextInv, SentencesInv, ~cut, ~last
               PROVE  spoken \o todo = SentencesOf(text)
    BY DEF StreamSafe
  <2>1. text \in Seq(STRING) /\ Len(text) \in Nat
    BY DEF TextInv, TextType
  <2>2. /\ Ascending(EndsOf(text), Len(text))
        /\ ToSet(EndsOf(text)) = SentenceEnds(text)
    BY <2>1, EndsAreSentenceEnds
  <2>3. InOrder(ToSet(EndsOf(text))) = EndsOf(text)
    BY <2>1, <2>2, AscendingInOrder
  <2>4. SentencesOf(text) = Pieces(text, EndsOf(text))
    BY <2>2, <2>3 DEF SentencesOf
  <2> QED BY <2>4 DEF SentencesInv
<1> QED BY <1>1, TextInductive, SentencesInductive, PTL
=============================================================================
