---------------------------- MODULE FifoCCProofs ----------------------------
(***************************************************************************)
(* FifoCC for every ring depth and every set of words: its type invariant, *)
(* the exactness of its flags, the stability of its output, and that it    *)
(* implements StreamQueue.                                                 *)
(***************************************************************************)
EXTENDS FifoCC, SequenceTheorems, TLAPS

\* The index increment of fifo_proc without the modulus.
LEMMA IncWraps ==
    ASSUME NEW i \in Idx
    PROVE  inc(i) = IF i = DEPTH - 1 THEN 0 ELSE i + 1
  BY DepthAssumption, SMT DEF Idx, inc

\* The inductive invariant: types, and flags that are exact.
IInv == TypeOK /\ FlagsExact

LEMMA ZeroIdx == 0 \in Idx
  BY DepthAssumption DEF Idx

LEMMA InitIInv == Init => IInv
  <1> SUFFICES ASSUME Init PROVE IInv
    OBVIOUS
  <1>1. data \in [Idx -> Word]
    BY WordAssumption DEF Init, Cleared
  <1> QED BY <1>1, ZeroIdx, Zenon DEF Init, Cleared, IInv, TypeOK, FlagsExact, OptWord

LEMMA ResetIInv == Reset => IInv'
  <1> SUFFICES ASSUME Reset PROVE IInv'
    OBVIOUS
  <1>1. data' \in [Idx -> Word]
    BY WordAssumption DEF Reset, Cleared
  <1> QED BY <1>1, ZeroIdx, Zenon DEF Reset, Cleared, IInv, TypeOK, FlagsExact, OptWord

\* One clock edge, in any combination of accepted and delivered words, keeps
\* the flags exact.
LEMMA ClockIInv ==
    ASSUME IInv,
           NEW tvalid \in BOOLEAN, NEW tready \in BOOLEAN, NEW din \in Word,
           Clock(tvalid, din, tready)
    PROVE  IInv'
  <1> DEFINE wr_en_i == tvalid /\ ~full_i
             rd_en_i == tready /\ ~empty_i
  <1>1. /\ inc(rd_idx) = IF rd_idx = DEPTH - 1 THEN 0 ELSE rd_idx + 1
        /\ inc(wr_idx) = IF wr_idx = DEPTH - 1 THEN 0 ELSE wr_idx + 1
        /\ inc(rd_idx) \in Idx /\ inc(wr_idx) \in Idx
    BY IncWraps, DepthAssumption DEF IInv, TypeOK, Idx
  <1>2. TypeOK'
    BY <1>1 DEF IInv, TypeOK, Clock, FifoProc, OptWord, dout
  <1>3. FlagsExact'
    <2>1. CASE wr_en_i /\ rd_en_i
      BY <2>1, <1>1, DepthAssumption DEF IInv, TypeOK, FlagsExact, Clock, FifoProc, Idx
    <2>2. CASE wr_en_i /\ ~rd_en_i
      BY <2>2, <1>1, DepthAssumption DEF IInv, TypeOK, FlagsExact, Clock, FifoProc, Idx
    <2>3. CASE ~wr_en_i /\ rd_en_i
      BY <2>3, <1>1, DepthAssumption DEF IInv, TypeOK, FlagsExact, Clock, FifoProc, Idx
    <2>4. CASE ~wr_en_i /\ ~rd_en_i
      BY <2>4, <1>1, DepthAssumption DEF IInv, TypeOK, FlagsExact, Clock, FifoProc, Idx
    <2> QED BY <2>1, <2>2, <2>3, <2>4
  <1> QED BY <1>2, <1>3 DEF IInv

LEMMA StepIInv == IInv /\ [Next]_vars => IInv'
  <1> SUFFICES ASSUME IInv, [Next]_vars PROVE IInv'
    OBVIOUS
  <1>1. CASE Reset
    BY <1>1, ResetIInv
  <1>2. CASE \E tvalid, tready \in BOOLEAN, din \in Word : Clock(tvalid, din, tready)
    BY <1>2, ClockIInv
  <1>3. CASE UNCHANGED vars
    BY <1>3 DEF vars, IInv, TypeOK, FlagsExact
  <1> QED BY <1>1, <1>2, <1>3 DEF Next

LEMMA Invariance == Spec => []IInv
  BY InitIInv, StepIInv, PTL DEF Spec

\* Type correctness: the indices of fifo_proc never leave the ring, whatever
\* its depth, a power of two or not.
THEOREM TypeCorrect == Spec => []TypeOK
  <1>1. IInv => TypeOK BY DEF IInv
  <1> QED BY <1>1, Invariance, PTL

\* The registered full and empty flags of fifo_proc are exact in every
\* reachable state, at every depth.
THEOREM FlagsCorrect == Spec => []FlagsExact
  <1>1. IInv => FlagsExact BY DEF IInv
  <1> QED BY <1>1, Invariance, PTL

LEMMA StepOfferStable ==
    ASSUME IInv, [Next]_vars, ~empty_i, got' = NoWord, ~Reset
    PROVE  (~empty_i' /\ dout' = dout) \/ UNCHANGED vars
  <1>1. CASE UNCHANGED vars
    BY <1>1
  <1>2. ASSUME NEW tvalid \in BOOLEAN, NEW tready \in BOOLEAN, NEW din \in Word,
               Clock(tvalid, din, tready)
        PROVE  ~empty_i' /\ dout' = dout
    <2>1. ~tready
      BY <1>2, WordAssumption DEF Clock, IInv, TypeOK, dout
    <2>2. rd_idx' = rd_idx /\ ~empty_i'
      BY <1>2, <2>1 DEF Clock, FifoProc, IInv, TypeOK
    <2>3. ~full_i => rd_idx # wr_idx
      BY DEF IInv, FlagsExact, TypeOK
    <2>4. data'[rd_idx] = data[rd_idx]
      BY <1>2, <2>1, <2>3 DEF Clock, FifoProc, IInv, TypeOK
    <2> QED BY <2>2, <2>4 DEF dout
  <1> QED BY <1>1, <1>2 DEF Next

\* A word on the output that is not taken stays there unchanged (AXI4-Stream
\* handshake of axis_fifo_cc), at every depth and under every write pattern.
THEOREM OutputStable == Spec => OfferStable
  <1>1. IInv /\ [Next]_vars =>
           [~empty_i /\ got' = NoWord /\ ~Reset => ~empty_i' /\ dout' = dout]_vars
    BY StepOfferStable
  <1> QED BY <1>1, Invariance, PTL DEF Spec, OfferStable
-----------------------------------------------------------------------------
\* What the refinement mapping yields: a sequence of words whose length the
\* flags describe exactly.
Shape == /\ Occupancy \in 0 .. DEPTH
         /\ Contents \in Seq(Word)
         /\ Len(Contents) = Occupancy
         /\ full_i <=> Occupancy = DEPTH
         /\ empty_i <=> Occupancy = 0

LEMMA ContentsShape == IInv => Shape
  <1> SUFFICES ASSUME IInv PROVE Shape
    OBVIOUS
  <1>1. /\ Occupancy \in 0 .. DEPTH
        /\ full_i <=> Occupancy = DEPTH
        /\ empty_i <=> Occupancy = 0
    BY DepthAssumption DEF IInv, TypeOK, FlagsExact, Occupancy, Idx
  <1>2. \A k \in 1 .. Occupancy : data[Wrap(rd_idx + (k - 1))] \in Word
    BY <1>1, DepthAssumption DEF IInv, TypeOK, Wrap, Idx
  <1>3. Contents \in [1 .. Occupancy -> Word]
    BY <1>2 DEF Contents
  <1>4. Contents \in Seq(Word) /\ Len(Contents) = Occupancy
    BY <1>1, <1>3
  <1> QED BY <1>1, <1>4 DEF Shape

\* The same after a step.
LEMMA NextShape == IInv' => Shape'
  BY ContentsShape, PTL

\* An edge that only accepts appends the accepted word.
LEMMA WriteAppends ==
    ASSUME IInv, IInv', NEW din \in Word, ~full_i, FifoProc(TRUE, din, FALSE)
    PROVE  Contents' = Append(Contents, din)
  <1>1. /\ inc(wr_idx) = IF wr_idx = DEPTH - 1 THEN 0 ELSE wr_idx + 1
        /\ rd_idx' = rd_idx /\ wr_idx' = inc(wr_idx)
        /\ data' = [data EXCEPT ![wr_idx] = din]
    BY IncWraps DEF FifoProc, IInv, TypeOK
  <1>2. Occupancy' = Occupancy + 1
    BY <1>1, DepthAssumption DEF IInv, TypeOK, FlagsExact, Occupancy, Idx, FifoProc
  <1>3. /\ Occupancy \in 0 .. DEPTH-1
        /\ Wrap(rd_idx + Occupancy) = wr_idx
        /\ \A k \in 1 .. Occupancy : Wrap(rd_idx + (k - 1)) # wr_idx
                                  /\ Wrap(rd_idx + (k - 1)) \in Idx
    BY DepthAssumption DEF IInv, TypeOK, FlagsExact, Occupancy, Idx, Wrap
  <1>4. ASSUME NEW k \in 1 .. Occupancy + 1
        PROVE  data'[Wrap(rd_idx + (k - 1))] =
                 IF k = Occupancy + 1 THEN din ELSE data[Wrap(rd_idx + (k - 1))]
    BY <1>1, <1>3 DEF IInv, TypeOK
  <1>5. Contents' = [k \in 1 .. Occupancy + 1 |-> data'[Wrap(rd_idx + (k - 1))]]
    BY <1>1, <1>2 DEF Contents, Wrap
  <1>6. /\ Contents \in Seq(Word) /\ Len(Contents) = Occupancy
        /\ Contents' \in Seq(Word) /\ Len(Contents') = Occupancy + 1
    BY ContentsShape, NextShape, <1>2 DEF Shape
  <1>7. \A k \in 1 .. Occupancy : Contents[k] = data[Wrap(rd_idx + (k - 1))]
    BY DEF Contents
  <1> DEFINE longer == Append(Contents, din)
  <1>8. /\ longer \in Seq(Word) /\ Len(longer) = Occupancy + 1
        /\ \A k \in 1 .. Occupancy : longer[k] = Contents[k]
        /\ longer[Occupancy + 1] = din
    BY <1>6, AppendProperties
  <1>9. \A k \in 1 .. Occupancy + 1 : Contents'[k] = longer[k]
    BY <1>3, <1>4, <1>5, <1>7, <1>8
  <1> HIDE DEF longer
  <1>10. Contents' = longer
    BY <1>6, <1>8, <1>9, SeqEqual
  <1> QED BY <1>10 DEF longer

\* An edge that only delivers takes the oldest word away.
LEMMA ReadTakesHead ==
    ASSUME IInv, IInv', NEW din, ~empty_i, FifoProc(FALSE, din, TRUE)
    PROVE  Contents' = Tail(Contents)
  <1>1. /\ inc(rd_idx) = IF rd_idx = DEPTH - 1 THEN 0 ELSE rd_idx + 1
        /\ rd_idx' = inc(rd_idx) /\ wr_idx' = wr_idx
        /\ data' = data
    BY IncWraps DEF FifoProc, IInv, TypeOK
  <1>2. Occupancy' = Occupancy - 1 /\ Occupancy \in 1 .. DEPTH
    BY <1>1, DepthAssumption DEF IInv, TypeOK, FlagsExact, Occupancy, Idx, FifoProc
  <1>3. \A k \in 1 .. Occupancy - 1 : Wrap(rd_idx' + (k - 1)) = Wrap(rd_idx + k)
    BY <1>1, <1>2, DepthAssumption DEF IInv, TypeOK, Idx, Wrap
  <1>4. Contents' = [k \in 1 .. Occupancy - 1 |-> data[Wrap(rd_idx + k)]]
    <2>1. Contents' = [k \in 1 .. Occupancy - 1 |-> data'[Wrap(rd_idx' + (k - 1))]]
      BY <1>2 DEF Contents, Wrap
    <2> QED BY <2>1, <1>1, <1>3
  <1>5. /\ Contents \in Seq(Word) /\ Len(Contents) = Occupancy
        /\ Contents' \in Seq(Word) /\ Len(Contents') = Occupancy - 1
    BY ContentsShape, NextShape, <1>2 DEF Shape
  <1>6. Contents # <<>>
    BY <1>2, <1>5
  <1>7. /\ Tail(Contents) \in Seq(Word) /\ Len(Tail(Contents)) = Occupancy - 1
        /\ \A k \in 1 .. Occupancy - 1 : Tail(Contents)[k] = Contents[k + 1]
    BY <1>5, <1>6, HeadTailProperties
  <1>8. \A k \in 1 .. Occupancy - 1 : Contents[k + 1] = data[Wrap(rd_idx + k)]
    BY <1>2 DEF Contents
  <1>9. \A k \in 1 .. Occupancy - 1 : Contents'[k] = Tail(Contents)[k]
    BY <1>4, <1>7, <1>8
  <1> QED BY <1>5, <1>7, <1>9, SeqEqual

\* An edge that accepts and delivers does both.
LEMMA BothShift ==
    ASSUME IInv, IInv', NEW din \in Word, ~full_i, ~empty_i, FifoProc(TRUE, din, TRUE)
    PROVE  Contents' = Append(Tail(Contents), din)
  <1>1. /\ inc(rd_idx) = IF rd_idx = DEPTH - 1 THEN 0 ELSE rd_idx + 1
        /\ inc(wr_idx) = IF wr_idx = DEPTH - 1 THEN 0 ELSE wr_idx + 1
        /\ rd_idx' = inc(rd_idx) /\ wr_idx' = inc(wr_idx)
        /\ data' = [data EXCEPT ![wr_idx] = din]
    BY IncWraps DEF FifoProc, IInv, TypeOK
  <1>2. Occupancy' = Occupancy /\ Occupancy \in 1 .. DEPTH-1
    BY <1>1, DepthAssumption DEF IInv, TypeOK, FlagsExact, Occupancy, Idx, FifoProc
  <1>3. /\ Wrap(rd_idx + Occupancy) = wr_idx
        /\ \A k \in 1 .. Occupancy : Wrap(rd_idx' + (k - 1)) = Wrap(rd_idx + k)
        /\ \A k \in 1 .. Occupancy - 1 : Wrap(rd_idx + k) # wr_idx
                                      /\ Wrap(rd_idx + k) \in Idx
    BY <1>1, <1>2, DepthAssumption DEF IInv, TypeOK, FlagsExact, Occupancy, Idx, Wrap
  <1>4. ASSUME NEW k \in 1 .. Occupancy
        PROVE  data'[Wrap(rd_idx' + (k - 1))] =
                 IF k = Occupancy THEN din ELSE data[Wrap(rd_idx + k)]
    BY <1>1, <1>2, <1>3 DEF IInv, TypeOK
  <1>5. Contents' = [k \in 1 .. Occupancy |-> data'[Wrap(rd_idx' + (k - 1))]]
    BY <1>2 DEF Contents, Wrap
  <1>6. /\ Contents \in Seq(Word) /\ Len(Contents) = Occupancy
        /\ Contents' \in Seq(Word) /\ Len(Contents') = Occupancy
        /\ Contents # <<>>
    BY ContentsShape, NextShape, <1>2 DEF Shape
  <1>7. /\ Tail(Contents) \in Seq(Word) /\ Len(Tail(Contents)) = Occupancy - 1
        /\ \A k \in 1 .. Occupancy - 1 : Tail(Contents)[k] = Contents[k + 1]
    BY <1>6, HeadTailProperties
  <1>8. \A k \in 1 .. Occupancy - 1 : Contents[k + 1] = data[Wrap(rd_idx + k)]
    BY <1>2 DEF Contents
  <1> DEFINE shifted == Append(Tail(Contents), din)
  <1>9. /\ shifted \in Seq(Word) /\ Len(shifted) = Occupancy
        /\ \A k \in 1 .. Occupancy - 1 : shifted[k] = Tail(Contents)[k]
        /\ shifted[Occupancy] = din
    BY <1>2, <1>7, AppendProperties
  <1>10. \A k \in 1 .. Occupancy : Contents'[k] = shifted[k]
    BY <1>2, <1>4, <1>5, <1>7, <1>8, <1>9
  <1> HIDE DEF shifted
  <1>11. Contents' = shifted
    BY <1>6, <1>9, <1>10, SeqEqual
  <1> QED BY <1>11 DEF shifted

\* Every edge of the ring is an edge of the queue.
LEMMA ClockRefines ==
    ASSUME IInv, IInv',
           NEW tvalid \in BOOLEAN, NEW tready \in BOOLEAN, NEW din \in Word,
           Clock(tvalid, din, tready)
    PROVE  Q!Next
  <1> DEFINE wr_en_i == tvalid /\ ~full_i
             rd_en_i == tready /\ ~empty_i
             a == IF wr_en_i THEN din ELSE NoWord
             d == IF rd_en_i THEN dout ELSE NoWord
  <1>1. /\ a \in OptWord /\ d \in OptWord
        /\ a # NoWord <=> wr_en_i
        /\ d # NoWord <=> rd_en_i
        /\ put' = a /\ got' = d
    BY WordAssumption DEF Clock, IInv, TypeOK, dout, OptWord
  <1>2. wr_en_i => Len(Contents) < DEPTH
    BY ContentsShape, DepthAssumption DEF Shape
  <1>3. rd_en_i => Contents # <<>> /\ dout = Head(Contents)
    <2> SUFFICES ASSUME rd_en_i PROVE Contents # <<>> /\ dout = Head(Contents)
      OBVIOUS
    <2>1. Occupancy \in 1 .. DEPTH /\ Contents \in Seq(Word) /\ Len(Contents) = Occupancy
      BY ContentsShape DEF Shape
    <2>2. Contents[1] = data[Wrap(rd_idx)]
      BY <2>1 DEF Contents, IInv, TypeOK, Idx
    <2>3. Wrap(rd_idx) = rd_idx
      BY DepthAssumption DEF Wrap, IInv, TypeOK, Idx
    <2> QED BY <2>1, <2>2, <2>3 DEF dout
  <1>4. Contents' = LET rest == IF d # NoWord THEN Tail(Contents) ELSE Contents
                    IN  IF a # NoWord THEN Append(rest, a) ELSE rest
    <2>0. FifoProc(wr_en_i, din, rd_en_i)
      BY DEF Clock
    <2>1. CASE wr_en_i /\ rd_en_i
      <3>1. FifoProc(TRUE, din, TRUE) BY <2>0, <2>1 DEF FifoProc
      <3> QED BY <3>1, <2>1, <1>1, BothShift
    <2>2. CASE wr_en_i /\ ~rd_en_i
      <3>1. FifoProc(TRUE, din, FALSE) BY <2>0, <2>2 DEF FifoProc
      <3> QED BY <3>1, <2>2, <1>1, WriteAppends
    <2>3. CASE ~wr_en_i /\ rd_en_i
      <3>1. FifoProc(FALSE, din, TRUE) BY <2>0, <2>3 DEF FifoProc
      <3> QED BY <3>1, <2>3, <1>1, ReadTakesHead
    <2>4. CASE ~wr_en_i /\ ~rd_en_i
      <3>1. UNCHANGED <<data, rd_idx, wr_idx, full_i, empty_i>>
        BY <2>0, <2>4 DEF FifoProc
      <3>2. Contents' = Contents
        BY <3>1 DEF Contents, Occupancy, Wrap
      <3> QED BY <3>2, <2>4, <1>1
    <2> QED BY <2>1, <2>2, <2>3, <2>4
  <1> HIDE DEF a, d
  <1>5. Q!Edge(a, d)
    <2>1. a # NoWord => Len(Contents) < DEPTH BY <1>1, <1>2
    <2>2. d # NoWord => Contents # <<>> /\ d = Head(Contents)
      BY <1>1, <1>3 DEF d
    <2> QED BY <2>1, <2>2, <1>1, <1>4 DEF Q!Edge
  <1> QED BY <1>1, <1>5 DEF Q!Next, Q!OptWord, OptWord

LEMMA StepRefines == IInv /\ IInv' /\ [Next]_vars => [Q!Next]_(Q!qvars)
  <1> SUFFICES ASSUME IInv, IInv', [Next]_vars PROVE Q!Next \/ UNCHANGED Q!qvars
    OBVIOUS
  <1>1. CASE Reset
    <2>1. ~full_i' /\ rd_idx' = 0 /\ wr_idx' = 0 /\ put' = NoWord /\ got' = NoWord
      BY <1>1 DEF Reset, Cleared
    <2>2. Occupancy' = 0
      BY <2>1 DEF Occupancy
    <2>3. Contents' = <<>>
      BY <2>2, NextShape DEF Shape
    <2> QED BY <2>1, <2>3 DEF Q!Next, Q!Reset
  <1>2. CASE \E tvalid, tready \in BOOLEAN, din \in Word : Clock(tvalid, din, tready)
    BY <1>2, ClockRefines
  <1>3. CASE UNCHANGED vars
    BY <1>3 DEF vars, Q!qvars, Contents, Occupancy, Wrap
  <1> QED BY <1>1, <1>2, <1>3 DEF Next

\* The ring of fifo_cc(behaviorR), at every depth, implements the bounded
\* queue: nothing lost, nothing repeated, nothing reordered.
THEOREM FifoImplementsQueue == Spec => ImplementsQueue
  <1>1. Init => Q!Init
    <2> SUFFICES ASSUME Init PROVE Q!Init
      OBVIOUS
    <2>1. ~full_i /\ rd_idx = 0 /\ wr_idx = 0 /\ put = NoWord /\ got = NoWord
      BY DEF Init, Cleared
    <2>2. Occupancy = 0
      BY <2>1 DEF Occupancy
    <2>3. Contents = <<>>
      BY <2>2, InitIInv, ContentsShape DEF Shape
    <2> QED BY <2>1, <2>3 DEF Q!Init
  <1> QED BY <1>1, Invariance, StepRefines, PTL DEF Spec, ImplementsQueue, Q!Spec
=============================================================================
