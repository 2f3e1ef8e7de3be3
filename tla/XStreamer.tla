----------------------------- MODULE XStreamer -----------------------------
(***************************************************************************)
(* The byte streamer of the FIFO driver (xstreamer.c): writes and reads of *)
(* any length at any alignment over a FIFO that only moves words, through  *)
(* a holding buffer on either side.  Bytes are numbered in the order they  *)
(* are sent.                                                               *)
(***************************************************************************)
EXTENDS Integers, Sequences, SequencesExt

CONSTANTS FifoWidth,  \* bytes of a word
          TxDepth,    \* words of the transmit FIFO
          Lengths,    \* lengths of the caller's buffers
          Aligns,     \* their addresses modulo 4
          MaxBytes    \* bytes sent in a run

VARIABLES tx,      \* [TailIndex, bytes, fifo]: index, holding buffer, words written
          rx,      \* [HeadIndex, bytes, FrmByteCnt, fifo]
          frames,  \* frames sent and not yet opened: [len, words]
          total, frame, \* bytes written in all, and in the current frame
          got, short    \* observers: bytes read; a word was not there to read

vars == <<tx, rx, frames, total, frame, got, short>>

Least(a, b) == IF a < b THEN a ELSE b
Words(bs) == [w \in 1 .. Len(bs) \div FifoWidth |->
                SubSeq(bs, (w - 1) * FifoWidth + 1, w * FifoWidth)]
Drop(s, n) == SubSeq(s, n + 1, Len(s))
Flush(t) == [t EXCEPT !.fifo = Append(@, t.bytes), !.TailIndex = 0]

Init ==
    /\ tx = [TailIndex |-> 0, bytes |-> [i \in 1 .. FifoWidth |-> 0], fifo |-> <<>>]
    /\ rx = [HeadIndex |-> FifoWidth, bytes |-> [i \in 1 .. FifoWidth |-> 0],
             FrmByteCnt |-> 0, fifo |-> <<>>]
    /\ frames = <<>> /\ total = 0 /\ frame = 0 /\ got = <<>> /\ short = FALSE

\* XStrm_Write of the bytes src at alignment a, one iteration of its loop
RECURSIVE XStrm_Write(_, _, _)
WriteCase2(t, src, a) == t.TailIndex = 0 /\ Len(src) >= FifoWidth /\ a = 0
XStrm_Write(t0, src, a) ==
    LET t == IF t0.TailIndex = FifoWidth THEN Flush(t0) ELSE t0
        whole == (Len(src) \div FifoWidth) * FifoWidth
        n == Least(Len(src), FifoWidth - t.TailIndex)
    IN  IF src = <<>> THEN t0
        ELSE IF WriteCase2(t, src, a)
        THEN XStrm_Write([t EXCEPT !.fifo = @ \o Words(src)], Drop(src, whole), a)
        ELSE XStrm_Write([t EXCEPT !.TailIndex = @ + n,
                             !.bytes = [i \in 1 .. FifoWidth |->
                                          IF i > t.TailIndex /\ i <= t.TailIndex + n
                                          THEN src[i - t.TailIndex] ELSE @[i]]],
                         Drop(src, n), (a + n) % 4)

\* XStrm_Read of n bytes at alignment a; s.out collects them
RECURSIVE XStrm_Read(_, _, _)
XStrm_Read(s, n, a) ==
    LET k == Least(n, FifoWidth - s.r.HeadIndex)
        whole == n \div FifoWidth
        have == Least(whole, Len(s.r.fifo))
    IN  IF n = 0 THEN IF s.r.FrmByteCnt = 0 THEN [s EXCEPT !.r.HeadIndex = 0] ELSE s
        ELSE IF s.r.HeadIndex # FifoWidth
        THEN XStrm_Read([s EXCEPT !.out = @ \o SubSeq(s.r.bytes, s.r.HeadIndex + 1, s.r.HeadIndex + k),
                                  !.r.HeadIndex = @ + k, !.r.FrmByteCnt = @ - k],
                        n - k, (a + k) % 4)
        ELSE IF a = 0 /\ n >= FifoWidth
        THEN XStrm_Read([s EXCEPT !.out = @ \o FlattenSeq(SubSeq(s.r.fifo, 1, have)),
                                  !.short = @ \/ have < whole,
                                  !.r.fifo = Drop(@, have),
                                  !.r.FrmByteCnt = @ - whole * FifoWidth],
                        n - whole * FifoWidth, a)
        ELSE XStrm_Read([s EXCEPT !.short = @ \/ s.r.fifo = <<>>,
                                  !.r.bytes = IF s.r.fifo = <<>> THEN @ ELSE Head(s.r.fifo),
                                  !.r.fifo = IF s.r.fifo = <<>> THEN @ ELSE Tail(s.r.fifo),
                                  !.r.HeadIndex = 0], n, a)

\* XStrm_TxVacancy, in words
XStrm_TxVacancy == TxDepth - Len(tx.fifo) - ((tx.TailIndex + 3) \div 4)

\* A caller that checks the vacancy first writes n bytes
Write(n, a) ==
    /\ total + n <= MaxBytes /\ n <= FifoWidth * XStrm_TxVacancy
    /\ tx' = XStrm_Write(tx, [k \in 1 .. n |-> total + k], a)
    /\ total' = total + n /\ frame' = frame + n
    /\ UNCHANGED <<rx, frames, got, short>>

Flushed == IF tx.TailIndex # 0 THEN Flush(tx) ELSE tx

\* XStrm_TxSetLen; the core (external) sends the frame and frees its words
XStrm_TxSetLen ==
    /\ frame > 0
    /\ frames' = Append(frames, [len |-> frame, words |-> Flushed.fifo])
    /\ tx' = [Flushed EXCEPT !.fifo = <<>>] /\ frame' = 0
    /\ UNCHANGED <<rx, total, got, short>>

\* XStrm_RxGetLen opens the next frame
XStrm_RxGetLen ==
    /\ frames # <<>> /\ rx.FrmByteCnt = 0
    /\ rx' = [rx EXCEPT !.HeadIndex = FifoWidth, !.FrmByteCnt = Head(frames).len,
                        !.fifo = Head(frames).words]
    /\ frames' = Tail(frames)
    /\ UNCHANGED <<tx, total, frame, got, short>>

\* A caller that keeps to the frame reads n bytes
Read(n, a) ==
    LET s == XStrm_Read([r |-> rx, out |-> <<>>, short |-> short], n, a)
    IN  /\ n <= rx.FrmByteCnt
        /\ rx' = s.r /\ got' = got \o s.out /\ short' = s.short
        /\ UNCHANGED <<tx, frames, total, frame>>

Next == \/ XStrm_TxSetLen \/ XStrm_RxGetLen
        \/ \E n \in Lengths, a \in Aligns : Write(n, a) \/ Read(n, a)
Spec == Init /\ [][Next]_vars
-----------------------------------------------------------------------------
\* The bytes read are the bytes written, in order, none missing, repeated or
\* stale, for every split into calls and every alignment; and no word is read
\* that the frame does not have.
BytesExact == ~short /\ got = [k \in 1 .. Len(got) |-> k]

\* A caller that trusts XStrm_TxVacancy never overfills the FIFO, the bytes
\* still in the holding buffer included.
VacancySafe == Len(Flushed.fifo) <= TxDepth
=============================================================================
