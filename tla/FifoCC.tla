------------------------------- MODULE FifoCC -------------------------------
(***************************************************************************)
(* The common-clock FIFO with registered status flags: architecture        *)
(* behaviorR of entity fifo_cc (fifo_cc.vhd), as axis_fifo_cc.vhd wires it *)
(* into a stream (wr_en = tvalid, tready = not full, tvalid = not empty,   *)
(* rd_en = tready, first word falls through).  The SystemC models          *)
(* sfifo_cc.h and fifo_cc.h are the same machine with the depth taken as   *)
(* given instead of rounded to a power of two.  One step is one rising     *)
(* clock edge.                                                             *)
(***************************************************************************)
EXTENDS Naturals, Sequences

CONSTANTS Word, Zero, NoWord,
          DEPTH      \* entries in the ring

ASSUME WordAssumption == Zero \in Word /\ NoWord \notin Word
ASSUME DepthAssumption == DEPTH \in Nat \ {0}

VARIABLES data, rd_idx, wr_idx, full_i, empty_i,
          put, got   \* observers: the words transferred on the last edge

vars == <<data, rd_idx, wr_idx, full_i, empty_i, put, got>>

Idx == 0 .. DEPTH-1
OptWord == Word \cup {NoWord}

inc(i) == (i + 1) % DEPTH

\* mutant: the output looks one entry ahead
dout_Ahead == data[inc(rd_idx)]

\* fwft_ys: the oldest word is on the output without being asked for
dout == data[rd_idx]

\* Indices stay inside the ring and every entry is a word.
TypeOK ==
    /\ data \in [Idx -> Word]
    /\ rd_idx \in Idx /\ wr_idx \in Idx
    /\ full_i \in BOOLEAN /\ empty_i \in BOOLEAN
    /\ put \in OptWord /\ got \in OptWord

\* The state a reset leaves behind
Cleared(d, r, w, f, e) ==
    d = [i \in Idx |-> Zero] /\ r = 0 /\ w = 0 /\ f = FALSE /\ e = TRUE

Init == /\ Cleared(data, rd_idx, wr_idx, full_i, empty_i)
        /\ put = NoWord /\ got = NoWord

\* srst = '1'
Reset == /\ Cleared(data', rd_idx', wr_idx', full_i', empty_i')
         /\ put' = NoWord /\ got' = NoWord

\* fifo_proc for a cycle whose gated enables are wr_en_i and rd_en_i
FifoProc(wr_en_i, din, rd_en_i) ==
    LET wr_inc == inc(wr_idx)
        rd_inc == inc(rd_idx)
    IN  /\ data' = IF wr_en_i THEN [data EXCEPT ![wr_idx] = din] ELSE data
        /\ wr_idx' = IF wr_en_i THEN wr_inc ELSE wr_idx
        /\ rd_idx' = IF rd_en_i THEN rd_inc ELSE rd_idx
        /\ full_i' = IF wr_en_i /\ ~rd_en_i THEN full_i \/ wr_inc = rd_idx
                     ELSE IF rd_en_i /\ ~wr_en_i THEN FALSE ELSE full_i
        /\ empty_i' = IF wr_en_i /\ ~rd_en_i THEN FALSE
                      ELSE IF rd_en_i /\ ~wr_en_i
                           THEN empty_i \/ rd_inc = wr_idx ELSE empty_i

\* mutant: a write is not held back by full
Clock_WriteFull(tvalid, din, tready) ==
    /\ FifoProc(tvalid, din, tready /\ ~empty_i)
    /\ put' = IF tvalid THEN din ELSE NoWord
    /\ got' = IF tready /\ ~empty_i THEN dout ELSE NoWord

\* One edge: the stream master offers din (tvalid), the slave is ready (tready)
Clock(tvalid, din, tready) ==
    LET wr_en_i == tvalid /\ ~full_i
        rd_en_i == tready /\ ~empty_i
    IN  /\ FifoProc(wr_en_i, din, rd_en_i)
        /\ put' = IF wr_en_i THEN din ELSE NoWord
        /\ got' = IF rd_en_i THEN dout ELSE NoWord

Next == \/ Reset
        \/ \E tvalid, tready \in BOOLEAN, din \in Word : Clock(tvalid, din, tready)

Spec == Init /\ [][Next]_vars
-----------------------------------------------------------------------------
\* The words inside the ring, oldest first
Wrap(k) == IF k < DEPTH THEN k ELSE k - DEPTH
Occupancy == IF full_i THEN DEPTH
             ELSE IF rd_idx <= wr_idx THEN wr_idx - rd_idx
             ELSE wr_idx + DEPTH - rd_idx
Contents == [k \in 1 .. Occupancy |-> data[Wrap(rd_idx + (k - 1))]]

\* The two registered flags say which of the two ambiguous states (pointers
\* equal) the ring is in, and are never stale: pointers meet exactly when the
\* ring is full or empty, and it is never both.
FlagsExact ==
    /\ (rd_idx = wr_idx) <=> (full_i \/ empty_i)
    /\ ~(full_i /\ empty_i)

\* AXI4-Stream stability on the output: a word offered and not taken is still
\* offered, unchanged, on the next edge, whatever is written meanwhile.
OfferStable ==
    [][~empty_i /\ got' = NoWord /\ ~Reset => ~empty_i' /\ dout' = dout]_vars

\* The ring implements the queue of StreamQueue.
Q == INSTANCE StreamQueue WITH q <- Contents, Capacity <- DEPTH
ImplementsQueue == Q!Spec
=============================================================================
