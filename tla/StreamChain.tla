---------------------------- MODULE StreamChain ----------------------------
(***************************************************************************)
(* The stream building blocks of the SystemC design in a row: a thread in  *)
(* sc_stream::write, a FWD register slice, an sfifo_cc, a FWD_REV slice, a *)
(* BYPASS slice, an rvfifo_cc (a fifo_cc with first word fall through) and *)
(* a thread in sc_stream::read.  Valid runs forward and ready backward     *)
(* through the combinational methods; one step is one rising edge.         *)
(***************************************************************************)
EXTENDS Integers, Sequences

CONSTANTS Word, Zero, NoWord, Depth

ASSUME ChainAssumption == NoWord \notin Word /\ Depth \in Nat \ {0}

VARIABLES fwd,          \* sreg FWD: [valid, data]
          fifo, rev, rv,\* the three rings: sfifo_cc, sreg FWD_REV, fifo_cc
          wval, wdata,  \* the writer's valid and data
          rrdy,         \* the reader's ready
          put, got      \* words that crossed the two ends on the last edge

vars == <<fwd, fifo, rev, rv, wval, wdata, rrdy, put, got>>

\* Signals before the first edge: all false or zero, empty_i included
Zeroed(depth, empty) == [data |-> [i \in 0 .. depth-1 |-> Zero], rd |-> 0, wr |-> 0,
                         full |-> FALSE, empty |-> empty]
PowerUp(depth) == Zeroed(depth, FALSE)
Cleared(depth) == Zeroed(depth, TRUE)

\* mutant: full is compared with the read index after the increment
ms_ring_Full(f, depth, din, w, r) ==
    LET wr_en_i == w /\ ~f.full
        rd_en_i == r /\ ~f.empty
        wr_inc == (f.wr + 1) % depth
        rd_inc == (f.rd + 1) % depth
    IN  [data |-> IF wr_en_i THEN [f.data EXCEPT ![f.wr] = din] ELSE f.data,
         wr |-> IF wr_en_i THEN wr_inc ELSE f.wr,
         rd |-> IF rd_en_i THEN rd_inc ELSE f.rd,
         full |-> IF wr_en_i = rd_en_i THEN f.full ELSE wr_en_i /\ (f.full \/ wr_inc = rd_inc),
         empty |-> IF wr_en_i = rd_en_i THEN f.empty
                   ELSE rd_en_i /\ (f.empty \/ rd_inc = f.wr)]

\* ms_proc of sfifo_cc, of sreg FWD_REV and of fifo_cc: the write enable and
\* the read enable come from mc_proc
ms_ring(f, depth, din, w, r) ==
    LET wr_en_i == w /\ ~f.full
        rd_en_i == r /\ ~f.empty
        wr_inc == (f.wr + 1) % depth
        rd_inc == (f.rd + 1) % depth
    IN  [data |-> IF wr_en_i THEN [f.data EXCEPT ![f.wr] = din] ELSE f.data,
         wr |-> IF wr_en_i THEN wr_inc ELSE f.wr,
         rd |-> IF rd_en_i THEN rd_inc ELSE f.rd,
         full |-> IF wr_en_i = rd_en_i THEN f.full ELSE wr_en_i /\ (f.full \/ wr_inc = f.rd),
         empty |-> IF wr_en_i = rd_en_i THEN f.empty
                   ELSE rd_en_i /\ (f.empty \/ rd_inc = f.wr)]
Out(f) == f.data[f.rd]

\* BYPASS mc_io: what the rvfifo shows upstream is what it shows FWD_REV
mc_io(v, d, rdy) == [valid |-> v, data |-> d, ready |-> rdy]
Bypass == mc_io(~rev.empty, Out(rev), ~rv.full)

\* FWD mc_proc: ready when it is empty or its word is being taken
FwdReady == ~fifo.full \/ ~fwd.valid

\* FWD ms_proc
ms_fwd == fwd' = IF FwdReady THEN [valid |-> wval, data |-> wdata] ELSE fwd

Init ==
    /\ fwd = [valid |-> FALSE, data |-> Zero]
    /\ fifo = PowerUp(Depth) /\ rev = PowerUp(2) /\ rv = PowerUp(Depth)
    /\ wval = FALSE /\ wdata = Zero /\ rrdy = FALSE /\ put = NoWord /\ got = NoWord

\* No edge has found the reset line active yet
Unreset == fifo.empty = FALSE /\ fifo.full = FALSE /\ fifo.wr = fifo.rd

\* An edge that finds the reset line active: the first one, and any later one.
\* The two threads start again; sc_stream leaves their valid and ready as they are.
Reset ==
    /\ fwd' = [valid |-> FALSE, data |-> Zero]
    /\ fifo' = Cleared(Depth) /\ rev' = Cleared(2) /\ rv' = Cleared(Depth)
    /\ put' = NoWord /\ got' = NoWord
    /\ UNCHANGED <<wval, wdata, rrdy>>

\* sc_stream::write: a word and valid are held until an edge sees ready
Write(d) == IF wval /\ ~FwdReady THEN UNCHANGED <<wval, wdata>>
            ELSE IF d = NoWord THEN wval' = FALSE /\ wdata' = wdata
            ELSE wval' = TRUE /\ wdata' = d

\* sc_stream::read: ready is held until an edge sees valid
Read(more) == rrdy' = IF rrdy /\ rv.empty THEN TRUE ELSE more

Edge(d, more) ==
    /\ ~Unreset
    /\ Write(d) /\ Read(more) /\ ms_fwd
    /\ fifo' = ms_ring(fifo, Depth, fwd.data, fwd.valid, ~rev.full)
    /\ rev' = ms_ring(rev, 2, Out(fifo), ~fifo.empty, Bypass.ready)
    /\ rv' = ms_ring(rv, Depth, Bypass.data, Bypass.valid, rrdy)
    /\ put' = IF wval /\ FwdReady THEN wdata ELSE NoWord
    /\ got' = IF rrdy /\ ~rv.empty THEN Out(rv) ELSE NoWord

Next == Reset \/ \E d \in Word \cup {NoWord}, more \in BOOLEAN : Edge(d, more)
\* The clock runs and the reading thread keeps coming back to read
Spec == Init /\ [][Next]_vars /\ WF_vars(Unreset /\ Reset)
             /\ WF_vars(\E d \in Word \cup {NoWord} : Edge(d, TRUE))
-----------------------------------------------------------------------------
Wrap(i, depth) == IF i < depth THEN i ELSE i - depth
Size(f, depth) == IF f.full THEN depth ELSE Wrap(f.wr - f.rd + depth, depth)
Words(f, depth) == [k \in 1 .. Size(f, depth) |-> f.data[Wrap(f.rd + (k - 1), depth)]]

\* What is inside, oldest first, and how much fits
Contents == Words(rv, Depth) \o Words(rev, 2) \o Words(fifo, Depth)
            \o (IF fwd.valid THEN <<fwd.data>> ELSE <<>>)
Room == 2 * Depth + 3

\* The whole chain, with its registers and its combinational ready path, is
\* one queue: words leave in order, none lost or repeated, and no more than
\* the registers hold are inside; a reset at any time empties it.
Q == INSTANCE StreamQueue WITH q <- Contents, Capacity <- Room
ChainIsQueue == Q!Spec
=============================================================================
