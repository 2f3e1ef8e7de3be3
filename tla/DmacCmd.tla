------------------------------ MODULE DmacCmd ------------------------------
(***************************************************************************)
(* The copy commands of the standalone build that drive the PL330 DMA      *)
(* controller (shared/standalone/dmac_cmd.c).  dmac_smemcpy assembles a    *)
(* DMAC program by hand; the controller that runs it, its data FIFO and    *)
(* the XDmaPs driver that owns the program buffers are external.           *)
(*                                                                         *)
(* Source byte a holds the value a, and a destination is the sequence of   *)
(* bytes the stores wrote, so the result of a copy names where each byte   *)
(* came from.                                                              *)
(***************************************************************************)
EXTENDS Naturals, SequencesExt

CONSTANTS Inner,      \* loads before a wide store: 32 in the code
          WideStore,  \* bytes of a wide store: 8 x 16 in the code
          LoopMax,    \* what a DMALP counter holds: 256 in the hardware
          BufCount,   \* program buffers of a channel (XDMAPS_MAX_CHAN_BUFS)
          Copies,     \* the calls of dmac_smemcpy: [block_sz, dst_inc, src_inc, n]
          Lengths,    \* the calls of dmac_memcpy
          MaxCalls

VARIABLES pool,     \* free program buffers of the channel
          refused,  \* DMAGOs the controller refused
          exited,   \* dmac_info(); exit(1)
          last,     \* the last call and what it returned
          calls

vars == <<pool, refused, exited, last, calls>>

(* Size and number of the beats of one burst over n bytes *)
burst_sz(n) == IF n < 2 THEN 1 ELSE IF n < 4 THEN 2 ELSE IF n < 8 THEN 4 ELSE 8

burst_len(n) == IF n \div burst_sz(n) > 16 THEN 16 ELSE n \div burst_sz(n)

Times(k, s) == FlattenSeq([i \in 1..k |-> s])

(* DMALP: the counter is loaded with iterations - 1, modulo its width *)
DMALP(iterations, body) == Times(1 + ((iterations - 1) % LoopMax), body)

LD == [op |-> "LD", arg |-> 0]
ST == [op |-> "ST", arg |-> 0]
CCR(bytes) == [op |-> "CCR", arg |-> bytes]
ADDH(inc) == [op |-> "ADDH", arg |-> inc]

(***************************************************************************)
(* One DMAC instruction.  SrcInc is not set, so every beat of a load reads *)
(* the same address; DstInc is.  A store waits for its bytes in the FIFO,  *)
(* for ever if no load brings them, and data left at the end is a fault.   *)
(***************************************************************************)
Execute(sz, len, d, i) ==
    CASE i.op = "LD"   -> [d EXCEPT !.fifo = @ \o [b \in 1..sz * len |-> d.sar + ((b - 1) % sz)]]
      [] i.op = "ADDH" -> [d EXCEPT !.sar = @ + i.arg]
      [] i.op = "CCR"  -> [d EXCEPT !.store = i.arg]
      [] i.op = "ST" /\ Len(d.fifo) < d.store -> [d EXCEPT !.fault = TRUE]
      [] i.op = "ST" /\ Len(d.fifo) >= d.store ->
             [d EXCEPT !.out = @ \o SubSeq(d.fifo, 1, d.store),
                       !.fifo = SubSeq(@, d.store + 1, Len(@))]

RECURSIVE RunFrom(_, _, _, _)
RunFrom(sz, len, d, prog) ==
    IF prog = <<>> \/ d.fault THEN d
    ELSE RunFrom(sz, len, Execute(sz, len, d, Head(prog)), Tail(prog))

RunProgram(sz, len, prog) ==
    LET end == RunFrom(sz, len, [sar |-> 0, fifo |-> <<>>, store |-> 0, out |-> <<>>,
                                 fault |-> FALSE], prog)
    IN [end EXCEPT !.fault = @ \/ end.fifo # <<>>]

\* mutant: the source address stands still in the wide loop
WideLoop_NoStep(c) ==
    LET loop1 == c.n \div (4 * Inner)
    IN IF loop1 = 0 THEN <<>>
       ELSE <<CCR(WideStore)>> \o DMALP(loop1, Times(4, Append(DMALP(Inner, <<LD>>), ST)))

(* n >> 7 groups of four rounds, each of Inner loads and one wide store *)
WideLoop(c) ==
    LET loop1 == c.n \div (4 * Inner)
    IN IF loop1 = 0 THEN <<>>
       ELSE <<CCR(WideStore)>>
            \o DMALP(loop1, Times(4, Append(DMALP(Inner, <<LD, ADDH(c.src_inc)>>), ST)))

(* the n & 0x7F blocks that are left, one at a time *)
TailLoop(c) ==
    LET loop0 == c.n % (4 * Inner)
    IN IF loop0 = 0 THEN <<>>
       ELSE <<CCR(burst_sz(c.block_sz) * burst_len(c.block_sz))>>
            \o DMALP(loop0, <<LD, ST, ADDH(c.src_inc)>>)

Program(c) == WideLoop(c) \o TailLoop(c)

(***************************************************************************)
(* The end of both commands: DMAGO, the poll of the channel status, and    *)
(* the release of the program.  A refused DMAGO returns NULL and keeps the *)
(* buffer; a fault ends the program.                                       *)
(***************************************************************************)
Finish(what, d, refuse) ==
    /\ pool' = IF refuse \/ d.fault THEN pool - 1 ELSE pool
    /\ refused' = IF refuse THEN refused + 1 ELSE refused
    /\ exited' = (~refuse /\ d.fault)
    /\ last' = [call |-> what, refused |-> refuse, ret |-> ~refuse, dst |-> IF refuse THEN <<>> ELSE d.out]

(* No program buffer: the command returns NULL *)
NoBuffer(what) ==
    /\ last' = [call |-> what, refused |-> FALSE, ret |-> FALSE, dst |-> <<>>]
    /\ UNCHANGED <<pool, refused, exited>>

(* dst_inc is not used: the destination goes on by what is stored *)
dmac_smemcpy(c, refuse) ==
    IF pool = 0 THEN NoBuffer(c)
    ELSE Finish(c, RunProgram(burst_sz(c.block_sz), burst_len(c.block_sz), Program(c)), refuse)

(* XDmaPs_GenDmaProg writes the program of a contiguous copy *)
dmac_memcpy(n, refuse) ==
    LET c == [block_sz |-> 1, dst_inc |-> 1, src_inc |-> 1, n |-> n]
    IN IF pool = 0 THEN NoBuffer(c)
       ELSE Finish(c, [out |-> [i \in 1..n |-> i - 1], fault |-> FALSE], refuse)

Init ==
    /\ pool = BufCount /\ refused = 0 /\ exited = FALSE /\ calls = 0
    /\ last = [call |-> [block_sz |-> 1, dst_inc |-> 1, src_inc |-> 1, n |-> 0],
               refused |-> FALSE, ret |-> TRUE, dst |-> <<>>]

Next ==
    /\ ~exited /\ calls < MaxCalls
    /\ calls' = calls + 1
    /\ \/ \E c \in Copies, refuse \in BOOLEAN : dmac_smemcpy(c, refuse)
       \/ \E n \in Lengths, refuse \in BOOLEAN : dmac_memcpy(n, refuse)

Spec == Init /\ [][Next]_vars

-----------------------------------------------------------------------------
(* The calls dmac_smemcpy is written for: a block is one beat, and there   *)
(* are enough blocks for the wide loop only if a round of it fills a store *)
(* (blocks of four bytes in the code, which is what dre.c copies).  Beyond *)
(* them loads and stores do not match.                                     *)
OneBeat(c) == c.block_sz \in {1, 2, 4, 8}
Groups(c) == c.n \div (4 * Inner)
Served(c) == OneBeat(c) /\ (Groups(c) = 0 \/ (Inner * c.block_sz = WideStore /\ Groups(c) <= LoopMax))

(* Gather: a copy that returns, of a call the program is written for, has  *)
(* stored exactly the n blocks, in order, each from its own source address *)
(* and next to each other whatever dst_inc asks for; and such a call never *)
(* faults the channel (dmac_smemcpy).                                      *)
GatherExact ==
    Served(last.call) =>
        /\ ~exited
        /\ last.ret => last.dst = [i \in 1..last.call.n * last.call.block_sz |->
               ((i - 1) \div last.call.block_sz) * last.call.src_inc + ((i - 1) % last.call.block_sz)]

(* Every refused start costs a program buffer for good, since both commands *)
(* return without XDmaPs_FreeDmaProg, and nothing else does; a command      *)
(* returns NULL only if it was refused or if those refusals used them up.   *)
BuffersAccounted ==
    /\ ~exited => pool = BufCount - refused
    /\ ~last.ret => last.refused \/ refused = BufCount
=============================================================================
