----------------------------- MODULE TraceCapture -----------------------------
(***************************************************************************)
(* The trace capture device (axi_tcd.vhd) between the event stream of the  *)
(* performance monitor, a memory used as a ring of bursts, and the program *)
(* that reads the trace back (trace_stop and trace_capture, monitor.c).    *)
(*                                                                         *)
(* One step is an edge of one of the three clocks.  The memory (external)  *)
(* is an AXI slave that may stall every channel, answers in order, and     *)
(* takes up to Early data beats before their address.  Trace entries are   *)
(* the numbers 1 .. N in the order they were emitted, the last BURST_LEN   *)
(* of them the flush events of trace_stop; 0 is the empty reading.         *)
(* An address counts bursts, and one AXI-Lite read takes one entry.        *)
(***************************************************************************)
EXTENDS Integers, Sequences

CONSTANTS BURST_LEN,    \* C_BURST_LEN
          DEPTH,        \* C_FIFO_DEPTH
          BURSTS,       \* memory size in bursts: 2**C_MEM_ADDR_WIDTH / BURST_SIZE
          Lengths,      \* entries a trace may have, flush events included
          Early,        \* data beats the memory takes ahead of their address
          Outstanding,  \* addresses the memory holds per direction
          Captures      \* calls of trace_capture

ASSUME TcdAssumption ==
    /\ BURST_LEN \in Nat /\ BURST_LEN > 2 /\ DEPTH \in Nat /\ DEPTH > BURST_LEN
    /\ BURSTS \in Nat \ {0} /\ Outstanding \in 1 .. BURSTS
    /\ Lengths \subseteq Nat /\ Early \in Nat /\ Captures \in Nat

VARIABLES wfifo, rfifo,                     \* the two fifo_icwt
          wch_burstc, wch_dbeats, m_axi_awaddr_i, comp_awaddr, last_wr,
          rch_dbeats, m_axi_araddr_i, comp_araddr, last_rd,
          forward, forward_sync, m_fifo_rch_empty_d,
          had_aw, had_w, had_ar,
          N, emitted,                       \* stream: length, emitted so far
          mem, awq, wbuf, bs, arq, rbeat,   \* memory
          sw, calls, tot, seen,             \* program; seen: last entry read
          dry                               \* history: see RunsDry

wvars == <<wch_burstc, wch_dbeats, m_axi_awaddr_i, comp_awaddr, last_wr>>
rvars == <<rch_dbeats, m_axi_araddr_i, comp_araddr, last_rd>>
memvars == <<mem, awq, wbuf, bs, arq, rbeat>>
svars == <<forward, m_fifo_rch_empty_d, had_aw, had_w, had_ar>>
swvars == <<sw, calls, tot, seen, N, dry>>
vars == <<wfifo, rfifo, wvars, rvars, forward_sync, emitted, memvars, svars, swvars>>

Real == N - BURST_LEN                       \* entries before trace_stop

Init ==
    /\ wfifo = <<>> /\ rfifo = <<>>
    /\ wch_burstc = BURST_LEN-1 /\ wch_dbeats = 0 /\ m_axi_awaddr_i = 0
    /\ comp_awaddr = 0 /\ last_wr = FALSE
    /\ rch_dbeats = 0 /\ m_axi_araddr_i = 0 /\ comp_araddr = 0 /\ last_rd = TRUE
    /\ forward = FALSE /\ forward_sync = FALSE /\ m_fifo_rch_empty_d = TRUE
    /\ had_aw = FALSE /\ had_w = FALSE /\ had_ar = FALSE
    /\ N \in Lengths /\ emitted = 0
    /\ mem = [a \in 0 .. BURSTS-1 |-> [i \in 1 .. BURST_LEN |-> <<-1, TRUE>>]]
    /\ awq = <<>> /\ wbuf = <<>> /\ bs = 0 /\ arq = <<>> /\ rbeat = 1
    /\ sw = "idle" /\ calls = 0 /\ tot = 0 /\ seen = 0 /\ dry = FALSE
-----------------------------------------------------------------------------
(* Stream side: s_axis_tready is low only when the FIFO is full.           *)

SAxisEdge ==
    /\ emitted < N /\ Len(wfifo) < DEPTH
    /\ emitted' = emitted + 1
    /\ wfifo' = Append(wfifo, emitted')
    /\ UNCHANGED <<rfifo, wvars, rvars, forward_sync, memvars, svars, swvars>>
-----------------------------------------------------------------------------
(* Memory side, combinatorial signals.                                     *)

mem_full == m_axi_awaddr_i = comp_araddr /\ last_wr
mem_empty == m_axi_araddr_i = comp_awaddr /\ last_rd

\* mutant: the threshold lacks its -1
pempty_OffByOne == Len(wfifo) <= BURST_LEN

m_fifo_wch_pempty == Len(wfifo) < BURST_LEN            \* prog_empty
s_fifo_rch_pfull == Len(rfifo) >= DEPTH - BURST_LEN    \* prog_full

\* mutant: the ring is overwritten while it is read back
awvalid_Overrun == ~m_fifo_wch_pempty /\ wch_dbeats < BURST_LEN-2

m_axi_awvalid_i ==
    /\ ~m_fifo_wch_pempty
    /\ wch_dbeats < BURST_LEN-2
    /\ ~mem_full \/ ~forward_sync

m_axi_wvalid_i == wfifo # <<>>
m_axi_wlast == wch_burstc = 0
m_axi_rready_i == Len(rfifo) < DEPTH

m_axi_arvalid_i ==
    /\ ~s_fifo_rch_pfull
    /\ rch_dbeats < BURST_LEN-2
    /\ ~mem_empty /\ forward_sync

inc(a) == (a + 1) % BURSTS
Beats(valid) == IF valid THEN 1 ELSE 0
-----------------------------------------------------------------------------
(* Memory side, clocked processes; aw, w, b, ar, r: handshakes this edge.  *)

\* mutant: a stored burst does not make the ring count as filled
m_axi_l_Empty(aw, b, ar, rlast) ==
    /\ last_wr' = IF rlast THEN FALSE ELSE last_wr \/ aw
    /\ last_rd' = (last_rd \/ ar)

m_axi_l(aw, b, ar, rlast) ==
    /\ last_wr' = IF rlast THEN FALSE ELSE last_wr \/ aw
    /\ last_rd' = IF b THEN FALSE ELSE last_rd \/ ar

m_axi_aw(aw, w) ==
    /\ m_axi_awaddr_i' = IF aw THEN inc(m_axi_awaddr_i) ELSE m_axi_awaddr_i
    /\ wch_dbeats' = wch_dbeats + BURST_LEN * Beats(aw) - Beats(w)

\* mutant: the beat counter restarts one short
m_axi_w_Short(w) ==
    wch_burstc' = CASE ~w -> wch_burstc
                    [] w /\ m_axi_wlast -> BURST_LEN-2
                    [] OTHER -> wch_burstc - 1

\* wraps, BURST_LEN being a power of two
m_axi_w(w) == wch_burstc' = (wch_burstc - Beats(w)) % BURST_LEN

m_axi_b(b) == comp_awaddr' = IF b THEN inc(comp_awaddr) ELSE comp_awaddr

\* with forward_sync low, a write to a full memory drops the oldest burst
m_axi_ar(aw, ar, r) ==
    IF ~forward_sync
    THEN /\ m_axi_araddr_i' = IF aw /\ mem_full THEN inc(m_axi_araddr_i)
                              ELSE m_axi_araddr_i
         /\ UNCHANGED rch_dbeats
    ELSE /\ m_axi_araddr_i' = IF ar THEN inc(m_axi_araddr_i) ELSE m_axi_araddr_i
         /\ rch_dbeats' = rch_dbeats + BURST_LEN * Beats(ar) - Beats(r)

m_axi_r(aw, rlast) ==
    comp_araddr' = IF (IF forward_sync THEN rlast ELSE aw /\ mem_full)
                   THEN inc(comp_araddr) ELSE comp_araddr
-----------------------------------------------------------------------------
(* The memory as an AXI slave: what it may do, and what it does.           *)

TakesAddress == Len(awq) + bs < Outstanding
TakesData == Len(wbuf) < BURST_LEN * Len(awq) + Early
LastBeat == rbeat = BURST_LEN

\* a burst is stored once its address and all its beats have arrived
MemoryWrite(aw, w, b) ==
    LET q == IF aw THEN Append(awq, m_axi_awaddr_i) ELSE awq
        d == IF w THEN Append(wbuf, <<wfifo[1], m_axi_wlast>>) ELSE wbuf
        full == q # <<>> /\ Len(d) >= BURST_LEN
    IN /\ mem' = IF full THEN [mem EXCEPT ![q[1]] = SubSeq(d, 1, BURST_LEN)] ELSE mem
       /\ awq' = IF full THEN Tail(q) ELSE q
       /\ wbuf' = IF full THEN SubSeq(d, BURST_LEN+1, Len(d)) ELSE d
       /\ bs' = bs + Beats(full) - Beats(b)

MemoryRead(ar, r) ==
    LET q == IF ar THEN Append(arq, m_axi_araddr_i) ELSE arq
    IN /\ arq' = IF r /\ LastBeat THEN Tail(q) ELSE q
       /\ rbeat' = IF r THEN (rbeat % BURST_LEN) + 1 ELSE rbeat

MAxiClock(aw, w, b, ar, r) ==
    /\ aw => m_axi_awvalid_i /\ TakesAddress
    /\ w => m_axi_wvalid_i /\ TakesData
    /\ b => bs > 0
    /\ ar => m_axi_arvalid_i /\ Len(arq) < Outstanding
    /\ r => arq # <<>> /\ m_axi_rready_i
    /\ m_axi_l(aw, b, ar, r /\ LastBeat)
    /\ m_axi_aw(aw, w) /\ m_axi_w(w) /\ m_axi_b(b)
    /\ m_axi_ar(aw, ar, r) /\ m_axi_r(aw, r /\ LastBeat)
    /\ MemoryWrite(aw, w, b) /\ MemoryRead(ar, r)
    /\ wfifo' = IF w THEN Tail(wfifo) ELSE wfifo
    /\ rfifo' = IF r THEN Append(rfifo, mem[arq[1]][rbeat][1]) ELSE rfifo

\* xpm_cdc_single: the copy of forward follows some edges later
ForwardSync == forward_sync' \in {forward_sync, forward}

MAxi(aw, w, b, ar, r) ==
    /\ MAxiClock(aw, w, b, ar, r) /\ ForwardSync
    /\ UNCHANGED <<emitted, svars, swvars>>

MAxiEdge == \E aw, w, b, ar, r \in BOOLEAN : MAxi(aw, w, b, ar, r)
-----------------------------------------------------------------------------
(* Register side and program.                                              *)

s_axi_bvalid_i == had_aw /\ had_w
s_axi_rvalid_i == had_ar /\ (rfifo # <<>> \/ ~forward)
s_axi_rdata == IF rfifo # <<>> THEN rfifo[1] ELSE 0

s_axi_b(awvalid, wvalid, b) ==
    /\ had_aw' = (~b /\ (had_aw \/ awvalid))
    /\ had_w' = (~b /\ (had_w \/ wvalid))

s_axi_r(arvalid, r) == had_ar' = (~r /\ (had_ar \/ arvalid))

s_axi_e == m_fifo_rch_empty_d' = (rfifo = <<>>)

\* mutant: an empty FIFO ends forwarding, drained or not yet filled
s_axi_f_Level(b) ==
    forward' = IF rfifo = <<>> /\ forward THEN FALSE ELSE forward \/ b

\* forwarding ends on the edge that finds the FIFO drained
s_axi_f(b) ==
    forward' = IF rfifo = <<>> /\ ~m_fifo_rch_empty_d THEN FALSE
               ELSE forward \/ b

\* History: the program takes the last word of the read FIFO while others are
\* on their way to it.  Nothing in the loop of trace_capture prevents this.
Drained ==
    /\ emitted = N /\ m_fifo_wch_pempty /\ awq = <<>> /\ bs = 0
    /\ mem_empty /\ arq = <<>>
RunsDry(pop) == pop /\ Len(rfifo) = 1 /\ ~Drained

\* trace_capture: the store *tcd = 0, then loads until an empty reading or
\* until as many entries as the memory holds
trace_capture(b, r) ==
    /\ sw' = CASE b -> "load"
               [] r /\ (s_axi_rdata = 0 \/ tot + 1 = BURSTS * BURST_LEN) -> "idle"
               [] OTHER -> sw
    /\ tot' = IF r THEN tot + 1 ELSE tot
    /\ seen' = IF r /\ s_axi_rdata # 0 THEN s_axi_rdata ELSE seen
    /\ UNCHANGED <<calls, N>>

SAxiClock(awvalid, wvalid, bready, arvalid, rready) ==
    LET b == s_axi_bvalid_i /\ bready
        r == s_axi_rvalid_i /\ rready
        pop == had_ar /\ rready /\ rfifo # <<>>     \* m_fifo_rch_enable
    IN /\ awvalid => sw = "store" /\ ~had_aw
       /\ wvalid => sw = "store" /\ ~had_w
       /\ arvalid => sw = "load" /\ ~had_ar
       /\ s_axi_b(awvalid, wvalid, b) /\ s_axi_r(arvalid, r)
       /\ s_axi_e /\ s_axi_f(b)
       /\ rfifo' = IF pop THEN Tail(rfifo) ELSE rfifo
       /\ trace_capture(b, r)
       /\ dry' = (dry \/ RunsDry(pop))

SAxi(awvalid, wvalid, bready, arvalid, rready) ==
    /\ SAxiClock(awvalid, wvalid, bready, arvalid, rready)
    /\ UNCHANGED <<wfifo, wvars, rvars, forward_sync, emitted, memvars>>

SAxiEdge ==
    \E awvalid, wvalid, bready, arvalid, rready \in BOOLEAN :
        SAxi(awvalid, wvalid, bready, arvalid, rready)

\* the program enters trace_capture
Call ==
    /\ sw = "idle" /\ calls < Captures
    /\ sw' = "store" /\ calls' = calls + 1 /\ tot' = 0
    /\ UNCHANGED <<wfifo, rfifo, wvars, rvars, forward_sync, emitted, memvars,
                   svars, seen, N, dry>>

Next == SAxisEdge \/ MAxiEdge \/ SAxiEdge \/ Call
Spec == Init /\ [][Next]_vars

\* Weak fairness.  A trace has finitely many handshakes, so that each happens
\* in the end says that none stays possible for ever: the memory serves every
\* channel, the stream emits its entries, the synchronizer settles.  The
\* processor finishes each bus access.
Access == SAxi(sw = "store" /\ ~had_aw, sw = "store" /\ ~had_w, TRUE,
               sw = "load" /\ ~had_ar, TRUE)
Fairness ==
    /\ []<>~(m_axi_awvalid_i /\ TakesAddress) /\ []<>~(m_axi_wvalid_i /\ TakesData)
    /\ []<>(bs = 0)
    /\ []<>~(m_axi_arvalid_i /\ Len(arq) < Outstanding)
    /\ []<>~(arq # <<>> /\ m_axi_rready_i)
    /\ []<>~(emitted < N /\ Len(wfifo) < DEPTH)
    /\ []<>(forward_sync = forward)
    /\ WF_vars(Access)

FairSpec == Spec /\ Fairness
-----------------------------------------------------------------------------
(* Properties.                                                             *)

\* Types; the beat counters stay in the integer range DBEATS declares, with data
\* ahead of addresses (negative) and addresses ahead of data.
TypeOK ==
    /\ wfifo \in Seq(1 .. N) /\ Len(wfifo) <= DEPTH
    /\ rfifo \in Seq(1 .. N) /\ Len(rfifo) <= DEPTH
    /\ wch_burstc \in 0 .. BURST_LEN-1
    /\ wch_dbeats \in -Early .. BURST_LEN*2-1
    /\ rch_dbeats \in 0 .. BURST_LEN*2-1
    /\ {m_axi_awaddr_i, comp_awaddr, m_axi_araddr_i, comp_araddr} \subseteq 0 .. BURSTS-1
    /\ {last_wr, last_rd, forward, forward_sync, m_fifo_rch_empty_d, had_aw,
        had_w, had_ar} \subseteq BOOLEAN
    /\ sw \in {"idle", "store", "load"} /\ tot \in 0 .. BURSTS * BURST_LEN

\* m_axi_wlast (wch_burstc = 0) marks exactly the last beat of each burst the
\* memory assembles, however address and data handshakes interleave, and the
\* counters and FIFOs that keep the two channels together stay in their ranges.
BurstsWellFormed ==
    /\ TypeOK
    /\ \A a \in 0 .. BURSTS-1 : \A i \in 1 .. BURST_LEN :
         mem[a][i][2] <=> i = BURST_LEN \/ mem[a][i][1] = -1

\* Within one call the program gets consecutive entries of the trace, and over
\* all calls none twice: ring wrap-around, overwriting while not forwarding and
\* reading back never mix old and new bursts (mem_full, mem_empty, comp_*addr).
\* This is over once the program ran dry: forward falls with reads under way,
\* and the bursts they read may be overwritten.
ReadInOrder ==
    [][seen' # seen => dry \/ (seen' > seen /\ (tot > 0 => seen' = seen + 1))]_vars

\* Real entries the flush cannot reach: a data beat that went ahead of its
\* address is not counted by the FIFO, which then lacks it for a last burst.
Unflushed == IF Early = 0 THEN 0 ELSE Early - 1

\* trace_stop's flush events push the earlier entries out of the write FIFO:
\* when nothing can move any more, none but the last Unflushed real entries
\* waits for an address, in the FIFO or as a beat at the memory.
FlushReaches ==
    emitted = N /\ ~m_axi_awvalid_i /\ ~forward_sync /\ awq = <<>> /\ bs = 0
        => /\ \A i \in 1 .. Len(wfifo) : wfifo[i] > Real - Unflushed
           /\ \A i \in 1 .. Len(wbuf) : wbuf[i][1] > Real - Unflushed

\* An empty reading after a call has begun means that all the flush reaches was
\* read: forward is dropped only when the ring is drained, or after the
\* program overtook the memory and took the last word while others were coming.
EmptyMeansDone ==
    [][sw = "load" /\ sw' = "idle" /\ seen' = seen
         => dry \/ seen >= Real - Unflushed]_vars

\* The comment in trace_stop, "flush FIFO in trace capture device with 16
\* events" (monitor.c): afterwards no earlier entry is left before the ring.
FlushComplete ==
    emitted = N /\ ~m_axi_awvalid_i /\ ~forward_sync /\ awq = <<>> /\ bs = 0
        => /\ \A i \in 1 .. Len(wfifo) : wfifo[i] > Real
           /\ \A i \in 1 .. Len(wbuf) : wbuf[i][1] > Real

\* trace_capture returns, also if the program ran dry: the load it waits for is
\* answered, since the ring has a burst to forward or forwarding has ended.
\* There has to be a burst at all: with Early beats ahead of their address the
\* entries of a very short trace are not enough for one.
CaptureEnds == (sw = "store" /\ N >= BURST_LEN + Early) ~> sw = "idle"

\* Rule 4 of the AXI handshake, quoted in axi_tcd.vhd: an address offered and
\* not taken is still offered after the edge.
AddressStable ==
    [][m_axi_awvalid_i /\ m_axi_awaddr_i' = m_axi_awaddr_i => m_axi_awvalid_i']_vars
=============================================================================
