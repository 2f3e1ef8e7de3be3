------------------------------- MODULE ScDma -------------------------------
(***************************************************************************)
(* The data movers of the SystemC load-store unit (lsu.h): mm2s reads      *)
(* memory into a stream, s2mm writes a stream to memory, each with a       *)
(* command thread, a response thread, a pool of transaction payloads       *)
(* (tmanage) and a queue of memory responses.  The two are joined as       *)
(* lsu_memcpy uses them: what mm2s reads is what s2mm writes.  Threads     *)
(* interleave freely, so wait(n) is any finite delay; words of memory are  *)
(* 4 bytes, flits 8.  The memory answers the payloads in any order.        *)
(***************************************************************************)
EXTENDS Integers, Sequences, FiniteSets, SequencesExt

CONSTANTS MAX_BLOCK_SIZE,  \* bytes; a transaction does not cross a multiple
          OUTSTANDING,     \* depth of u_trans; the pool holds one more
          DMAS_DEPTH,      \* depth of u_dmas
          Programs,        \* sequences of copies [src, dst, size]
          MemWords         \* size of the memory

R == "r"
W == "w"
Eng == {R, W}
WordBytes == 4
Flit == 8

VARIABLES host,    \* the copies to make, and whether the first is under way
          busy,
          u_dmac,  \* per engine: queued DMA commands,
          cmd,     \*   its command thread [pc, dmac, addr, size, len, taddr],
          u_trans, \*   transactions whose response is due,
          list,    \*   free payloads, last freed first,
          flight,  \*   payloads at the memory,
          peq,     \*   payloads answered,
          rsp,     \*   its response thread [pc, trans, addr, len],
          u_dmas,  \*   and its statuses
          mem,     \* memory, by word
          want     \* observer: what memory must hold once the host is done

vars == <<host, busy, u_dmac, cmd, u_trans, list, flight, peq, rsp, u_dmas, mem, want>>

Payloads == 1 .. (OUTSTANDING + 1)
Copied(m, c) == [w \in DOMAIN m |->
    LET d == w - c.dst \div WordBytes
    IN  IF d \in 0 .. c.size \div WordBytes - 1 THEN m[c.src \div WordBytes + d] ELSE m[w]]

Init ==
    /\ host \in Programs /\ busy = FALSE
    /\ u_dmac = [e \in Eng |-> <<>>] /\ u_trans = [e \in Eng |-> <<>>]
    /\ cmd = [e \in Eng |-> [pc |-> "read", last |-> FALSE, addr |-> 0, size |-> 0,
                             len |-> 0, taddr |-> 0]]
    /\ rsp = [e \in Eng |-> [pc |-> "read", last |-> FALSE, addr |-> 0, len |-> 0]]
    /\ list = [e \in Eng |-> SetToSeq(Payloads)] /\ flight = [e \in Eng |-> {}]
    /\ peq = [e \in Eng |-> <<>>] /\ u_dmas = [e \in Eng |-> <<>>]
    /\ mem = [w \in 0 .. MemWords-1 |-> w] /\ want = mem

\* lsu_memcpy: a load command, a store command that asks for its status
lsu_memcpy ==
    /\ ~busy /\ host # <<>>
    /\ busy' = TRUE
    /\ LET c == Head(host)
       IN  /\ u_dmac' = [u_dmac EXCEPT ![R] = Append(@, [addr |-> c.src, size |-> c.size]),
                                       ![W] = Append(@, [addr |-> c.dst, size |-> c.size])]
           /\ want' = Copied(want, c)
    /\ UNCHANGED <<host, cmd, u_trans, list, flight, peq, rsp, u_dmas, mem>>

\* The status the host waits for.  The load's own status is dropped: no one
\* asked for it (lsuctl answers only tag.req).
stream_recv ==
    /\ u_dmas[W] # <<>>
    /\ u_dmas' = [u_dmas EXCEPT ![W] = Tail(@)]
    /\ busy' = FALSE /\ host' = Tail(host)
    /\ UNCHANGED <<u_dmac, cmd, u_trans, list, flight, peq, rsp, mem, want>>
DropStatus ==
    /\ u_dmas[R] # <<>>
    /\ u_dmas' = [u_dmas EXCEPT ![R] = Tail(@)]
    /\ UNCHANGED <<host, busy, u_dmac, cmd, u_trans, list, flight, peq, rsp, mem, want>>

Set(e, c) == cmd' = [cmd EXCEPT ![e] = c]
\* Top of a command thread's loops: another block, or the next command
Loop(c) == [c EXCEPT !.pc = IF c.size = 0 THEN "read" ELSE "calc"]

\* c_dmac.read()
ReadDmac(e) ==
    /\ cmd[e].pc = "read" /\ u_dmac[e] # <<>>
    /\ LET d == Head(u_dmac[e])
       IN  Set(e, Loop([cmd[e] EXCEPT !.addr = d.addr, !.size = d.size]))
    /\ u_dmac' = [u_dmac EXCEPT ![e] = Tail(@)]
    /\ UNCHANGED <<host, busy, u_trans, list, flight, peq, rsp, u_dmas, mem, want>>

\* The aligned block the address lies in, or what is left of the transfer
tsize(c) == LET bsize == MAX_BLOCK_SIZE - (c.addr % MAX_BLOCK_SIZE)
            IN  IF c.size < bsize THEN c.size ELSE bsize

\* wait(ADDR_CALC_CYCLES) and the throttle; s2mm then reads its data
Calc(e) ==
    /\ cmd[e].pc = "calc"
    /\ Set(e, [cmd[e] EXCEPT !.pc = IF e = W THEN "data" ELSE "alloc",
                             !.len = tsize(cmd[e]), !.taddr = cmd[e].addr \div WordBytes])
    /\ UNCHANGED <<host, busy, u_dmac, u_trans, list, flight, peq, rsp, u_dmas, mem, want>>

\* tmanage: the free list without its first payload, and with one more
allocate(l) == Tail(l)
free(l, p) == <<p>> \o l

\* tpool.allocate() (waits for a free payload) and nb_transport_fw
Allocate(e) ==
    /\ cmd[e].pc = "alloc" /\ list[e] # <<>>
    /\ list' = [list EXCEPT ![e] = allocate(@)]
    /\ flight' = [flight EXCEPT ![e] = @ \cup {Head(list[e])}]
    /\ Set(e, [cmd[e] EXCEPT !.pc = "trans"])
    /\ UNCHANGED <<host, busy, u_dmac, u_trans, peq, rsp, u_dmas, mem, want>>

\* mutant: last is set on the block that ends a page, not the transfer
EndsTransfer_Block(c) == tsize(c) = MAX_BLOCK_SIZE - (c.addr % MAX_BLOCK_SIZE)
EndsTransfer(c) == c.size = tsize(c)

\* c_transi.write(trans)
WriteTrans(e) ==
    /\ cmd[e].pc = "trans" /\ Len(u_trans[e]) < OUTSTANDING
    /\ LET c == cmd[e]
           t == tsize(c)
       IN  /\ u_trans' = [u_trans EXCEPT ![e] =
                             Append(@, [addr |-> c.addr, size |-> t, last |-> EndsTransfer(c)])]
           /\ Set(e, Loop([c EXCEPT !.addr = @ + t, !.size = @ - t]))
    /\ UNCHANGED <<host, busy, u_dmac, list, flight, peq, rsp, u_dmas, mem, want>>

\* nb_transport_bw: the memory answers any payload it holds
nb_transport_bw(e) ==
    /\ \E p \in flight[e] : /\ flight' = [flight EXCEPT ![e] = @ \ {p}]
                            /\ peq' = [peq EXCEPT ![e] = Append(@, p)]
    /\ UNCHANGED <<host, busy, u_dmac, cmd, u_trans, list, rsp, u_dmas, mem, want>>

\* c_transo.read()
ReadTrans(e) ==
    /\ rsp[e].pc = "read" /\ u_trans[e] # <<>>
    /\ LET t == Head(u_trans[e])
       IN  rsp' = [rsp EXCEPT ![e] = [pc |-> "peq", last |-> t.last, addr |-> t.addr \div WordBytes,
                                      len |-> (t.size + Flit - 1) \div Flit]]
    /\ u_trans' = [u_trans EXCEPT ![e] = Tail(@)]
    /\ UNCHANGED <<host, busy, u_dmac, cmd, list, flight, peq, u_dmas, mem, want>>

\* After a transaction's data: its status if it ended a transfer
After(s) == [s EXCEPT !.pc = IF s.last THEN "dmas" ELSE "read"]

\* peq.get_next_transaction(), tpay->release(); mm2s then sends its data
GetResponse(e) ==
    /\ rsp[e].pc = "peq" /\ peq[e] # <<>>
    /\ list' = [list EXCEPT ![e] = free(@, Head(peq[e]))]
    /\ peq' = [peq EXCEPT ![e] = Tail(@)]
    /\ rsp' = [rsp EXCEPT ![e] = IF e = R THEN [@ EXCEPT !.pc = "flit"] ELSE After(@)]
    /\ UNCHANGED <<host, busy, u_dmac, cmd, u_trans, flight, u_dmas, mem, want>>

\* m_dat.write(flit) of mm2s meets s_dat.read() of s2mm: both words are kept,
\* and s2mm counts its bytes down as an unsigned number
MoveFlit ==
    LET s == rsp[R]
        c == cmd[W]
    IN  /\ s.pc = "flit" /\ c.pc = "data"
        /\ c.taddr + 1 < MemWords
        /\ mem' = [mem EXCEPT ![c.taddr] = mem[s.addr], ![c.taddr + 1] = mem[s.addr + 1]]
        /\ LET left == c.len - Flit
           IN  Set(W, [c EXCEPT !.taddr = @ + 2, !.len = left,
                                !.pc = IF left = 0 THEN "alloc" ELSE "data"])
        /\ rsp' = [rsp EXCEPT ![R] = IF s.len = 1 THEN After(s)
                                     ELSE [s EXCEPT !.addr = @ + 2, !.len = @ - 1]]
        /\ UNCHANGED <<host, busy, u_dmac, u_trans, list, flight, peq, u_dmas, want>>

\* c_dmas.write(dmas)
WriteDmas(e) ==
    /\ rsp[e].pc = "dmas" /\ Len(u_dmas[e]) < DMAS_DEPTH
    /\ u_dmas' = [u_dmas EXCEPT ![e] = Append(@, "okay")]
    /\ rsp' = [rsp EXCEPT ![e].pc = "read"]
    /\ UNCHANGED <<host, busy, u_dmac, cmd, u_trans, list, flight, peq, mem, want>>

Engine(e) == \/ ReadDmac(e) \/ Calc(e) \/ Allocate(e) \/ WriteTrans(e)
             \/ nb_transport_bw(e) \/ ReadTrans(e) \/ GetResponse(e) \/ WriteDmas(e)
Next == lsu_memcpy \/ stream_recv \/ DropStatus \/ MoveFlit \/ \E e \in Eng : Engine(e)

\* Clocked threads and the memory always make progress
Fairness == WF_vars(Next)
Spec == Init /\ [][Next]_vars /\ Fairness
-----------------------------------------------------------------------------
\* A payload is in exactly one place (free, at the memory, answered), so a
\* reused payload never overwrites the address of a request in flight, and no
\* payload leaks however many transactions are outstanding.
PoolConserved ==
    \A e \in Eng :
        LET held == list[e] \o SetToSeq(flight[e]) \o peq[e]
        IN  IsInjective(held) /\ ToSet(held) = Payloads

\* When the host has its status the copy is in memory, nothing outside the
\* destination has changed, and both engines are back at their top.
StatusMeansCopied ==
    u_dmas[W] # <<>> \/ ~busy => mem = want /\ cmd[W].pc = "read" /\ u_trans[W] = <<>>

=============================================================================
