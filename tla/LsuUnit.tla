------------------------------ MODULE LsuUnit ------------------------------
(***************************************************************************)
(* One half (read or write) of the SystemC load-store unit's control:      *)
(* module lsuctl of lsu.h around the register bank CtlReg.  ct_command     *)
(* turns a command in the registers into DMA commands, ct_response turns   *)
(* DMA completions into the status register and an answer to whoever asked *)
(* for one.  The DMA engine is the environment here (ScDma models it): it  *)
(* takes DMA commands and completes them in order, when it likes.          *)
(***************************************************************************)
EXTENDS CtlReg, SequencesExt

CONSTANTS Programs,   \* what the hosts ask for: sequences of commands
          Me          \* this unit's id

VARIABLES r,               \* the control registers
          cpc, vcmd, acmd, \* ct_command: where it stands, its copies
          dpc, dmas, vrsp, vwe, tid, \* ct_response, and the signals it drives
          asked,           \* the commands of this run
          host,            \* flits not yet accepted
          issued,          \* observer: the DMA commands written to m_dmac
          done,            \* of these, how many have completed
          answers          \* observer: flits that left on m_ctl

vars == <<r, cpc, vcmd, acmd, dpc, dmas, vrsp, vwe, tid, asked, host, issued, done, answers>>

\* Register fields.  Register 1 holds [op, req], 2 the address, 3 the size, 4
\* the increment or index, 5 the count or transfer size; 0 is the set of
\* status bits and answer ids that are on.
_address(v) == v[2]
_size(v) == v[3]
_inc(v) == v[4]
_rep(v) == v[5]
SizeWidth == 2^24              \* DMAC.size is an sc_uint<24>

\* A DMA command as the wire holds it
DMAC(v, size, addr, last, did) ==
    [size |-> size % SizeWidth, addr |-> addr, last |-> last,
     did |-> did, req |-> v[1].req /\ last]

\* The DMA command for the registers v
Command(v, did) ==
    CASE v[1].op = "move" -> DMAC(v, _size(v), _address(v), TRUE, did)
      [] v[1].op = "smove" -> DMAC(v, _size(v), _address(v), _rep(v) = 1, did)
      [] v[1].op \in {"index", "index2"} ->
         DMAC(v, IF v[1].op = "index" THEN _size(v) ELSE _rep(v),
              _inc(v) * _size(v) + _address(v), TRUE, did)

\* Whether the registers still ask for a DMA command
Moves(v) == \/ v[1].op \in {"move", "index", "index2"}
            \/ v[1].op = "smove" /\ _rep(v) # 0

\* The local copy after one DMA command: smove steps on, the others are done
Advance(v) == IF v[1].op = "smove"
              THEN [v EXCEPT ![2] = @ + v[4], ![5] = @ - 1]
              ELSE [v EXCEPT ![1].op = "nop"]

\* ct_command at one edge; drdy: u_dmac has room
ct_command_lsu(drdy) ==
    \/ /\ cpc = "read" /\ acmd_valid(r)
       /\ vcmd' = r.reg /\ acmd' = Head(r.acmd)
       /\ cpc' = IF Moves(r.reg) THEN "write" ELSE "read"
       /\ UNCHANGED issued
    \/ /\ cpc = "write" /\ drdy
       /\ issued' = Append(issued, Command(vcmd, acmd.sid))
       /\ vcmd' = Advance(vcmd)
       /\ cpc' = IF Moves(vcmd') THEN "write" ELSE "read"
       /\ UNCHANGED acmd
    \/ /\ ~(cpc = "read" /\ acmd_valid(r)) /\ ~(cpc = "write" /\ drdy)
       /\ UNCHANGED <<cpc, vcmd, acmd, issued>>

Status(d) == {"okay", d.did} \cup (IF d.req THEN {"req"} ELSE {})

\* The status bits go to the register and, from now on, on every edge
Respond(d) == vrsp' = r.reg[0] \cup Status(d) /\ vwe' = TRUE

\* ct_response at one edge; fin: the engine completes its oldest command
ct_response_lsu(fin) ==
    LET d == IF dpc = "read" THEN issued[done + 1] ELSE dmas
        got == dpc = "hold" \/ (dpc = "read" /\ fin)
    IN  \/ /\ got /\ arsp_ready(r)
           /\ Respond(d)
           /\ dmas' = d
           /\ dpc' = IF d.req THEN "rsp" ELSE "read"
        \/ /\ got /\ ~arsp_ready(r)
           /\ dmas' = d /\ dpc' = "hold" /\ UNCHANGED <<vrsp, vwe>>
        \/ /\ dpc = "rsp"
           /\ dpc' = IF arsp_ready(r) THEN "read" ELSE "rsp"
           /\ UNCHANGED <<dmas, vrsp, vwe>>
        \/ /\ dpc = "read" /\ ~fin
           /\ UNCHANGED <<dpc, dmas, vrsp, vwe>>

\* mutant: the answer goes to whoever sent the command read last
Arsp_Current == IF dpc = "rsp"
                THEN ACMD(tid, acmd.sid, 0, 1, [wr |-> FALSE, go |-> TRUE, sel |-> 0, len |-> 1])
                ELSE None
\* arsp, offered while ct_response stands in c_arsp.write
Arsp == IF dpc = "rsp"
        THEN ACMD(tid, dmas.did, 0, 1, [wr |-> FALSE, go |-> TRUE, sel |-> 0, len |-> 1])
        ELSE None

\* lsu_memcpy and lsu_smemcpy of lsu_cmd.c write registers 1 to 3 or 1 to 5
\* with one go packet
Packet(c) ==
    LET short == c.op = "move"
        words == <<[op |-> c.op, req |-> c.req], c.addr, c.size, c.inc, c.rep>>
    IN  [n \in 1 .. (IF short THEN 3 ELSE 5) |->
            [wr |-> TRUE, go |-> TRUE, sel |-> 1, len |-> IF short THEN 3 ELSE 5,
             data |-> words[n], tid |-> c.from, tdest |-> Me]]

Init ==
    /\ r = ctlreg_reset([i \in 0 .. CR-1 |-> IF i = 0 THEN {} ELSE None])
    /\ cpc = "read" /\ vcmd = None /\ acmd = None
    /\ dpc = "read" /\ dmas = None /\ vrsp = {} /\ vwe = FALSE /\ tid = None
    /\ asked \in Programs /\ host = FlattenSeq([n \in DOMAIN asked |-> Packet(asked[n])])
    /\ issued = <<>> /\ done = 0 /\ answers = <<>>

\* One edge: a flit is offered (ctlv), the reader of m_ctl is ready (crdy),
\* the engine takes a command (drdy) or completes one (fin).  Only the
\* commands that end a transfer are reported.
Edge(ctlv, crdy, drdy, fin) ==
    /\ ctlv => host # <<>>
    /\ fin => done < Len(issued)
    /\ LET in == IF ctlv THEN Head(host) ELSE None
           we == IF vwe THEN (0 :> vrsp) ELSE <<>>
       IN  r' = ctlreg_edge(r, in, cpc = "read", Arsp, we, crdy)
    /\ ct_command_lsu(drdy)
    /\ LET report == fin /\ issued[done + 1].last
       IN  /\ ct_response_lsu(report)
           /\ done' = IF fin /\ (~report \/ dpc = "read") THEN done + 1 ELSE done
    /\ UNCHANGED asked
    /\ tid' = IF cpc = "read" /\ acmd_valid(r) THEN Head(r.acmd).did ELSE tid
    /\ host' = IF ctlv /\ s_ctl_ready(r) THEN Tail(host) ELSE host
    /\ answers' = IF m_ctl_valid(r) /\ crdy THEN Append(answers, r.out) ELSE answers

Next == \E ctlv, crdy, drdy, fin \in BOOLEAN : Edge(ctlv, crdy, drdy, fin)

\* The clock never stops and no neighbour stalls for ever
Fairness == \A cv, fin \in BOOLEAN : WF_vars(Edge(cv, TRUE, TRUE, fin))

Spec == Init /\ [][Next]_vars /\ Fairness
-----------------------------------------------------------------------------
\* What the register map of aport.h says a command moves: its blocks in order
Blocks(c) ==
    LET Block(size, addr, last) == [size |-> size, addr |-> addr, last |-> last,
                                    did |-> c.from, req |-> c.req /\ last]
    IN  CASE c.op = "move" -> <<Block(c.size, c.addr, TRUE)>>
          [] c.op = "smove" -> [k \in 1 .. c.rep |->
                                  Block(c.size, c.addr + (k-1) * c.inc, k = c.rep)]
          [] c.op = "index" -> <<Block(c.size, c.addr + c.inc * c.size, TRUE)>>
          [] c.op = "index2" -> <<Block(c.rep, c.addr + c.inc * c.size, TRUE)>>
          [] OTHER -> <<>>

\* The DMA commands issued are the blocks asked for, in order, although the
\* registers are overwritten by the next packet while a strided move is still
\* being issued from them (lsu.h:72 copies them once).
BlocksExact == IsPrefix(issued, FlattenSeq([n \in DOMAIN asked |-> Blocks(asked[n])]))

\* Whoever asked for a status gets exactly one, in the order of the commands
\* and after the last block of its command completed, and it reads a status
\* register that already shows the completion (vrsp takes one edge, the
\* answer FIFO one more).
StatusExact ==
    LET asking == SelectSeq(asked, LAMBDA c : c.req /\ Blocks(c) # <<>>)
        over == Len(SelectSeq(SubSeq(issued, 1, done), LAMBDA b : b.req))
    IN  /\ Len(answers) <= over
        /\ \A n \in DOMAIN answers :
              /\ answers[n].tdest = asking[n].from /\ answers[n].tlast
              /\ {"okay", "req", asking[n].from} \subseteq answers[n].data

\* Every command has been carried out and every status asked for has arrived.
Finished == /\ host = <<>> /\ cpc = "read" /\ done = Len(issued)
            /\ Len(answers) = Len(SelectSeq(issued, LAMBDA b : b.req))
=============================================================================
