------------------------------- MODULE CtlReg -------------------------------
(***************************************************************************)
(* The register file behind every SystemC unit's control port (ctlreg.h):  *)
(* ct_command unpacks control packets into registers and commands,         *)
(* ct_response packs registers into answers, ms_reg_write is the register  *)
(* bank.  The unit is a record r, and ctlreg_edge(r, ...) is its value     *)
(* after one rising clock edge; a thread's pc names the wait() it stands   *)
(* at, and every signal is read as it was before the edge.  A blocking     *)
(* sc_stream read stands with ready raised until an edge sees valid, a     *)
(* blocking write with valid raised until an edge sees ready; a packet is  *)
(* a run of flits [wr, go, sel, len, data, tid, tdest].                    *)
(***************************************************************************)
EXTENDS Integers, Sequences, TLC

CONSTANT None                   \* no flit, no command, a register never written

CR == 8                         \* registers, and the wrap of the 3-bit sel and len
Inc(n) == (n + 1) % CR
Dec(n) == (n + CR - 1) % CR

\* ACMD: who sent, who is answered, which registers to send, what to echo
ACMD(sid, did, sel, len, tuser) ==
    [sid |-> sid, did |-> did, sel |-> sel, len |-> len, tuser |-> tuser]
RACC(f) == [wr |-> f.wr, go |-> f.go, sel |-> f.sel, len |-> f.len]

AcmdDepth == 1
LoopDepth == 2
\* mutant: an answer FIFO two deep
ArspDepth_Two == 2
ArspDepth == 1

\* Reset state: both threads at their first wait, all three FIFOs empty
ctlreg_reset(regs) ==
    [pc |-> "top", first |-> None, flit |-> None, len |-> 0, sel |-> 0,
     ain |-> None, asel |-> 0, awe |-> FALSE,
     acmd |-> <<>>, loop |-> <<>>, arsp |-> <<>>,
     rpc |-> "poll", rcmd |-> None, out |-> None, reg |-> regs]

\* What the ports show between two edges
s_ctl_ready(r) == r.pc \in {"read1", "readN"}
acmd_valid(r) == r.acmd # <<>>
arsp_ready(r) == Len(r.arsp) < ArspDepth
m_ctl_valid(r) == r.rpc = "send"

\* One data flit of a write: hold it while the last command is still queued,
\* then raise the write strobe
Store(r, f) ==
    IF Len(r.acmd) = AcmdDepth THEN [r EXCEPT !.pc = "hold", !.flit = f]
    ELSE [r EXCEPT !.ain = f.data, !.asel = r.sel, !.awe = TRUE,
                   !.sel = Inc(r.sel), !.len = Dec(r.len),
                   !.pc = IF Dec(r.len) # 0 THEN "more"
                          ELSE IF r.first.go THEN "gowait" ELSE "top"]

\* ct_command at one edge; in is the flit offered on s_ctl
ct_command(r, in) ==
    LET g == r.first
    IN  CASE r.pc \in {"top", "more"} ->
             [r EXCEPT !.ain = None, !.asel = 0, !.awe = FALSE,
                       !.pc = IF @ = "top" THEN "read1" ELSE "readN"]
          [] r.pc \in {"read1", "readN"} /\ in = None -> r
          [] r.pc = "read1" /\ in # None /\ in.wr ->
             Store([r EXCEPT !.first = in, !.len = in.len, !.sel = in.sel], in)
          [] r.pc = "read1" /\ in # None /\ ~in.wr ->
             [r EXCEPT !.first = in, !.pc = "loop"]
          [] r.pc = "readN" /\ in # None -> Store(r, in)
          [] r.pc = "hold" -> Store(r, r.flit)
          [] r.pc = "gowait" -> [r EXCEPT !.pc = "go"]
          [] r.pc = "loop" ->
             IF Len(r.loop) = LoopDepth THEN r
             ELSE [r EXCEPT !.loop = Append(@, ACMD(g.tdest, g.tid, g.sel, g.len, RACC(g))),
                            !.pc = IF g.go THEN "go" ELSE "top"]
          [] r.pc = "go" ->
             IF Len(r.acmd) = AcmdDepth THEN r
             ELSE [r EXCEPT !.acmd = Append(@, ACMD(g.tid, g.tdest, 0, 0, RACC(g))),
                            !.pc = "top"]

\* The next flit of an answer, read from the register bank now
Emit(r, c) ==
    IF c.len = 0 THEN [r EXCEPT !.rpc = "poll", !.out = None]
    ELSE [r EXCEPT !.rpc = "send", !.rcmd = [c EXCEPT !.len = @ - 1, !.sel = Inc(@)],
                   !.out = [data |-> r.reg[c.sel], tid |-> c.sid, tdest |-> c.did,
                            tlast |-> c.len = 1] @@ c.tuser]

\* ct_response at one edge: a register read is answered before a unit's own
ct_response(r, rdy) ==
    CASE r.rpc = "poll" ->
         [r EXCEPT !.rpc = IF r.loop # <<>> THEN "take2"
                           ELSE IF r.arsp # <<>> THEN "take1" ELSE "poll"]
      [] r.rpc = "take2" -> Emit([r EXCEPT !.loop = Tail(@)], Head(r.loop))
      [] r.rpc = "take1" -> Emit([r EXCEPT !.arsp = Tail(@)], Head(r.arsp))
      [] r.rpc = "send" -> IF rdy THEN Emit(r, r.rcmd) ELSE r

\* The unit's own write (s_we, s_reg) wins over the control port's
ms_reg_write(r, we) ==
    [i \in DOMAIN r.reg |-> IF i \in DOMAIN we THEN we[i]
                            ELSE IF r.awe /\ r.asel = i THEN r.ain ELSE r.reg[i]]

\* One edge.  in: flit offered on s_ctl; take: the unit is ready for a
\* command; rsp: the answer the unit offers; we: the registers it writes;
\* rdy: m_ctl.ready.  The threads own disjoint fields of r.
ctlreg_edge(r, in, take, rsp, we, rdy) ==
    LET c == ct_command(r, in)
        s == ct_response(r, rdy)
        popped == IF take /\ acmd_valid(r) THEN Tail(c.acmd) ELSE c.acmd
        answers == IF rsp # None /\ arsp_ready(r) THEN Append(s.arsp, rsp) ELSE s.arsp
        looped == IF Len(c.loop) > Len(r.loop)
                  THEN Append(s.loop, c.loop[Len(c.loop)]) ELSE s.loop
    IN  [c EXCEPT !.acmd = popped, !.loop = looped, !.arsp = answers,
                  !.rpc = s.rpc, !.rcmd = s.rcmd, !.out = s.out,
                  !.reg = ms_reg_write(r, we)]
=============================================================================
