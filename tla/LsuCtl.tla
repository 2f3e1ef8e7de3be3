------------------------------- MODULE LsuCtl -------------------------------
(***************************************************************************)
(* One channel of the load-store unit (axi_lsu_ctl.vhd): the control port  *)
(* AxisPort wired to the command interpreter (axi_lsu_cmd.vhd), which      *)
(* turns the registers of the port into commands for the AXI DataMover and *)
(* the DataMover's status into answers and into the sticky status          *)
(* register.  Around it are the software that programs it                  *)
(* (shared/lsu_cmd.c, shared/aport.c) and the DataMover, an external core  *)
(* with a command FIFO that executes in order and returns one status per   *)
(* command.                                                                *)
(*                                                                         *)
(* Register 1 holds addrhi, reqstat and command; the model packs them as   *)
(* addrhi*16 + reqstat*8 + command.  The widths of the fields are the      *)
(* moduli AddrLo, AddrHi (address words), SAddrMod (address of a DataMover *)
(* command), RepMod (rep), SizeMod (the part of size that multiplies an    *)
(* index), BttMod (bytes to transfer) and DestMod (requester in a tag).    *)
(*                                                                         *)
(* One step is one clock edge of the unit.  The software hands over whole  *)
(* packets; their beats may come with gaps.  Ghost variables: shadow is    *)
(* the register file the software believes in, owed the DataMover commands *)
(* its packets still call for, await the answer it is blocked on, result   *)
(* the status flags reported since it last cleared the status register.    *)
(***************************************************************************)
EXTENDS AxisPort, Sequences

CONSTANTS AddrLo, AddrHi, SAddrMod, RepMod, SizeMod, BttMod, DestMod

CONSTANTS Packets,     \* the packets the software sends
          MoverDepth,  \* C_CTL_FIFO_DEPTH: commands the DataMover holds
          Flags,       \* status flags of a transfer (1 = okay, 2 = error)
          Blocking     \* the software waits for an answer before it goes on

VARIABLE lsu_tid   \* tid: the id of this sub-unit, saved from the last command
VARIABLES beats,      \* beats of the current packet not yet taken by the port
          offered,    \* s_axis_ctl_tvalid
          moverQ,     \* DataMover: accepted commands not yet executed
          sts,        \* DataMover: status offered on s_axis_sts
          shadow, owed, await, result   \* ghosts

mover == <<moverQ, sts>>
host == <<beats, offered>>
ghosts == <<shadow, owed, await, result>>
vars == <<portVars, lsu_tid, host, mover, ghosts>>

NoAnswer == [kind |-> "none"]
-----------------------------------------------------------------------------
(* The interpreter *)

CMD_nop == 0
CMD_move == 1
CMD_smove == 2
CMD_index == 3
CMD_index2 == 4

\* The fields of a register file r
cmd(r) == r[1] % 8
reqstat(r) == (r[1] \div 8) % 2 = 1
addr(r) == (r[1] \div 16) * AddrLo + r[2]
size(r) == r[3]
inc(r) == r[4]
index(r) == r[4]
rep(r) == r[5] % RepMod
trans(r) == r[5]

AddrMod == AddrHi * AddrLo

\* Register 1 with the high part of the address replaced
Packed(r, a) == (a \div AddrLo) * 16 + (r[1] % 16)
-----------------------------------------------------------------------------
\* process cmd
Issues(c, r) == c.valid /\ cmd(r) \in {CMD_move, CMD_smove, CMD_index, CMD_index2}

Repeats(r) == cmd(r) = CMD_smove /\ rep(r) # 1

\* mutant: every block of a strided move asks for a status
m_axis_cmd_AllReport(c, r) ==
    [req |-> reqstat(r), dest |-> c.tid % DestMod,
     saddr |-> IF cmd(r) \in {CMD_index, CMD_index2}
               THEN (index(r) * (size(r) % SizeMod) + addr(r)) % SAddrMod
               ELSE addr(r) % SAddrMod,
     btt |-> (IF cmd(r) = CMD_index2 THEN trans(r) ELSE size(r)) % BttMod]

\* the command on m_axis_cmd: tag (req, dest), start address, bytes to transfer
m_axis_cmd(c, r) ==
    [req |-> reqstat(r) /\ ~Repeats(r),
     dest |-> c.tid % DestMod,
     saddr |-> IF cmd(r) \in {CMD_index, CMD_index2}
               THEN (index(r) * (size(r) % SizeMod) + addr(r)) % SAddrMod
               ELSE addr(r) % SAddrMod,
     btt |-> (IF cmd(r) = CMD_index2 THEN trans(r) ELSE size(r)) % BttMod]

command_ready(c, r, cmd_tready) ==
    Issues(c, r) => ~Repeats(r) /\ cmd_tready

Strides(c, r, cmd_tready) == Issues(c, r) /\ cmd(r) = CMD_smove /\ cmd_tready
-----------------------------------------------------------------------------
\* process rsp; a status is [valid, req, dest, flags]
BitOr(a, b) == LET bit(x, k) == (x \div k) % 2
                   or(k) == IF bit(a, k) + bit(b, k) > 0 THEN k ELSE 0
               IN  or(1) + or(2)

\* mutant: a transfer that failed is not answered
response_OkOnly(st) == IF st.valid /\ st.req /\ st.flags = 1
                        THEN [valid |-> TRUE, sel |-> 0, len |-> 1,
                              tid |-> lsu_tid, tdest |-> st.dest]
                        ELSE Invalid

response(st) == IF st.valid /\ st.req
                 THEN [valid |-> TRUE, sel |-> 0, len |-> 1,
                       tid |-> lsu_tid, tdest |-> st.dest]
                 ELSE Invalid

s_axis_sts_tready(st, tready) == st.req => response_ready(tready)
-----------------------------------------------------------------------------
\* mutant: the carry into the high address word is not written back
vwe_NoCarry(c, r, cmd_tready, st) ==
    (IF Strides(c, r, cmd_tready) THEN {2, 5} ELSE {})
        \cup (IF st.valid THEN {0} ELSE {})

\* vwe and vrsp: the registers the unit writes on this edge, and their values
vwe(c, r, cmd_tready, st) ==
    (IF Strides(c, r, cmd_tready) THEN {1, 2, 5} ELSE {})
        \cup (IF st.valid THEN {0} ELSE {})

vrsp(r, st) ==
    LET iaddr == (addr(r) + inc(r)) % AddrMod
    IN  [i \in Registers |->
           CASE i = 0 -> IF st.valid THEN BitOr(r[0], st.flags) ELSE r[0]
             [] i = 1 -> Packed(r, iaddr)
             [] i = 2 -> iaddr % AddrLo
             [] i = 5 -> (rep(r) - 1) % RepMod
             [] OTHER -> 0]

\* tid_seq
TidSeq == lsu_tid' = IF command.valid THEN command.tdest ELSE lsu_tid
-----------------------------------------------------------------------------
\* Packets of aport.c and lsu_cmd.c.  axis_hdr.vhd repeats the header's fields
\* on every beat; the beats carry the payload.
LSU == 5   \* getID(LSU0_PN) + WRITE_CH

Beat(go, wr, sel, len, tid, data, last) ==
    [valid |-> TRUE, go |-> go, wr |-> wr, sel |-> sel, len |-> len,
     tid |-> tid, tdest |-> LSU, data |-> data, last |-> last]

\* aport_write, aport_nwrite, lsu_memcpy and lsu_smemcpy
WritePacket(go, sel, tid, words) ==
    [k \in 1 .. Len(words) |->
        Beat(go, TRUE, sel, Len(words), tid, words[k], k = Len(words))]

\* aport_read and aport_nread: one dummy beat, whatever the length
ReadPacket(sel, n, tid) == <<Beat(FALSE, FALSE, sel, n, tid, 0, TRUE)>>

\* LSU_ACMD: three bits of the high address word, reqstat and command
Cmd1(hi, rs, c) == (hi % 8) * 16 + (IF rs THEN 8 ELSE 0) + c
MovePacket(tid, rs, a, n) ==
    WritePacket(TRUE, 1, tid, <<Cmd1(a \div AddrLo, rs, CMD_move), a % AddrLo, n>>)
SMovePacket(tid, rs, a, n, step, times) ==
    WritePacket(TRUE, 1, tid,
        <<Cmd1(a \div AddrLo, rs, CMD_smove), a % AddrLo, n, step, times>>)

\* The fields as axi_lsu_cmd.vhd declares them: six registers at least, two flags,
\* and the DataMover's address the low part of the unit's.
Widths ==
    /\ NReg >= 6 /\ Flags \subseteq 0 .. 3
    /\ AddrLo \in Nat \ {0} /\ AddrHi \in Nat \ {0} /\ SAddrMod \in Nat \ {0}
    /\ AddrMod % SAddrMod = 0
    /\ RepMod \in Nat \ {0} /\ SizeMod \in Nat \ {0} /\ BttMod \in Nat \ {0} /\ DestMod \in Nat \ {0}

\* What the packets of the library have in common: equal headers on all beats,
\* one beat for each register written or one for a read of one register, and
\* words that fit the fields they are for.
Writes(p, i) == p[1].wr /\ i \in p[1].sel .. p[1].sel + Len(p) - 1
WordFor(p, i) == p[i - p[1].sel + 1].data
WordFits(i, w) ==
    /\ i = 0 => w < 4
    /\ i = 3 => w < SizeMod /\ w < BttMod
    /\ i = 5 => w < BttMod
ControlBeat ==
    [valid : {TRUE}, go : BOOLEAN, wr : BOOLEAN, sel : Registers, len : 1 .. SelMod-1,
     tid : 0 .. DestMod-1, tdest : {LSU}, data : Nat, last : BOOLEAN]
IsPacket(p) ==
    /\ p \in Seq(ControlBeat) /\ p # <<>>
    /\ \A k \in 1 .. Len(p) :
          p[k] = Beat(p[1].go, p[1].wr, p[1].sel, p[1].len, p[1].tid, p[k].data, k = Len(p))
    /\ IF p[1].wr THEN p[1].len = Len(p) /\ p[1].sel + Len(p) <= NReg
       ELSE Len(p) = 1 /\ p[1].len = 1 /\ ~p[1].go
    /\ \A i \in Registers : Writes(p, i) => WordFits(i, WordFor(p, i))

\* Packets P may be sent in any order.  A strided move is programmed as a whole,
\* since it uses up its registers; if there is one, every command says which it
\* is, and no packet of one beat writes a register that the move writes back.
Strided(p) == Writes(p, 1) /\ WordFor(p, 1) % 8 = CMD_smove
Careful(P) ==
    \A p \in P :
        /\ IsPacket(p)
        /\ Strided(p) => p[1].go /\ Writes(p, 5) /\ WordFor(p, 5) % RepMod # 0
        /\ (\E s \in P : Strided(s)) =>
              /\ p[1].go => Writes(p, 1)
              /\ \A i \in {1, 2, 5} : Writes(p, i) => Len(p) > 1
-----------------------------------------------------------------------------
\* What a go packet calls for, given the registers it leaves: the commands of the
\* move, strided move or indexed move, only the last one asking for a status.
Program(tid, r) ==
    LET entry(rq, a, n) == [req |-> rq, dest |-> tid, saddr |-> a % SAddrMod, btt |-> n]
    IN  CASE cmd(r) = CMD_move -> <<entry(reqstat(r), addr(r), size(r))>>
          [] cmd(r) = CMD_smove ->
               [k \in 1 .. rep(r) |->
                  entry(reqstat(r) /\ k = rep(r), addr(r) + (k-1) * inc(r), size(r))]
          [] cmd(r) = CMD_index ->
               <<entry(reqstat(r), addr(r) + index(r) * size(r), size(r))>>
          [] cmd(r) = CMD_index2 ->
               <<entry(reqstat(r), addr(r) + index(r) * size(r), trans(r))>>
          [] OTHER -> <<>>

\* The registers once that program has run: a strided move leaves the address
\* after its last block and a repetition count of zero.
Settled(r) ==
    IF cmd(r) # CMD_smove THEN r
    ELSE LET a == (addr(r) + rep(r) * inc(r)) % AddrMod
         IN  [r EXCEPT ![1] = Packed(r, a), ![2] = a % AddrLo, ![5] = 0]

Init ==
    /\ PortInit /\ lsu_tid = 0
    /\ beats = <<>> /\ offered = FALSE
    /\ moverQ = <<>> /\ sts = Invalid
    /\ shadow = [i \in Registers |-> 0] /\ owed = <<>> /\ await = NoAnswer
    /\ result = 0
-----------------------------------------------------------------------------
\* The unit has handed every command of the software to the DataMover.
Idle == ~command.valid /\ owed = <<>>

\* The calls of lsu_cmd.c and aport.c are synchronous: a call that expects an
\* answer returns with it, and a copy returns only when its data has moved, so
\* the first beat of a longer packet finds the unit idle.  Packets of one beat
\* follow each other freely.
MaySend(p) ==
    /\ beats = <<>>
    /\ Blocking => await = NoAnswer
    /\ Len(p) > 1 => Idle

\* stream_send hands a packet to the transmit FIFO in front of the port
HostSends(p) ==
    /\ MaySend(p)
    /\ beats' = p
    /\ offered' = FALSE
    /\ UNCHANGED <<portVars, lsu_tid, mover, ghosts>>

\* The beat on s_axis_ctl
Bus == IF offered THEN Head(beats) ELSE Invalid

\* The answer the software waits for after a packet ending in beat b
AnswerTo(b, prog) ==
    IF ~b.wr THEN [kind |-> "read", sel |-> b.sel, left |-> b.len, tid |-> b.tid]
    ELSE IF \E k \in DOMAIN prog : prog[k].req
         THEN [kind |-> "status", sel |-> 0, left |-> 1, tid |-> b.tid]
         ELSE NoAnswer

\* The host side of an edge: the port takes the offered beat or not, and the
\* next beat follows at once or after a gap.
HostEdge(taken, gap) ==
    /\ beats' = IF taken THEN Tail(beats) ELSE beats
    /\ offered' = ((offered /\ ~taken) \/ (~gap /\ beats' # <<>>))

\* What the edge adds to the software's expectations.  issued: the DataMover
\* takes a command; received: an answer beat goes out.
GhostEdge(taken, issued, received) ==
    LET b == Head(beats)
        nth == b.sel + b.len - Len(beats)
        written == IF taken /\ b.wr THEN [shadow EXCEPT ![nth] = b.data] ELSE shadow
        starts == taken /\ b.last /\ b.go
        prog == IF starts THEN Program(b.tid, written) ELSE <<>>
        rest == IF issued /\ owed # <<>> THEN Tail(owed) ELSE owed
        cleared == taken /\ b.wr /\ nth = 0
    IN  /\ shadow' = IF starts THEN Settled(written) ELSE written
        /\ owed' = rest \o prog
        /\ await' = IF taken /\ b.last /\ AnswerTo(b, prog) # NoAnswer
                    THEN AnswerTo(b, prog)
                    ELSE IF received /\ await # NoAnswer
                    THEN IF m_axis_ctl_tlast THEN NoAnswer
                         ELSE [await EXCEPT !.left = @ - 1, !.sel = @ + 1]
                    ELSE await
        /\ result' = BitOr(IF cleared THEN 0 ELSE result,
                           IF sts.valid THEN sts.flags ELSE 0)

\* External: the DataMover's side of an edge.  It takes a command when it has
\* room, and offers the status of its oldest command until it is taken.
MoverEdge(issued, stsTaken, finish, f) ==
    LET pops == finish /\ moverQ # <<>> /\ (~sts.valid \/ stsTaken)
        rest == IF pops THEN Tail(moverQ) ELSE moverQ
        c == m_axis_cmd(command, reg)
    IN  /\ moverQ' = IF issued THEN Append(rest, [req |-> c.req, dest |-> c.dest]) ELSE rest
        /\ sts' = IF pops THEN [valid |-> TRUE, req |-> Head(moverQ).req,
                                dest |-> Head(moverQ).dest, flags |-> f]
                  ELSE IF stsTaken THEN Invalid ELSE sts

\* One clock edge of the channel.  tready: the answer stream accepts; accept and
\* finish: the DataMover takes a command, completes one with flags f.
Edge(gap, tready, accept, finish, f) ==
    LET s == Bus
        cmd_tready == accept /\ Len(moverQ) < MoverDepth
        ready == command_ready(command, reg, cmd_tready)
        taken == c_advance(s, ready)
        issued == Issues(command, reg) /\ cmd_tready
        stsTaken == sts.valid /\ s_axis_sts_tready(sts, tready)
    IN  /\ PortClock(s, tready, ready, vwe(command, reg, cmd_tready, sts),
                     vrsp(reg, sts), response(sts))
        /\ TidSeq
        /\ HostEdge(taken, gap)
        /\ MoverEdge(issued, stsTaken, finish, f)
        /\ GhostEdge(taken, issued, r_advance(tready))

Next ==
    \/ \E p \in Packets : HostSends(p)
    \/ \E gap, tready, accept, finish \in BOOLEAN, f \in Flags :
          Edge(gap, tready, accept, finish, f)

Spec == Init /\ [][Next]_vars
-----------------------------------------------------------------------------
\* The command register, when it holds a command, still describes what the
\* software asked for: the DataMover is next given the first command owed, and
\* none is forgotten, since while commands are owed the unit works on them.
EmitsAsProgrammed ==
    /\ Issues(command, reg) <=> owed # <<>>
    /\ Issues(command, reg) => m_axis_cmd(command, reg) = Head(owed)

\* Once the unit is done with a command, the registers are what the software
\* believes they are, the write-back of strided moves included; and the status
\* register keeps every flag reported since the last clear, also when the
\* clear and a report meet on one edge.
RegistersAsProgrammed ==
    /\ ~command.valid => \A i \in Registers \ {0} : reg[i] = shadow[i]
    /\ BitOr(reg[0], result) = reg[0]

\* An answer on the stream is the one the software is waiting for: its header
\* names the requester, and register and beats left fit the request.
AnswerExpected ==
    m_axis_ctl_tvalid =>
        /\ await # NoAnswer
        /\ header.tdest = await.tid /\ header.tid = LSU
        /\ bsel = await.sel /\ blen = await.left

\* On the first word of a response, register and length are those its header
\* was made for.
HeaderFitsData ==
    m_axis_ctl_tvalid /\ blen_r = 0 => bsel = header.sel /\ blen = header.len

\* The first beat of a packet is treated as its first word.
FirstBeatIsFirstWord ==
    offered /\ (Bus.wr => Len(beats) = Bus.len) => FirstWord
=============================================================================
