------------------------------ MODULE AxisPort ------------------------------
(***************************************************************************)
(* The control port in front of every accelerator unit (axis_port.vhd):   *)
(* a file of registers that packets write and read, a command register    *)
(* that starts the unit, and two response registers, A for reads and B    *)
(* for answers the unit makes itself.                                     *)
(*                                                                         *)
(* One step is one rising clock edge.  Every clocked process of the file  *)
(* is one action below; a cycle is their conjunction, PortClock.  The     *)
(* combinatorial signals are operators with the VHDL names.  Don't-care   *)
(* contents of a register whose valid bit is clear are not kept.          *)
(***************************************************************************)
EXTENDS Integers

CONSTANTS NReg,       \* C_NREG
          SelMod      \* 2**C_ADDR_WIDTH: select and length count modulo this

ASSUME PortAssumption == NReg \in Nat \ {0} /\ SelMod \in Nat /\ NReg <= SelMod

VARIABLES reg,                    \* register file
          awe_r, asel_r, alen_r,  \* write enable, register, beats left of a packet
          command,                \* command register (command_valid_i, header)
          bsel_r, blen_r, r_path, \* register, beats left and path of a response
          a_response,             \* response register A
          b_response              \* response register B

portVars == <<reg, awe_r, asel_r, alen_r, command, bsel_r, blen_r, r_path,
              a_response, b_response>>

Registers == 0 .. NReg-1
Invalid == [valid |-> FALSE]

\* The state a reset leaves behind
PortInit ==
    /\ reg = [i \in Registers |-> 0]
    /\ awe_r = FALSE /\ asel_r = 0 /\ alen_r = 0
    /\ command = Invalid
    /\ bsel_r = 0 /\ blen_r = 0 /\ r_path = "B"
    /\ a_response = Invalid /\ b_response = Invalid
-----------------------------------------------------------------------------
\* Command side.  s is the beat on s_axis_ctl ([valid |-> FALSE] when there is
\* none): go, wr, sel, len (tuser), tid, tdest, data, last.  command_ready is the
\* unit's answer for the command in the command register.

command_ready_s(command_ready) == command_ready \/ ~command.valid

a_response_ready_s == ~a_response.valid

c_advance(s, command_ready) ==
    /\ s.valid
    /\ \/ ~s.last
       \/ /\ s.wr \/ a_response_ready_s
          /\ (~s.go /\ ~s.wr) \/ command_ready_s(command_ready)

FirstWord == alen_r = 0
asel(s) == IF FirstWord /\ s.valid THEN s.sel ELSE asel_r
alen(s) == IF FirstWord /\ s.valid THEN s.len ELSE alen_r
awe(s, command_ready) ==
    /\ c_advance(s, command_ready)
    /\ IF FirstWord THEN s.wr ELSE awe_r

\* The unit's own writes (vwe, vrsp) take precedence over the packet's.
RegisterFile(s, command_ready, vwe, vrsp) ==
    reg' = [i \in Registers |->
              IF i \in vwe THEN vrsp[i]
              ELSE IF i = asel(s) /\ awe(s, command_ready) THEN s.data
              ELSE reg[i]]

CommandBeats(s, command_ready) ==
    /\ awe_r' = IF FirstWord THEN awe(s, command_ready) ELSE awe_r
    /\ IF c_advance(s, command_ready)
       THEN asel_r' = (asel(s) + 1) % SelMod /\ alen_r' = (alen(s) - 1) % SelMod
       ELSE UNCHANGED <<asel_r, alen_r>>

\* command_*_s: the command on the last beat of a go packet
command_s(s) == IF s.valid /\ s.last /\ s.go
                THEN [valid |-> TRUE, tid |-> s.tid, tdest |-> s.tdest]
                ELSE Invalid

\* cii: the command register
CommandRegister(s, command_ready) ==
    command' = IF command_ready_s(command_ready) THEN command_s(s) ELSE command
-----------------------------------------------------------------------------
\* Response side

\* the latch r_path: transparent at the start of a cycle, held inside a packet
path == IF blen_r # 0 THEN r_path ELSE IF a_response.valid THEN "A" ELSE "B"

bsel == IF blen_r # 0 THEN bsel_r
        ELSE IF b_response.valid THEN b_response.sel
        ELSE IF a_response.valid THEN a_response.sel ELSE bsel_r
blen == IF blen_r # 0 THEN blen_r
        ELSE IF b_response.valid THEN b_response.len
        ELSE IF a_response.valid THEN a_response.len ELSE blen_r

\* m_axis_ctl: the response register on the current path supplies the header
header == IF path = "B" THEN b_response ELSE a_response
m_axis_ctl_tvalid == header.valid
m_axis_ctl_tlast == blen = 1

r_advance(tready) == blen # 0 /\ m_axis_ctl_tvalid /\ tready
a_response_ready_i(tready) == tready /\ path = "A" /\ blen < 2
b_response_ready_i(tready) == tready /\ path = "B" /\ blen < 2
response_ready(tready) == b_response_ready_i(tready) \/ ~b_response.valid

ResponseBeats(tready) ==
    /\ r_path' = path
    /\ IF r_advance(tready)
       THEN bsel_r' = (bsel + 1) % SelMod /\ blen_r' = (blen - 1) % SelMod
       ELSE UNCHANGED <<bsel_r, blen_r>>

\* mutant: the read answer goes back with source and destination as they came
a_response_s_NoSwap(s) ==
    IF s.valid /\ s.last /\ ~s.wr
    THEN [valid |-> TRUE, sel |-> s.sel, len |-> s.len, tid |-> s.tid, tdest |-> s.tdest]
    ELSE Invalid

\* a_response_*_s: the answer a read asks for, source and destination swapped
a_response_s(s) ==
    IF s.valid /\ s.last /\ ~s.wr
    THEN [valid |-> TRUE, sel |-> s.sel, len |-> s.len, tid |-> s.tdest, tdest |-> s.tid]
    ELSE Invalid

\* arii: response register A; a bubble follows every answer
ARegister(s, tready) ==
    a_response' = IF ~a_response.valid THEN a_response_s(s)
                  ELSE IF a_response_ready_i(tready) THEN Invalid ELSE a_response

\* brii: response register B takes what the unit answers (rsp)
BRegister(rsp, tready) ==
    b_response' = IF response_ready(tready) THEN rsp ELSE b_response
-----------------------------------------------------------------------------
\* One clock edge of the whole port
PortClock(s, tready, command_ready, vwe, vrsp, rsp) ==
    /\ RegisterFile(s, command_ready, vwe, vrsp)
    /\ CommandBeats(s, command_ready)
    /\ CommandRegister(s, command_ready)
    /\ ResponseBeats(tready)
    /\ ARegister(s, tready)
    /\ BRegister(rsp, tready)
=============================================================================
