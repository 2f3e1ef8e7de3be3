-------------------------------- MODULE MCLsu -------------------------------
(* The load-store channel under two programs: copies with register reads    *)
(* (Packets), or indexed transfers.  The initial state chooses one.         *)
EXTENDS LsuCtl

\* lsu_memcpy on a store channel (status), lsu_smemcpy on a load channel (no
\* status) and on a store channel, register reads and a clear of the status.
MemcpyPackets ==
    {MovePacket(2, TRUE, 6, 3), SMovePacket(2, TRUE, 3, 2, 3, 3),
     SMovePacket(0, FALSE, 1, 1, 2, 1), ReadPacket(2, 1, 0),
     ReadPacket(0, 1, 2),
     WritePacket(FALSE, 0, 2, <<0>>)}

\* An indexed transfer: base and size without go, then a stream of one-beat
\* index writes, with the command word changed between them to ask for status.
IndexPackets ==
    {WritePacket(FALSE, 1, 2, <<Cmd1(0, FALSE, CMD_index), 1, 2>>),
     WritePacket(FALSE, 1, 2, <<Cmd1(1, FALSE, CMD_index2), 1, 2, 0, 3>>),
     WritePacket(TRUE, 4, 2, <<1>>), WritePacket(TRUE, 4, 2, <<3>>),
     WritePacket(FALSE, 1, 2, <<Cmd1(0, TRUE, CMD_index)>>),
     ReadPacket(4, 1, 2)}

ASSUME PacketsAssumption == Widths /\ Careful(MemcpyPackets) /\ Careful(IndexPackets)

\* A read of two registers (aport_nread) and a move
NreadPackets == {ReadPacket(1, 2, 2), MovePacket(2, TRUE, 3, 1)}

\* A move that asks for status and a read
RacePackets == {MovePacket(2, TRUE, 3, 1), ReadPacket(2, 1, 2)}
-----------------------------------------------------------------------------
VARIABLE program

X == INSTANCE LsuCtl WITH Packets <- IndexPackets

ProgramInit == program \in {"memcpy", "index"} /\ Init
ProgramNext == /\ \/ program = "memcpy" /\ Next
                  \/ program = "index" /\ X!Next
               /\ UNCHANGED program

\* The transmit FIFO keeps sending, the receive FIFO keeps draining, and the
\* DataMover keeps taking and keeps completing commands; nothing makes them do so
\* on the same edge.
Copy(step) == program = "memcpy" /\ step /\ UNCHANGED program
CopyFairness ==
    /\ WF_<<vars, program>>(Copy(\E t, a, d \in BOOLEAN, f \in Flags : Edge(FALSE, t, a, d, f)))
    /\ WF_<<vars, program>>(Copy(\E g, a, d \in BOOLEAN, f \in Flags : Edge(g, TRUE, a, d, f)))
    /\ WF_<<vars, program>>(Copy(\E g, t, d \in BOOLEAN, f \in Flags : Edge(g, t, TRUE, d, f)))
    /\ WF_<<vars, program>>(Copy(\E g, t, a \in BOOLEAN, f \in Flags : Edge(g, t, a, TRUE, f)))
\* One program, the packets of the cfg, without the other
CopySpec == program = "memcpy" /\ Init /\ [][Copy(Next)]_<<vars, program>>
ProgramSpec == ProgramInit /\ [][ProgramNext]_<<vars, program>> /\ CopyFairness

\* Every copy or read that waits for its answer (lsu_memcpy, aport_read) gets it.
CopiesAnswered == (program = "memcpy" /\ await # NoAnswer) ~> await = NoAnswer
=============================================================================
