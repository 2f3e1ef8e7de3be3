------------------------------ MODULE MCPaths -------------------------------
(***************************************************************************)
(* The parts data streams through on small instances: the stream FIFO, the *)
(* delay channel's liveness, the trace compressor and the Ethernet trace   *)
(* interface.  The initial state chooses one; only that one moves, so the  *)
(* state space is the disjoint union of theirs.  The FIFO's variables are  *)
(* its own, w1 .. w21 hold those of the other three.                       *)
(***************************************************************************)
EXTENDS FifoCC

CONSTANTS C_DEPTH,  \* the FIFO's generic
          Idle      \* a variable the chosen part does not have

\* function log2rp: log base 2 of x rounded up; behaviorR's ring has that many
log2rp(x) == CHOOSE i \in 0 .. x : x <= 2^i /\ \A j \in 0 .. i-1 : x > 2^j
MCDepth == 2^log2rp(C_DEPTH)

VARIABLES part, w1, w2, w3, w4, w5, w6, w7, w8, w9, w10, w11, w12, w13, w14, w15,
          w16, w17, w18, w19, w20, w21

Low == <<w1, w2, w3, w4, w5, w6, w7, w8>>
High == <<w9, w10, w11, w12, w13, w14, w15, w16, w17, w18, w19, w20, w21>>
All == <<part, vars, Low, High>>
LowIdle == /\ w1 = Idle /\ w2 = Idle /\ w3 = Idle /\ w4 = Idle
           /\ w5 = Idle /\ w6 = Idle /\ w7 = Idle /\ w8 = Idle
HighIdle == /\ w9 = Idle /\ w10 = Idle /\ w11 = Idle /\ w12 = Idle /\ w13 = Idle
            /\ w14 = Idle /\ w15 = Idle /\ w16 = Idle /\ w17 = Idle /\ w18 = Idle
            /\ w19 = Idle /\ w20 = Idle /\ w21 = Idle
-----------------------------------------------------------------------------
(* The FIFO; its properties are FifoCC's own. *)
FifoStep == part = "fifo" /\ Next /\ UNCHANGED <<part, Low, High>>
-----------------------------------------------------------------------------
(* The delay channel with a two-bit counter. *)
C == INSTANCE ChanDelay WITH Period <- 4, C_FIFO_DEPTH <- 2, Delays <- {0, 1},
       counter <- w1, delay <- w2, delay_sync <- w3, fifo <- w4, shown <- w5, vhold <- w6,
       taken <- w7, waited <- w8
DelayRest == <<part, vars, High>>
DelayEdge(s_valid, m_ready, see) ==
    part = "delay" /\ C!Edge(s_valid, m_ready, see) /\ UNCHANGED DelayRest
DelaySet == part = "delay" /\ (\E d \in {0, 1} : C!SetDelay(d)) /\ UNCHANGED DelayRest

-----------------------------------------------------------------------------
(* The compressor: no lane, one lane at either end, two with a gap, all. *)
Z == INSTANCE Compress WITH Deltas <- {1, 3},
       Valids <- {{}, {1}, {3}, {0, 2}, {0, 1, 2, 3}}, TIME <- 4, DEPTH <- 2, OUT <- 1,
       Events <- 3, in <- w1, time_acc <- w2, pack_buffer <- w3, current_state <- w4,
       current_input <- w5, out <- w6, fed <- w7, got <- w8
ASSUME Z!CompressAssumption
Zip(step) == part = "compress" /\ step /\ UNCHANGED <<part, vars, High>>

\* For every relative speed of the two processes and of the receiver, the
\* output is the reference conversion of the input; registers stay in range
\* and the state of write_out counts the lanes left in its pack (compress.cpp).
OutputsAsFed == part = "compress" => Z!TypeOK /\ Z!LeftIsValid /\ Z!OutputsAsFed
-----------------------------------------------------------------------------
(* The Ethernet interface with entries of two bytes and a buffer of 16. *)
E == INSTANCE EthFifo WITH BYTES <- 2, MAC <- 2, PACKET_SIZE <- 8, MINIMUM <- 4,
       DEPTH <- 16, COUNT <- 16, idle_count <- 2, IDS <- 2, Words <- 12,
       current_state <- w1, count <- w2, length <- w3, ID_num <- w4, data_buffer <- w5,
       buffer_count <- w6, buffer_added <- w7, buffer_data <- w8, data_word <- w9,
       data_word_valid <- w10, word_byte <- w11, data_ready <- w12, tx_valid <- w13,
       sop <- w14, eop <- w15, tx_data <- w16, busy <- w17, rx <- w18, seen <- w19,
       nextID <- w20, arrived <- w21
ASSUME E!EthAssumption
EthCall(rd, available) == part = "eth" /\ E!Call(rd, available) /\ UNCHANGED <<part, vars>>

\* Frames carry the trace in order, the right length, padding only after the
\* last entry and the next ID.  This rests on the byte counter, which follows
\* the buffer modulo its width, and on the header states, which find a byte in
\* the buffer although they do not test it (eth_fifo_interface.cpp).
FramesWellFormed ==
    part = "eth" => E!TypeOK /\ E!CountFollows /\ E!FirstByteThere /\ E!FramesWellFormed
-----------------------------------------------------------------------------
PathInit == /\ Init
            /\ \/ part = "fifo" /\ LowIdle /\ HighIdle
               \/ part = "delay" /\ C!ChanInit /\ HighIdle
               \/ part = "compress" /\ Z!Init /\ HighIdle
               \/ part = "eth" /\ E!Init
PathNext == \/ FifoStep
            \/ \E s_valid, m_ready, see \in BOOLEAN : DelayEdge(s_valid, m_ready, see)
            \/ DelaySet
            \/ Zip(Z!Arrive) \/ Zip(Z!convert_inputs) \/ Zip(Z!write_out) \/ Zip(Z!Consume)
            \/ \E rd, available \in BOOLEAN : EthCall(rd, available)
\* The fairness of each part's own specification
PathFairness ==
    /\ WF_All(\E s_valid, see \in BOOLEAN : DelayEdge(s_valid, TRUE, see))
    /\ WF_All(\E s_valid, m_ready \in BOOLEAN : DelayEdge(s_valid, m_ready, TRUE))
    /\ WF_All(Zip(Z!convert_inputs)) /\ WF_All(Zip(Z!write_out)) /\ WF_All(Zip(Z!Consume))
    /\ WF_All(\E rd, available \in BOOLEAN : EthCall(rd, available))
    /\ WF_All(\E available \in BOOLEAN : EthCall(TRUE, available))
PathSpec == PathInit /\ [][PathNext]_All /\ PathFairness

\* Nothing stays behind.  A transfer in the delay channel leaves it, for a
\* receiver that is ready again and again but not at a particular time; all
\* the compressor accepted leaves it; and every entry is received over the
\* Ethernet, although the counter reads zero when the buffer is full.
PathsDrain ==
    /\ (part = "delay" /\ w4 # <<>>) ~> (part = "delay" /\ w7)
    /\ []<>(part = "compress" => Z!Drained)
    /\ []<>(part = "eth" => E!ReceivedAll)
=============================================================================
