------------------------------- MODULE LlFifo -------------------------------
(***************************************************************************)
(* The AXI streaming FIFO between the CPU and the accelerator ports, its   *)
(* driver (xllfifo.c) and the packet interface on top of it (stream.c):    *)
(* stream_send fills the transmit FIFO and commits a packet by writing its *)
(* length, stream_recv waits for a whole packet, takes words of it and may *)
(* discard the rest.  The core itself is external; its transmit side is    *)
(* looped back to its receive side.                                        *)
(***************************************************************************)
EXTENDS Integers, Sequences, SequencesExt

CONSTANTS TxDepth,   \* words of the transmit FIFO
          RxDepth,   \* words of the receive FIFO
          Script,    \* the calls of the sender: [words, flags]
          Asks       \* the calls of the receiver: [words, flags], for ever

VARIABLES txq,     \* words in the transmit FIFO
          txlen,   \* lengths committed through TLF, in words
          part,    \* words received of a packet whose end is still to come
          frames,  \* whole packets received
          cur,     \* words left of the packet being read
          fault,   \* a word was written to a full or read from an empty FIFO
          tport, rport,   \* TransmitLength, ReceiveLength, in words
          todo, turn,     \* calls left to the sender; next call of the receiver
          sent, building, \* observers: packets committed, words of the next
          got, taking     \* observers: packets taken, words of the last

core == <<txq, txlen, part, frames, cur, fault>>
vars == <<core, tport, rport, todo, turn, sent, building, got, taking>>

Init ==
    /\ txq = <<>> /\ txlen = <<>> /\ part = <<>> /\ frames = <<>> /\ cur = <<>>
    /\ fault = FALSE /\ tport = 0 /\ rport = 0
    /\ todo = Script /\ turn = 1
    /\ sent = <<>> /\ building = <<>> /\ got = <<>> /\ taking = <<>>
-----------------------------------------------------------------------------
(* The core (external) *)
TotalRx == Len(part) + Len(cur) + Len(FlattenSeq(frames))

\* One word of a committed packet crosses to the receive side
Transmit ==
    /\ txlen # <<>> /\ txq # <<>> /\ TotalRx < RxDepth
    /\ txq' = Tail(txq)
    /\ IF Head(txlen) = 1
       THEN /\ frames' = Append(frames, Append(part, Head(txq)))
            /\ part' = <<>> /\ txlen' = Tail(txlen)
       ELSE part' = Append(part, Head(txq)) /\ frames' = frames
            /\ txlen' = [txlen EXCEPT ![1] = @ - 1]
    /\ UNCHANGED <<cur, fault, tport, rport, todo, turn, sent, building, got, taking>>

XLlFifo_iTxVacancy == TxDepth - Len(txq)
\* iRxOccupancy: bit 31 tells a partial packet
XLlFifo_iRxOccupancy == [words |-> Len(FlattenSeq(frames)) + Len(part),
                         partial |-> frames = <<>> /\ part # <<>>]

\* iWrite_Aligned, TxPutWord: words beyond the depth are lost and flagged
XLlFifo_iWrite_Aligned(ws) ==
    LET all == txq \o ws
        fit == IF Len(all) > TxDepth THEN TxDepth ELSE Len(all)
    IN  txq' = SubSeq(all, 1, fit) /\ fault' = (fault \/ Len(all) > TxDepth)
\* iTxSetLen: the length register commits the packet; a zero commits nothing
XLlFifo_iTxSetLen(len) == txlen' = IF len = 0 THEN txlen ELSE Append(txlen, len)

\* iRxGetLen: opens the packet at the head of the receive FIFO (a partial one
\* when there is no whole one), behind what is left of the one before
XLlFifo_iRxGetLen == IF frames # <<>> THEN Head(frames) ELSE part
\* iRead_Aligned: the words it gets of those it asks for
XLlFifo_iRead_Aligned(open, n) == SubSeq(open, 1, IF Len(open) < n THEN Len(open) ELSE n)
-----------------------------------------------------------------------------
(* stream.c.  A word is named by its place in what the sender sends. *)
Sent == Len(FlattenSeq(sent)) + Len(building)
Fresh(n) == [k \in 1 .. n |-> Sent + k]

\* mutant: the vacancy test is off by one
HasRoom_OffByOne(n) == n <= XLlFifo_iTxVacancy + 1
HasRoom(n) == n <= XLlFifo_iTxVacancy
Begun(flags) == IF "BEGP" \in flags THEN 0 ELSE tport

\* stream_send: polls the vacancy unless F_NOWA
stream_send ==
    LET c == Head(todo)
    IN  /\ todo # <<>> /\ HasRoom(c.words)
        /\ XLlFifo_iWrite_Aligned(Fresh(c.words))
        /\ tport' = Begun(c.flags) + c.words
        /\ IF "ENDP" \in c.flags
           THEN /\ XLlFifo_iTxSetLen(tport')
                /\ sent' = Append(sent, building \o Fresh(c.words)) /\ building' = <<>>
           ELSE building' = building \o Fresh(c.words) /\ UNCHANGED <<txlen, sent>>
        /\ todo' = Tail(todo)
        /\ UNCHANGED <<part, frames, cur, rport, turn, got, taking>>

\* with F_NOWA a full FIFO fails the call, which the caller repeats
stream_send_fail ==
    /\ todo # <<>> /\ "NOWA" \in Head(todo).flags /\ ~HasRoom(Head(todo).words)
    /\ tport' = Begun(Head(todo).flags)
    /\ UNCHANGED <<core, rport, todo, turn, sent, building, got, taking>>

\* what F_ENDP leaves unread
Rest(flags, left) == IF "ENDP" \in flags THEN <<>> ELSE left

\* Some word of a packet that has arrived whole
PacketReady == XLlFifo_iRxOccupancy.words # 0 /\ ~XLlFifo_iRxOccupancy.partial

\* stream_recv: F_BEGP waits for a whole packet and takes its length; reading
\* a word the packet does not have is flagged
stream_recv ==
    LET c == Asks[turn]
        begp == "BEGP" \in c.flags
        open == cur \o (IF begp THEN XLlFifo_iRxGetLen ELSE <<>>)
        read == XLlFifo_iRead_Aligned(open, c.words)
        n == Len(read)
        left == SubSeq(open, n + 1, Len(open))
        len == (IF begp THEN Len(open) - Len(cur) ELSE rport) - c.words
        words == (IF begp THEN <<>> ELSE taking) \o read
    IN  /\ begp => PacketReady
        /\ frames' = IF begp /\ frames # <<>> THEN Tail(frames) ELSE frames
        /\ part' = IF begp /\ frames = <<>> THEN <<>> ELSE part
        /\ cur' = Rest(c.flags, left)
        /\ rport' = IF "ENDP" \in c.flags THEN 0 ELSE len
        /\ fault' = (fault \/ n < c.words \/ ("ENDP" \in c.flags /\ len # Len(left)))
        /\ taking' = words
        /\ got' = IF "ENDP" \in c.flags THEN Append(got, words) ELSE got
        /\ turn' = (turn % Len(Asks)) + 1
        /\ UNCHANGED <<txq, txlen, tport, todo, sent, building>>

Next == Transmit \/ stream_send \/ stream_send_fail \/ stream_recv
\* The core and the callers keep running
Fairness == WF_vars(Transmit) /\ WF_vars(stream_send) /\ WF_vars(stream_recv)
Spec == Init /\ [][Next]_vars /\ Fairness
-----------------------------------------------------------------------------
\* Every packet taken is the begin of the packet sent, packets in order,
\* whatever the split into calls and however little of a packet is wanted;
\* no word is ever written to a full FIFO or read from an empty one.
PacketsExact ==
    /\ ~fault
    /\ Len(got) <= Len(sent)
    /\ \A k \in DOMAIN got : got[k] # <<>> /\ IsPrefix(got[k], sent[k])

\* All packets the sender had have been taken
AllTaken == todo = <<>> /\ Len(got) = Len(sent)
=============================================================================
