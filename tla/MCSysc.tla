------------------------------- MODULE MCSysc -------------------------------
(***************************************************************************)
(* The units of the SystemC design on small instances.  The initial state  *)
(* chooses a unit of Units and only that unit moves: the state space is    *)
(* the disjoint union of theirs.  The chain's variables are its own, v1 .. *)
(* v14 hold those of the others.                                           *)
(***************************************************************************)
EXTENDS StreamChain, TLC

CONSTANTS Units,     \* which units are explored
          HLens,     \* bytes of a hash answer (4: one word, 8: two)
          MoveSizes, \* sizes the single-move programs of the LSU use
          None

VARIABLES unit, v1, v2, v3, v4, v5, v6, v7, v8, v9, v10, v11, v12, v13, v14

Last5 == <<v10, v11, v12, v13, v14>>
Own == <<unit, vars>>
All == <<Own, v1, v2, v3, v4, v5, v6, v7, v8, v9, v10, v11, v12, v13, v14>>
Idle12 == v12 = None /\ v13 = None /\ v14 = None
Idle10 == v10 = None /\ v11 = None /\ Idle12
Idle1 == /\ v1 = None /\ v2 = None /\ v3 = None /\ v4 = None /\ v5 = None
         /\ v6 = None /\ v7 = None /\ v8 = None /\ v9 = None /\ Idle10
-----------------------------------------------------------------------------
(* Hash unit: keys 1 .. 3 through the data registers with a register read   *)
(* among them, or on the data stream with two reads.                        *)
KeyFlit(k) == [wr |-> TRUE, go |-> TRUE, sel |-> 4, len |-> 2, data |-> k,
               tid |-> "cpu", tdest |-> "hsu"]
ReadFlit(sel, len) == [wr |-> FALSE, go |-> FALSE, sel |-> sel, len |-> len, data |-> None,
                       tid |-> "cpu", tdest |-> "hsu"]
KeyPacket(k) == <<KeyFlit(k), KeyFlit(k)>>
HPrograms == { KeyPacket(1) \o KeyPacket(2) \o <<ReadFlit(3, 1)>> \o KeyPacket(3),
               <<ReadFlit(3, 1), ReadFlit(2, 1)>> }
H == INSTANCE HashUnit WITH STAGES <- 3, Keys <- <<1, 2, 3>>, Programs <- HPrograms,
       Configs <- [seldi : BOOLEAN, seldo : BOOLEAN, hlen : HLens],
       r <- v1, pipe <- v2, host <- v3, keys <- v4, hashed <- v5, answers <- v6, indices <- v7,
       program <- v8
HRest == <<Own, v9, Last5>>
HInit == /\ unit = "hash" /\ H!Init /\ (H!cfg.seldi <=> Len(v3) = 2)
         /\ v9 = None /\ Idle10
HEdge(cv, dv, crdy, drdy) == unit = "hash" /\ H!Edge(cv, dv, crdy, drdy) /\ UNCHANGED HRest

\* Every key that enters the hash pipeline is a whole key the host or the
\* stream sent, each once and in order, and the answers are the hashes of the
\* keys in order, exact in the first word; the second word of a long hash may be
\* that of the next key (ctlreg.h, hsu.h).
HashExact == unit = "hash" => H!KeysWhole /\ H!AnswersMatch
-----------------------------------------------------------------------------
(* LSU command unit: commands of two hosts back to back. *)
Cmd(op, req, size, inc, rep, from) ==
    [op |-> op, req |-> req, addr |-> 16, size |-> size, inc |-> inc, rep |-> rep,
     from |-> from]
LPrograms ==
    { <<Cmd("smove", TRUE, 8, 16, 2, "cpu"), Cmd("move", TRUE, 4, 0, 0, "mcu")>>,
      <<Cmd("index", FALSE, 8, 3, 0, "hsu"), Cmd("index2", TRUE, 8, 2, 16, "hsu"),
        Cmd("move", TRUE, 4, 0, 0, "cpu")>>,
      <<Cmd("nop", TRUE, 8, 0, 0, "cpu"), Cmd("smove", TRUE, 8, 16, 0, "cpu"),
        Cmd("move", FALSE, 24, 0, 0, "cpu"), Cmd("move", TRUE, 4, 0, 0, "cpu")>> }
    \cup {<<Cmd("move", TRUE, s, 0, 0, "cpu")>> : s \in MoveSizes}
L == INSTANCE LsuUnit WITH Me <- "lsu", Programs <- LPrograms,
       r <- v1, cpc <- v2, vcmd <- v3, acmd <- v4, dpc <- v5, dmas <- v6, vrsp <- v7,
       vwe <- v8, tid <- v9, asked <- v10, host <- v11, issued <- v12, done <- v13,
       answers <- v14
LInit == unit = "lsu" /\ L!Init
LEdge(ctlv, crdy, drdy, fin) == unit = "lsu" /\ L!Edge(ctlv, crdy, drdy, fin) /\ UNCHANGED Own

\* The DMA commands are the blocks the register map promises, in order, and a
\* status reaches the host that asked, once, after its last block (lsuctl).
LsuExact == unit = "lsu" => L!BlocksExact /\ L!StatusExact
-----------------------------------------------------------------------------
(* DMA engines: copies of up to three blocks of 16 bytes that start and end *)
(* inside blocks, the second overlapping what the first wrote.              *)
Copy(src, dst, size) == [src |-> src, dst |-> dst, size |-> size]
DPrograms == { <<Copy(8, 64, 40), Copy(64, 0, 16)>>, <<Copy(0, 72, 24), Copy(72, 48, 8)>> }
D == INSTANCE ScDma WITH MAX_BLOCK_SIZE <- 16, OUTSTANDING <- 1, DMAS_DEPTH <- 2,
       MemWords <- 28, Programs <- DPrograms,
       host <- v1, busy <- v2, u_dmac <- v3, cmd <- v4, u_trans <- v5, list <- v6,
       flight <- v7, peq <- v8, rsp <- v9, u_dmas <- v10, mem <- v11, want <- v12
DInit == unit = "dma" /\ D!Init /\ v13 = None /\ v14 = None
DStep == unit = "dma" /\ D!Next /\ UNCHANGED <<Own, v13, v14>>

\* When the status of a copy arrives its last word is in memory; meanwhile a
\* payload is free, at the memory or answered, never two of these (mm2s, s2mm).
DmaExact == unit = "dma" => D!StatusMeansCopied /\ D!PoolConserved
-----------------------------------------------------------------------------
(* Key-value pipeline: six lookups (repeated, missing, colliding) in a      *)
(* table of six slots.                                                      *)
Slot(k, v, p) == [key |-> k, value |-> v, probes |-> p]
KTable == 0 :> Slot(1, 11, 1) @@ 1 :> Slot(4, 14, 2) @@ 2 :> Slot(3, 99, 0)
          @@ 3 :> Slot(2, 12, 1) @@ 4 :> Slot(2, 13, 1) @@ 5 :> Slot(5, 15, 0)
KHash == 1 :> 0 @@ 2 :> 3 @@ 3 :> 2 @@ 4 :> 0 @@ 5 :> 4
K == INSTANCE Kvs WITH Lookups <- <<1, 3, 4, 2, 5, 1>>, Table <- KTable, Hash <- KHash,
       plen <- 1, QueDepth <- 2, HashDepth <- 3, CtlDepth <- 1,
       keys <- v1, slice1 <- v2, slice2 <- v3, que0 <- v4, hashing <- v5, ctl <- v6,
       probes <- v7, idu <- v8, values <- v9
KInit == unit = "kvs" /\ K!Init /\ Idle10
KStep == unit = "kvs" /\ K!Next /\ UNCHANGED <<Own, Last5>>

\* Each lookup yields the value the table holds for its key, in order.
KvsLookupsExact == unit = "kvs" => K!LookupsExact
-----------------------------------------------------------------------------
(* Control switch: four ports, the CPU and two units send, port 2 is        *)
(* contended for.                                                           *)
Traffic == [i \in 0 .. 3 |-> CASE i = 0 -> <<4, 4, 6>> [] i = 1 -> <<5, 1>>
                               [] i = 3 -> <<4>> [] OTHER -> <<>>]
W == INSTANCE Cswitch WITH N <- 4, QDEPTH <- 2, DELAY <- 1, CYCLES <- 2,
       st <- v1, count <- v2, reset <- v3, cpu <- v4, sent <- v5, valid <- v6, dmx <- v7,
       ready <- v8, mux <- v9, queue <- v10, got <- v11
WRest == <<Own, v12, v13, v14>>
WInit == unit = "switch" /\ W!Init /\ Idle12
WEdge(more, rdy) == unit = "switch" /\ W!Edge(more, rdy) /\ UNCHANGED WRest

\* Nothing a source handed over is lost, repeated, reordered or misrouted.
SwitchNothingLost == unit = "switch" => W!NothingLost
-----------------------------------------------------------------------------
(* Stream building blocks in a row; their property is StreamChain's own. *)
CRest == <<unit, v1, v2, v3, v4, v5, v6, v7, v8, v9, Last5>>
CReset == unit = "chain" /\ Reset /\ UNCHANGED CRest
CEdge(d, more) == unit = "chain" /\ Edge(d, more) /\ UNCHANGED CRest
CWords == Word \cup {NoWord}
-----------------------------------------------------------------------------
SyscInit == /\ unit \in Units /\ Init
            /\ HInit \/ LInit \/ DInit \/ KInit \/ WInit \/ (unit = "chain" /\ Idle1)
SyscNext == \/ \E cv, dv, crdy, drdy \in BOOLEAN : HEdge(cv, dv, crdy, drdy)
            \/ \E cv, crdy, drdy, fin \in BOOLEAN : LEdge(cv, crdy, drdy, fin)
            \/ DStep \/ KStep
            \/ \E more \in SUBSET {0, 1, 3}, rdy \in SUBSET {0, 2, 3} : WEdge(more, rdy)
            \/ CReset \/ \E d \in CWords, more \in BOOLEAN : CEdge(d, more)
\* The fairness of each unit's own specification
SyscFairness == /\ \A cv, dv \in BOOLEAN : WF_All(HEdge(cv, dv, TRUE, TRUE))
                /\ \A cv, fin \in BOOLEAN : WF_All(LEdge(cv, TRUE, TRUE, fin))
                /\ WF_All(DStep) /\ WF_All(KStep)
                /\ WF_All(WEdge({0, 1, 3}, {0, 2, 3}))
                /\ WF_All(Unreset /\ CReset) /\ WF_All(\E d \in CWords : CEdge(d, TRUE))
SyscSpec == SyscInit /\ [][SyscNext]_All /\ SyscFairness

\* Every unit comes to an end of what it was given.  Keys and register reads
\* are answered in full; every LSU command is carried out and every status
\* asked for arrives; bounded queues and the payload pool never leave both
\* threads of a DMA engine waiting; splitting the key stream and joining it
\* again cannot leave both paths waiting; finite traffic passes the switch from
\* every input although low inputs are favoured; and a writer at the chain
\* is let in while its reader keeps reading.
AllServed ==
    /\ <>[]CASE unit = "hash" -> H!Answered [] unit = "lsu" -> L!Finished
             [] unit = "dma" -> v1 = <<>> [] unit = "kvs" -> Len(v9) = 6
             [] unit = "switch" -> W!Delivered [] OTHER -> TRUE
    /\ (unit = "chain" /\ wval) ~> (unit = "chain" /\ put # NoWord)
=============================================================================
