------------------------------ MODULE Cswitch ------------------------------
(***************************************************************************)
(* The control switch of the SystemC design (cswitch.h): one demultiplexer *)
(* thread for each input, one multiplexer thread with a queue for each     *)
(* output, and sc_stream handshakes between them, together with the reset  *)
(* pulse (pulse.h) and the start of the CPU thread (cpu.h) on port 0.  One *)
(* step is one rising clock edge; signals are read as they were before it. *)
(* The reset line is active low and low before the pulse unit first runs,  *)
(* so the threads see reset, one free edge, two edges of reset, and then   *)
(* run; a thread that is reset starts over but the ready it had raised     *)
(* stays up.                                                               *)
(***************************************************************************)
EXTENDS Integers, Sequences, FiniteSets, SequencesExt

CONSTANTS N,       \* ports, a power of two
          QDEPTH,  \* entries of an output queue
          Traffic, \* port -> sequence of destination ids to send to
          DELAY, CYCLES,  \* of the reset pulse
          None

Port == 0 .. N-1
RLEVEL == FALSE

VARIABLES st, count, reset,  \* pulse: state, counter, output
          cpu,               \* th_main: "w1", "w2" (its two waits) or "run"
          sent,              \* per source: flits handed over
          valid,             \* per source: its stream's valid
          dmx,               \* per input: ct_demux [pc, flit]
          ready,             \* per input: its stream's ready
          mux,               \* per output: ct_mux [pc, src, flit]
          queue, got         \* per output: u_queue; observer: flits delivered

vars == <<st, count, reset, cpu, sent, valid, dmx, ready, mux, queue, got>>

\* csw_demux: the output a destination id is routed to
Route(tdest) == IF N = 2 THEN tdest % N ELSE (tdest \div 2) % N

Init ==
    /\ st = "INIT" /\ count = 0 /\ reset = RLEVEL /\ cpu = "w1"
    /\ sent = [i \in Port |-> 0] /\ valid = [i \in Port |-> FALSE]
    /\ dmx = [i \in Port |-> [pc |-> "start", flit |-> None]]
    /\ ready = [i \in Port |-> FALSE]
    /\ mux = [j \in Port |-> [pc |-> "start", src |-> 0, flit |-> None]]
    /\ queue = [j \in Port |-> <<>>] /\ got = [j \in Port |-> <<>>]

\* ms_pulse
ms_pulse ==
    LET To(s, n, v) == st' = s /\ count' = n /\ reset' = v
    IN  CASE st = "INIT" /\ DELAY > 0 /\ CYCLES > 0 -> To("PRE", DELAY - 1, ~RLEVEL)
          [] st = "INIT" /\ DELAY = 0 /\ CYCLES > 0 -> To("PULSE", CYCLES - 1, RLEVEL)
          [] st = "INIT" /\ CYCLES = 0 -> To("POST", count, ~RLEVEL)
          [] st = "PRE" /\ count = 0 -> To("PULSE", CYCLES - 1, RLEVEL)
          [] st = "PULSE" /\ count = 0 -> To("POST", count, ~RLEVEL)
          [] st \in {"PRE", "PULSE"} /\ count > 0 -> To(st, count - 1, reset)
          [] st = "POST" -> To(st, count, reset)

\* th_main: started over by reset, it lets two edges pass
th_main == cpu' = IF reset = RLEVEL THEN "w1" ELSE IF cpu = "w1" THEN "w2" ELSE "run"

\* A flit: where it comes from, its number there, where it goes
Flit(i) == [src |-> i, seq |-> sent[i] + 1, tdest |-> Traffic[i][sent[i] + 1]]
Offered(i) == valid[i] /\ sent[i] < Len(Traffic[i])

\* sc_stream::write by the sources: valid stays up until an edge sees ready;
\* port 0 is the CPU, the units behind the other ports only answer, so they
\* are silent until the pulse is over
Sources(more) ==
    /\ sent' = [i \in Port |->
                  IF i = 0 /\ reset = RLEVEL THEN 0
                  ELSE IF Offered(i) /\ ready[i] THEN sent[i] + 1 ELSE sent[i]]
    /\ valid' = [i \in Port |->
                  /\ sent'[i] < Len(Traffic[i])
                  /\ \/ Offered(i) /\ ~ready[i]
                     \/ i \in more /\ IF i = 0 THEN cpu' = "run" ELSE st = "POST"]

\* ct_demux at one edge: s_port.read(), then m_port[...].write(flit)
Granted(i) == LET m == mux[Route(dmx[i].flit.tdest)] IN m.pc = "take" /\ m.src = i
ct_demux(i) ==
    CASE reset = RLEVEL -> [pc |-> "start", flit |-> None]
      [] reset # RLEVEL /\ dmx[i].pc = "start" -> [pc |-> "read", flit |-> None]
      [] reset # RLEVEL /\ dmx[i].pc = "read" ->
         IF Offered(i) THEN [pc |-> "write", flit |-> Flit(i)] ELSE dmx[i]
      [] reset # RLEVEL /\ dmx[i].pc = "write" ->
         IF Granted(i) THEN [pc |-> "read", flit |-> None] ELSE dmx[i]

\* The inputs whose demultiplexer shows a flit for output j
Waiting(j) == {i \in Port : dmx[i].pc = "write" /\ Route(dmx[i].flit.tdest) = j}

\* mutant: the flit is taken from whoever is waiting when it is read
Chosen_Late(m, j) == CHOOSE i \in Waiting(j) : \A k \in Waiting(j) : i >= k
Chosen(m, j) == m.src

\* ct_mux: the scan takes the lowest waiting input
Scan(j) == IF Waiting(j) = {} THEN [pc |-> "wait", src |-> 0, flit |-> None]
           ELSE [pc |-> "take", flit |-> None,
                 src |-> CHOOSE i \in Waiting(j) : \A k \in Waiting(j) : i <= k]
ct_mux(j) ==
    LET m == mux[j]
    IN  CASE reset = RLEVEL -> [pc |-> "start", src |-> 0, flit |-> None]
          [] reset # RLEVEL /\ m.pc = "start" -> [m EXCEPT !.pc = "wait"]
          [] reset # RLEVEL /\ m.pc = "wait" -> Scan(j)
          [] reset # RLEVEL /\ m.pc = "take" ->
             [m EXCEPT !.pc = "put", !.flit = dmx[Chosen(m, j)].flit]
          [] reset # RLEVEL /\ m.pc = "put" ->
             IF Len(queue[j]) = QDEPTH THEN m
             ELSE Scan(j)

\* u_queue of output j: full blocks the multiplexer, rdy pops
u_queue(j, rdy) ==
    LET q == queue[j]
        out == IF rdy /\ q # <<>> THEN Tail(q) ELSE q
    IN  IF reset = RLEVEL THEN <<>>
        ELSE IF mux[j].pc = "put" /\ Len(q) < QDEPTH THEN Append(out, mux[j].flit) ELSE out

\* One edge: the sources in more have a flit to send, the readers in rdy are
\* ready
Edge(more, rdy) ==
    /\ ms_pulse /\ th_main /\ Sources(more)
    /\ dmx' = [i \in Port |-> ct_demux(i)]
    /\ ready' = [i \in Port |-> IF reset = RLEVEL THEN ready[i] ELSE dmx'[i].pc = "read"]
    /\ mux' = [j \in Port |-> ct_mux(j)]
    /\ queue' = [j \in Port |-> u_queue(j, j \in rdy)]
    /\ got' = [j \in Port |-> IF j \in rdy /\ queue[j] # <<>> /\ reset # RLEVEL
                              THEN Append(got[j], Head(queue[j])) ELSE got[j]]

Senders == {i \in Port : Traffic[i] # <<>>}
Targets == UNION {{Route(Traffic[i][n]) : n \in DOMAIN Traffic[i]} : i \in Senders}
Next == \E more \in SUBSET Senders, rdy \in SUBSET Targets : Edge(more, rdy)
\* The clock never stops, sources and readers do not stall for ever
Fairness == WF_vars(Edge(Senders, Targets))
Spec == Init /\ [][Next]_vars /\ Fairness
-----------------------------------------------------------------------------
\* The flits on their way from input i to output j, oldest first
From(i, s) == SelectSeq(s, LAMBDA f : f.src = i)
Held(b) == IF b.flit = None THEN <<>> ELSE <<b.flit>>
Demuxed(i, j) == IF dmx[i].pc = "write" /\ Route(dmx[i].flit.tdest) = j
                 THEN <<dmx[i].flit>> ELSE <<>>
Path(i, j) == From(i, got[j]) \o From(i, queue[j]) \o From(i, Held(mux[j])) \o Demuxed(i, j)

\* What a source has handed over is on its way or delivered, at the output its
\* destination id names, in the order sent, none lost and none twice: through
\* the reset pulse at the start and however inputs compete for an output.
NothingLost ==
    \A i, j \in Port :
        Path(i, j) = SelectSeq([n \in 1 .. sent[i] |->
                                  [src |-> i, seq |-> n, tdest |-> Traffic[i][n]]],
                               LAMBDA f : Route(f.tdest) = j)

\* All traffic has been sent and has arrived
Delivered == \A i \in Port : /\ sent[i] = Len(Traffic[i]) /\ dmx[i].flit = None
                             /\ mux[i].flit = None /\ queue[i] = <<>>
=============================================================================
