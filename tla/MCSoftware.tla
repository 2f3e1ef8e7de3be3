----------------------------- MODULE MCSoftware -----------------------------
(***************************************************************************)
(* Drivers, libraries and tools on small instances.  The initial state     *)
(* chooses one and only that one moves: the state space is the disjoint    *)
(* union of theirs.  The memory driver's and the memory model's variables  *)
(* are their own, s1 .. s14 hold those of the others.                      *)
(***************************************************************************)
EXTENDS Lmalloc, HmcCtl, TLC

VARIABLES unit, s1, s2, s3, s4, s5, s6, s7, s8, s9, s10, s11, s12, s13, s14

Own == <<unit, vars, hmcVars>>
All == <<Own, s1, s2, s3, s4, s5, s6, s7, s8, s9, s10, s11, s12, s13, s14>>
From4 == <<s4, s5, s6, s7, s8, s9, s10>>
From8 == <<s8, s9, s10>>
High == <<s11, s12, s13, s14>>
HighIdle == s11 = None /\ s12 = None /\ s13 = None /\ s14 = None
Idle9 == s9 = None /\ s10 = None /\ HighIdle
Idle8 == s8 = None /\ Idle9
Idle7 == s7 = None /\ Idle8
Idle6 == s6 = None /\ Idle7
Idle5 == s5 = None /\ Idle6
Idle4 == s4 = None /\ Idle5
Idle1 == s1 = None /\ s2 = None /\ s3 = None /\ Idle4
-----------------------------------------------------------------------------
(* Stream FIFO driver: whole packets and pieces, blocking and F_NOWA, a     *)
(* packet that fits only when the FIFO is empty; reads of parts of packets. *)
CallOf(n, f) == [words |-> n, flags |-> f]
F == INSTANCE LlFifo WITH TxDepth <- 4, RxDepth <- 6,
       Script <- <<CallOf(2, {"BEGP"}), CallOf(1, {"ENDP"}),
                   CallOf(3, {"BEGP", "ENDP", "NOWA"}), CallOf(0, {"BEGP"}),
                   CallOf(2, {"NOWA"}), CallOf(2, {"ENDP", "NOWA"}),
                   CallOf(3, {"BEGP", "ENDP"})>>,
       Asks <- <<CallOf(1, {"BEGP"}), CallOf(2, {"ENDP"}), CallOf(2, {"BEGP", "ENDP"})>>,
       txq <- s1, txlen <- s2, part <- s3, frames <- s4, cur <- s5, fault <- s6,
       tport <- s7, rport <- s8, todo <- s9, turn <- s10, sent <- s11, building <- s12,
       got <- s13, taking <- s14
Fifo(step) == unit = "fifo" /\ step /\ UNCHANGED Own
-----------------------------------------------------------------------------
(* Byte streamer over the FIFO: a frame that spans words, every alignment. *)
B == INSTANCE XStreamer WITH FifoWidth <- 4, TxDepth <- 2, Lengths <- {1, 3, 8},
       Aligns <- {0, 3}, MaxBytes <- 10, tx <- s1, rx <- s2, frames <- s3, total <- s4,
       frame <- s5, got <- s6, short <- s7
Streamer == unit = "streamer" /\ B!Next /\ UNCHANGED <<Own, From8, High>>
-----------------------------------------------------------------------------
(* Data cache: a buffer of whole lines and one that shares its lines with   *)
(* other data; the sweep alone for more ways.                               *)
Range(adr, len) == [adr |-> adr, len |-> len]
Level(ways, sets) == [ways |-> ways, sets |-> sets]
D == INSTANCE XilCache WITH LineSize <- 2, Lines <- 3, RegBits <- 8, MaxWrites <- 2,
       Geometries <- {<<Level(1, 2), Level(2, 2)>>},
       Buffers <- {Range(2, 2), Range(1, 2)},
       geom <- s1, buf <- s2, on <- s3, mem <- s4, dcache <- s5, cpu <- s6, phase <- s7,
       writes <- s8, fd <- s9, torn <- s10
ASSUME SweepsAll == \A ways \in {1, 2, 4, 16}, sets \in {1, 2, 4} :
    D!Slots(Level(ways, sets)) = (0 .. ways-1) \X (0 .. sets-1)
DCache == unit = "dcache" /\ D!Next /\ UNCHANGED <<Own, High>>
-----------------------------------------------------------------------------
(* Contiguous memory driver; its property is Lmalloc's own. *)
LRest == <<unit, hmcVars, s1, s2, s3, From4, High>>
Lma == unit = "lmalloc" /\ Next /\ UNCHANGED LRest
LmaKernel(p) == unit = "lmalloc" /\ Kernel(p) /\ UNCHANGED LRest
-----------------------------------------------------------------------------
(* The kernel modules, loaded, used and unloaded. *)
X == INSTANCE DriverLoad WITH MaxOpen <- 2, at <- s1, class <- s2, chrdev <- s3, node <- s4,
       files <- s5
LoadStep == unit = "load" /\ X!Next /\ UNCHANGED <<Own, s6, s7, From8, High>>
-----------------------------------------------------------------------------
(* Performance monitor registers, and the counting and tracing on them. *)
A == INSTANCE Apm WITH Counters <- {0, 3, 9}, is_32bit_filter <- FALSE, MaxCalls <- 3,
       reg <- s1, want <- s2, calls <- s3
ApmStep == unit = "apm" /\ A!Next /\ UNCHANGED <<Own, From4, High>>

S == INSTANCE Stats WITH Counters <- {2, 4}, is_32bit_filter <- FALSE, Linux <- FALSE,
       Cap <- 2, Flush <- 3, MaxEvents <- 4, MaxWindows <- 2,
       reg <- s1, mc <- s2, isr <- s3, st <- s4, hist <- s5, out <- s6, tr <- s7,
       left <- s8, pushed <- s9, events <- s10, windows <- s11, stray <- s12
StatsStep == unit = "stats" /\ S!Next /\ UNCHANGED <<Own, s13, s14>>
-----------------------------------------------------------------------------
(* Clocks of the emulation: three calls, two faults. *)
K == INSTANCE Clocks WITH MaxCalls <- 3, MaxFaults <- 2, pc <- s1, goal <- s2, arm <- s3,
       pl0 <- s4, compat <- s5, delay <- s6, maps <- s7, faults <- s8, mapFaults <- s9,
       calls <- s10, build <- s11
ClockStep == unit = "clocks" /\ K!Next /\ UNCHANGED <<Own, s12, s13, s14>>

\* Between calls the delays fit the clock, unless a step failed (clocks.c).
DelaysMatchClock == unit = "clocks" => K!DelaysMatchClock
-----------------------------------------------------------------------------
(* Device tree: directories of up to three entries, nested once. *)
Dev(name, prop, broken) == [name |-> name, prop |-> prop, broken |-> broken, kids |-> <<>>]
Leaves == {Dev("axi_delay", <<1, 2>>, FALSE), Dev("axi_delay", <<3>>, FALSE),
           Dev("axi_delay", <<5, 6, 9>>, FALSE), Dev("ram", <<4, 7, 8>>, FALSE),
           Dev("ram", <<>>, TRUE)}
Dir(kids) == [name |-> "bus", prop |-> <<>>, broken |-> FALSE, kids |-> kids]
UpTo(set, n) == UNION {[1 .. k -> set] : k \in 0 .. n}
Pairs == {<<Dev("axi_delay", <<1, 2>>, FALSE), d>> :
            d \in {Dev("axi_delay", <<5, 6, 9>>, FALSE), Dev("axi_delay", <<3>>, FALSE),
                  Dir(<<Dev("axi_delay", <<5, 6, 9>>, FALSE)>>)}}
V == INSTANCE DevTree WITH Name <- "axi_delay", Size <- 2, Insts <- {1, 2},
       Trees <- {Dir(k) : k \in UpTo(Leaves \cup {Dir(j) : j \in UpTo(Leaves, 1) \cup Pairs}, 3)},
       tree <- s1, inst <- s2, result <- s3
DevSearch == unit = "devtree" /\ V!Next /\ UNCHANGED <<Own, From4, High>>
-----------------------------------------------------------------------------
(* DMA programs: block sizes, strides and counts around the wide loop. *)
Gather(b, d, i, n) == [block_sz |-> b, dst_inc |-> d, src_inc |-> i, n |-> n]
M == INSTANCE DmacCmd WITH Inner <- 2, WideStore <- 8, LoopMax <- 8, BufCount <- 2,
       MaxCalls <- 4, Lengths <- {0, 3, 9},
       Copies <- {Gather(4, 4, 12, 17), Gather(4, 4, 4, 5), Gather(4, 8, 6, 26),
                  Gather(4, 4, 4, 16), Gather(8, 8, 16, 7), Gather(1, 1, 3, 3), Gather(2, 6, 5, 9),
                  Gather(8, 8, 8, 16), Gather(4, 4, 4, 8), Gather(16, 16, 16, 2), Gather(4, 4, 8, 15)},
       pool <- s1, refused <- s2, exited <- s3, last <- s4, calls <- s5
DmacStep == unit = "dmac" /\ M!Next /\ UNCHANGED <<Own, s6, s7, From8, High>>
-----------------------------------------------------------------------------
(* File calls over FatFs: two files, two descriptors, one failing call. *)
T == INSTANCE FatFs WITH Paths <- {"x", "y"}, Bytes <- {1, 2}, MaxSize <- 3, MAX_FD <- 2,
       MaxErrors <- 1, MaxCalls <- 5,
       Modes <- {{}, {"O_RDWR"}, {"O_WRONLY", "O_CREAT", "O_TRUNC"},
                 {"O_RDWR", "O_CREAT", "O_TRUNC"}, {"O_WRONLY", "O_CREAT", "O_APPEND"},
                 {"O_RDWR", "O_APPEND"}},
       mounted <- s1, disk <- s2, fds <- s3, open <- s4, told <- s5, errors <- s6, calls <- s7,
       lost <- s8, astray <- s9
FatStep == unit = "fatfs" /\ T!Next /\ UNCHANGED <<Own, s10, High>>

-----------------------------------------------------------------------------
(* Break pointer and scratchpad. *)
R == INSTANCE Brk WITH HeapEnd <- 10, SpEnd <- 10, ALIGN_SZ <- 4, Sizes <- {0, 1, 3, 4, 7},
       MaxCalls <- 4, heap_ptr <- s1, top <- s2, blocks <- s3, calls <- s4
BrkStep == unit = "brk" /\ R!Next /\ UNCHANGED <<Own, s5, s6, s7, From8, High>>
-----------------------------------------------------------------------------
(* Capture of a trace to a card: traces around the block and memory sizes. *)
P == INSTANCE SdCapture WITH BlockEntries <- 2, MemEntries <- 6, MaxTrace <- 8,
       Rooms <- {0, 3, 9}, MaxFaults <- 1, sink <- s1, trace <- s2, endless <- s3, taken <- s4,
       pc <- s5, buffer <- s6, file <- s7, tot <- s8, faults <- s9, msg <- s10, room <- s11
SdStep == unit = "sdcard" /\ P!Next /\ UNCHANGED <<Own, s12, s13, s14>>
-----------------------------------------------------------------------------
(* Trace parser: two slots with different widths, every pair of events. *)
Widths(e, f, l, i, a, d) == [EXT_EVENT |-> e, FLAGS |-> f, AxLEN |-> l, xxID |-> i,
                             AxADDR |-> a, xDATA |-> d]
Flags == {w + r + a + b + c : w \in {0, 6, 2, 128, 4}, r \in {0, 96, 32, 256, 64},
                              a \in {0, 1}, b \in {0, 8}, c \in {0, 16}}
Hardware(dt, f1, f2) ==
    [sw |-> FALSE, dt |-> dt, value |-> 0,
     slots |-> <<<<1, f1, 1, 0, 3, 1, 2, 0, 5, 6>>, <<0, f2, 2, 3, 0, 1, 1, 0, 7, 2>>>>]
Marker(dt, v) == [sw |-> TRUE, dt |-> dt, value |-> v, slots |-> <<>>]
Y == INSTANCE TraceParse WITH TIMESTAMP <- 2, LOOP <- 1, SW_PACKET <- 3, EntryBits <- 64,
       SlotParams <- <<Widths(1, 9, 1, 2, 3, 16), Widths(1, 9, 2, 1, 3, 8)>>,
       Traces <- {<<Hardware(2, f, 1), Marker(3, 5), Hardware(1, 96, f)>> : f \in Flags},
       recorded <- s1, file <- s2, time <- s3, rows <- s4, done <- s5
ParseStep == unit = "parser" /\ Y!Next /\ UNCHANGED <<Own, s6, s7, From8, High>>
-----------------------------------------------------------------------------
(* Short hash: keys of 0 to 34 bytes of two bits. *)
H == INSTANCE ShortHash WITH ByteBits <- 2, Seeds <- {0, 13}, INIT_VAL <- 57005,
       Keys <- {[i \in 1 .. n |-> IF p = 0 THEN i % 4 ELSE (3 * i + p) % 4] :
                  n \in 0 .. 34, p \in 0 .. 2},
       key <- s1, seed <- s2, leftFirst <- s3, result <- s4
HashStep == unit = "hash" /\ H!Next /\ UNCHANGED <<Own, s5, s6, s7, From8, High>>
-----------------------------------------------------------------------------
(* Memory model of the key-value simulation, its property HmcCtl's own, and *)
(* the SystemC stream calls.                                                *)
HmcStep == unit = "hmc" /\ HmcNext /\ UNCHANGED <<unit, vars, s1, s2, s3, From4, High>>

Q == INSTANCE ScStream WITH Depth <- 2,
       Sends <- <<CallOf(<<1, 2, 3>>, {"BEGP"}), CallOf(<<4>>, {"ENDP"}),
                  CallOf(<<5, 6>>, {"BEGP", "ENDP"}), CallOf(<<7>>, {"BEGP"}),
                  CallOf(<<8, 9, 10>>, {"ENDP"})>>,
       Recvs <- <<CallOf(2, {"BEGP"}), CallOf(2, {"ENDP"}), CallOf(2, {"BEGP", "ENDP"}),
                  CallOf(3, {"BEGP"}), CallOf(1, {"ENDP"})>>,
       sidx <- s1, m_hdr <- s2, out <- s3, chan <- s4, ridx <- s5, s_hdr <- s6, got <- s7,
       sent <- s8, taken <- s9, failed <- s10
ScStep == unit = "scstream" /\ Q!Next /\ UNCHANGED <<Own, High>>
-----------------------------------------------------------------------------
Units == \/ unit = "fifo" /\ F!Init
         \/ unit = "streamer" /\ B!Init /\ Idle8
         \/ unit = "dcache" /\ D!Init /\ HighIdle
         \/ unit = "lmalloc" /\ Idle1
         \/ unit = "load" /\ X!Init /\ Idle6
         \/ unit = "apm" /\ A!Init /\ Idle4
         \/ unit = "stats" /\ S!Init /\ s13 = None /\ s14 = None
         \/ unit = "clocks" /\ K!Init /\ s12 = None /\ s13 = None /\ s14 = None
         \/ unit = "devtree" /\ V!Init /\ Idle4
         \/ unit = "dmac" /\ M!Init /\ Idle6
         \/ unit = "fatfs" /\ T!Init /\ s10 = None /\ HighIdle
         \/ unit = "brk" /\ R!Init /\ Idle5
         \/ unit = "sdcard" /\ P!Init /\ s12 = None /\ s13 = None /\ s14 = None
         \/ unit = "parser" /\ Y!Init /\ Idle6
         \/ unit = "hash" /\ H!Init /\ Idle5
         \/ unit = "hmc" /\ Idle1
         \/ unit = "scstream" /\ Q!Init /\ HighIdle
\* Memory driver and model wait in their initial states when they do not move.
SoftwareInit == Units /\ Init /\ HmcInit /\ (unit # "hmc" => treqcnt = 0)
SoftwareNext == \/ Fifo(F!Transmit) \/ Fifo(F!stream_send) \/ Fifo(F!stream_send_fail)
                \/ Fifo(F!stream_recv)
                \/ Streamer \/ DCache \/ Lma \/ ApmStep \/ StatsStep \/ ClockStep
                \/ DevSearch \/ DmacStep \/ FatStep \/ BrkStep \/ SdStep \/ ParseStep \/ HashStep
                \/ HmcStep \/ ScStep \/ LoadStep
\* The FIFO core and its callers keep running; a call inside the driver ends.
SoftwareFairness == /\ WF_All(Fifo(F!Transmit)) /\ WF_All(Fifo(F!stream_send))
                    /\ WF_All(Fifo(F!stream_recv))
                    /\ \A p \in Procs : WF_All(LmaKernel(p))
SoftwareSpec == SoftwareInit /\ [][SoftwareNext]_All /\ SoftwareFairness
-----------------------------------------------------------------------------
\* What is received is what was sent, for every split into calls: packets of
\* the FIFO driver, in order and whole up to what was asked for, with the FIFO
\* never written full or read empty (stream_send, stream_recv); the bytes of
\* the byte streamer, whose vacancy is there when a caller writes
\* (xstreamer.c); flits and headers of the simulated streams (stream.cpp).
StreamsExact == /\ unit = "fifo" => F!PacketsExact
                /\ unit = "streamer" => B!BytesExact /\ B!VacancySafe
                /\ unit = "scstream" => Q!StreamExact

\* The accelerator's memory holds what the CPU sent (CACHE_SEND), and the CPU
\* reads what it or the accelerator wrote last (CACHE_RECV), whatever lines the
\* cache fetches and evicts and whatever else the CPU writes meanwhile, unless
\* the Linux wrapper reported that it cannot reach the driver.  Only in lines
\* that a buffer shares with data the CPU wrote meanwhile may the accelerator's
\* bytes be overwritten by old ones; a buffer of whole lines has none.
CachesCoherent == unit = "dcache" => D!AcceleratorView /\ D!CpuView /\ D!WholeLinesSafe

\* What the C library is built on: programs see the files POSIX promises, but
\* for writes to a moved descriptor that should append (fatfs.c), and blocks of
\* the heap and the scratchpad do not overlap (_sbrk, sp_alloc).
SystemCallsExact == /\ unit = "fatfs" => T!PosixView
                    /\ unit = "brk" => R!BlocksApart

\* What is taken is given back on the failing paths as well: registrations of
\* a kernel module (lma_init, lmc_init), mapped device pages (clocks.c).  Two
\* paths of the code give nothing back, and only they lose anything: an open
\* that fails after f_open or a failing close keeps its slot (_open, _close), a
\* refused DMA start its program buffer (dmac_cmd.c).
ResourcesReturned == /\ unit = "load" => X!UnloadsClean
                     /\ unit = "clocks" => K!MapsReturned
                     /\ unit = "fatfs" => T!SlotsAccounted
                     /\ unit = "dmac" => M!BuffersAccounted

\* Register fields read back as last set (xapm.c); counts are those of their
\* window, every overflow is marked in the standalone build (on Linux nothing
\* sets the status that stats_print reads), a mark without an overflow is left
\* only by counters that ran on while stats_start cleared the status, and
\* trace_stop pushes its markers through although statistics stop meanwhile
\* (monitor.c).
MonitorExact == /\ unit = "apm" => A!ReadsBack
                /\ unit = "stats" => S!CountsExact /\ S!OverflowMarked /\ S!TracePushed

\* A capture leaves the trace in the file without a gap, whole unless it says
\* otherwise or the card is full (trace_capture), and the rows printed from a
\* file are the events recorded, with their times (parser.c).
TraceKept == /\ unit = "sdcard" => P!CaptureExact
             /\ unit = "parser" => Y!RowsExact

\* Algorithms against their references: what dev_search reports as found is the
\* device asked for; the generated DMA program gathers exactly the blocks asked
\* for, packed, if they are of four bytes or too few for the wide loop
\* (dmac_smemcpy); both versions of the short hash agree up to the order in
\* which the compiler evaluates EMIX (short.c).
ResultsExact == /\ unit = "devtree" => V!SearchExact
                /\ unit = "dmac" => M!GatherExact
                /\ unit = "hash" => H!VersionsAgree

\* Everything a sender had is taken in the end (stream_send), and the frames of
\* a process that ends come back (lma_release).
SoftwareSettles ==
    /\ <>[](unit = "fifo" => F!AllTaken)
    /\ \A p \in Procs : (unit = "lmalloc" /\ Dead(p)) ~> (unit = "lmalloc" /\ Returned(p))
=============================================================================
