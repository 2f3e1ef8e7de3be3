# LiME: a TLA+ verification project

LiME (Logic in Memory Emulator) is a set of VHDL, HLS and SystemC hardware blocks,
the C software that drives them, and the tools that capture and decode memory
traces.  This project models the parts of it that have state and protocols, checks
the models with TLC on small instances, and proves the properties that matter most
with TLAPS for every value of the constants.  Paths below are relative to `src/`.

## 1. The system and its parts

| part | sources | what it does | module |
|---|---|---|---|
| stream FIFO | `*axis_flow*/hdl/vhdl/{fifo_cc,axis_fifo_cc}.vhd` | common-clock FIFO, valid/ready on both sides | FifoCC, StreamQueue |
| control port | `axis_port.vhd` (one file in four IPs) | register file written and read by packets; starts the unit behind it, returns answers | AxisPort |
| load-store channel | `axi_lsu_cmd.vhd`, `axi_lsu_ctl.vhd` | turns registers into DataMover commands and their status into answers | LsuCtl |
| host command library | `shared/{aport,lsu_cmd}.c` | builds packets, sends them, waits for the answer | LsuCtl |
| delay unit | `axi_delay_1.2.6/hdl/*.vhd` | holds every AXI word back for a programmed number of cycles | ChanDelay |
| trace capture device | `axi_tcd_1.1.1/hdl/*.vhd` | writes bus events to a ring buffer in memory and replays them | TraceCapture |
| trace compressor | `ip/hls/compress` | splits a monitor event into up to four small ones | Compress |
| Ethernet trace interface | `ip/hls/eth_fifo_interface` | sends trace entries in Ethernet frames | EthFifo |
| SystemC control registers | `ip/sysc/ctlreg.h` | the control port of the simulated units | CtlReg |
| SystemC hash unit | `ip/sysc/{hsu,shash}.h` | hashes keys from packets or from a stream | HashUnit |
| SystemC load-store unit | `ip/sysc/{lsu,port_dma,port_axi}.h` | control threads, and two DMA engines over a memory of transactions | LsuUnit, ScDma |
| SystemC key-value pipeline | `ip/sysc/{kvs,indel,spsel}.h` | split, hash, fetch and probe | Kvs |
| SystemC switch and start-up | `ip/sysc/{cswitch,pulse,cpu}.h` | routes control packets; reset pulse | Cswitch |
| SystemC stream blocks | `ip/sysc/{sreg,sfifo_cc,fifo_cc,rvfifo_cc,sc_stream*}.h` | register slices, FIFOs, blocking reads and writes | StreamChain |
| SystemC memory model | `ip/sysc/kvs.cpp` | delays requests by queue, memory and interconnect | HmcCtl |
| short hash | `axis_hash_1.0.1/short.c` | the hash in software and as a pipeline | ShortHash |
| stream drivers | `shared/linux/stream.c`, `shared/linux/xllfifo`, `shared/sysc/stream.cpp` | packets and bytes over the hardware FIFO or over simulated channels | LlFifo, XStreamer, ScStream |
| heap | `shared/dlmalloc.c` | the allocator for accelerator memory | Dlmalloc |
| memory driver | `linux/drivers/lmalloc.c`, `shared/linux/accmem.c` | contiguous blocks, freed by call or by close | Lmalloc, DriverLoad |
| cache maintenance | `linux/drivers/lmcache_ops.c`, `arm64/xil_cache.c`, `shared/cache.h` | flush and invalidate between CPU and accelerator | XilCache, DriverLoad |
| monitor library and driver | `shared/*/monitor.c`, `shared/linux/xapm.{c,h}` | statistics, trace start, stop and capture | XApm, Apm, Stats, SdCapture, TraceCapture |
| clock scaling, device tree | `shared/*/clocks.c`, `shared/linux/devtree.c` | enters and leaves emulation mode; finds and maps devices | Clocks, DevTree |
| DMA controller driver | `shared/standalone/dmac_cmd.c` | strided copies by generated DMA programs | DmacCmd |
| file calls, memory regions | `shared/standalone/{fatfs,sbrk,accmem}.c` | POSIX calls on a card; break pointer and scratchpad | FatFs, Brk |
| trace parser | `trace/parser.c` | decodes captured entries to rows | TraceParse |

How they interact: the host library sends packets through the stream driver, a FIFO
and the header converter to control ports; a port starts its unit; the load-store
unit moves data over AXI; the delay units sit on the AXI channels and emulate slower
memories, set by the clock-scaling calls; the performance monitor watches the same
channels, and its events go either to the trace capture device, which the monitor
library reads back to a file that the parser decodes, or through the compressor and
the Ethernet interface to another computer.  Programs allocate accelerator memory from
the heap, which asks the memory driver for segments, and keep it coherent with the
cache calls.

## 2. Modules

Hardware is modelled at clock granularity: one step of a module is one rising edge
of its clock.  A VHDL process is an operator over primed variables, the edge is
the conjunction of the processes, and a combinatorial signal is an operator with
the signal's name.  SystemC threads that share a clock step together, and a `pc` names
the `wait()` a thread stands at; threads joined only by blocking queues (ScDma, Kvs)
interleave freely.  C functions that nothing interrupts are one action each, or one
operator on a record where they are only parts of a call; functions that a second
process, a device or a failing call can interrupt are one action per step.  Inputs
from outside are chosen by `\E`.  Words, addresses and payloads are small sets or
small integers; widths that matter are constants used as moduli.

### Hardware

**StreamQueue** is the abstract FIFO: a sequence of bounded length, a word in and a
word out per edge.  **FifoCC** is `behaviorR` behind `axis_fifo_cc`: `data`, `rd_idx`,
`wr_idx`, `full_i`, `empty_i`, with `put` and `got` recording what crossed the interfaces.
`Contents` maps the ring to the abstract queue.

**AxisPort** holds the control port's registers and processes (`c_advance` decides
whether a beat is taken; `RegisterFile`, `CommandRegister`, `ARegister`, `BRegister`
are the clocked processes).  **LsuCtl** holds the command process of the interpreter
(`m_axis_cmd`, `command_ready`, the write-back `vwe`/`vrsp` of strided moves) and its
status process, and composes them with the port, the host's packets and a DataMover,
which is external: it takes commands into a queue and completes them in order with any
status.  The variables `shadow`, `owed`, `await` and `result` state what the software
may expect: the registers as it wrote them, the commands still due, the answer it
waits for, and the status bits to be seen.

**ChanDelay** is one channel of the delay unit.  Each entry of `fifo` carries its
time stamp `tm`, the delay it was to have (`want`) and its `age`.  `Crossing` is the
bitwise synchroniser: every bit of the delay takes its old or its new value.

**TraceCapture** is the whole of `axi_tcd.vhd` in its two clock domains, an AXI memory
with `Outstanding` writes that may take `Early` data beats before their address, and the
loop of `trace_capture`.  Burst addresses are counted in bursts, modulo `BURSTS`.  Nothing
keeps the program slower than the memory; the history variable `dry` records that it has
taken the last word of the read FIFO while others were on their way.

**Compress** has the two dataflow processes as separate actions joined by
`pack_buffer`; `Reference` is the conversion as a function of the input history.
**EthFifo** is one call of `eth_fifo_interface` per step.  The MAC and the receiver
are external: the MAC starts reading when `data_ready` is up and reads to the end of
the frame at any pace; the receiver compares every frame with `Frame`.

### SystemC design

**CtlReg** is the register file: `ctlreg_edge(r, ...)` is the record `r` after one edge.
**HashUnit** puts the hash pipeline behind it, with keys from registers or stream and
hashes to stream or to another unit.  **LsuUnit** puts the load-store control behind it,
with the DMA engine as environment.  **ScDma** is both DMA engines joined as
`lsu_memcpy` joins them; `want` is memory as the copies asked for should leave it.
**Kvs** is the lookup pipeline with the hash and load-store units as in-order stages.
**Cswitch** is the switch with its reset pulse and the CPU's start.  **StreamChain** is a
row of all stream blocks; `Contents` maps the row to one StreamQueue.  **HmcCtl** is
the timing of requests; the uninitialised `treqcnt` is any value in its initial state.

### Software

**Dlmalloc** has the data structures of the heap (boundary tags, small bins, tries),
one action per public call over the driver, and what callers and driver may
rely on; `live` and `blocks` are their views.  **Lmalloc** has the memory
driver under several processes, each system call split where the kernel releases the
mapping lock.  **DriverLoad** loads and unloads both kernel modules with failing steps.
**XilCache** has the data cache of which any line may be fetched or evicted at any
time, the send and receive protocol of `cache.h`, and the library that reaches the
kernel module or fails to (`Through`).  **LlFifo**, **XStreamer** and
**ScStream** are the three layers of streams; the FIFO core is external and loops back.
**XApm** has the registers of the performance monitor and the driver's functions as
operators; **Apm** calls them in any order, **Stats** calls them as `monitor.c` does while
counters count, `stats_start` in three steps.  **SdCapture** captures a trace to a card or the heap.  **Clocks** has the
three builds of clock scaling with failing mappings; **DevTree** is the recursive search,
compared with a flat list of devices.  **DmacCmd** has the generated program and a
controller that runs it.  **FatFs** has the descriptor table over a library that may
fail; **Brk** the two bump allocators.  **TraceParse** decodes bits that an external
monitor packed; **ShortHash** has both versions of the hash.

### Instances

The modules `MC...` hold the instances for TLC; `TraceCapture` and `Compress` need no
more than the constants of their cfg files.  `MCMemory`, `MCPaths`, `MCSysc` and `MCSoftware`
are sums: the initial state chooses one part (`unit`), and only that part moves.  The
parts that theorems are about (FifoCC, ChanDelay, StreamChain, Lmalloc, HmcCtl) are extended and keep
their own variables, so that the run and the theorem speak of one definition; the
variables of the others are held in generic ones.  The state space is the disjoint union of the
parts' own, and a property of such a run is a conjunction with one statement for each
part it concerns.  The modules `...Proofs` hold the proofs;
HmcCtl holds its own.

## 3. What TLC checks

| run | module | distinct states | shows |
|---|---|---|---|
| lsu | MCLsu | 59 k | copies, strided and indexed moves, reads and writes in any order: the DataMover gets what was programmed, answers are the expected ones, calls that wait return |
| tcd_ring | TraceCapture | 549 k | the trace comes back in order and, as far as the flush reaches, complete, unless the program overtakes the memory; `trace_capture` returns |
| paths | MCPaths | 95 k | the ring FIFO is a bounded queue; every word leaves the delay channel; the compressor equals its reference; frames carry whole entries in order and none stays behind |
| memory | MCMemory | 407 k | heap: blocks are disjoint, mapped and aligned; the allocator's own checks hold; the best fit is chosen; the accounts agree with the driver; a call changes no other block.  Delay channel: delays are kept, across counter wrap and delay changes, and an offer is not withdrawn |
| sysc | MCSysc | 46 k | each SystemC unit does what it promises under any stalls and comes to an end; the stream blocks in a row are one queue |
| software | MCSoftware | 493 k | seventeen drivers, libraries and tools, with failing calls and concurrent devices or processes |

The properties of the sum runs, by part:

| property | parts | statement |
|---|---|---|
| ImplementsQueue, OfferStable | FIFO | the ring refines StreamQueue; an offered word stays |
| OutputsAsFed | compressor | the output is the reference conversion of the input so far; the state names the lanes left |
| FramesWellFormed | Ethernet | frames are well formed; the byte counter follows the buffer; no read of an empty buffer |
| PathsDrain | delay, compressor, Ethernet | what entered leaves |
| HashExact, LsuExact, DmaExact, KvsLookupsExact, SwitchNothingLost, ChainIsQueue | the six SystemC units | see the comments in MCSysc |
| AllServed | the six SystemC units | all keys answered, commands done, copies copied, lookups looked up, flits delivered, and a writer's word is taken |
| StreamsExact | LlFifo, XStreamer, ScStream | what is received is what was sent, for every split into calls |
| CachesCoherent | XilCache | each side reads what the other handed over, but for lines the buffer shares with data written meanwhile, and as long as the driver is there |
| MemoryOwned | Lmalloc | no frame has two owners, and none is lost |
| ResourcesReturned | DriverLoad, Clocks, FatFs, DmacCmd | failing paths give back what they took; of slots and program buffers exactly those of the two known leaks are missing |
| MonitorExact | Apm, Stats | fields read back; counts are those of their window; no overflow goes unmarked |
| DelaysMatchClock | Clocks | between calls the delays fit the clock, unless a step failed |
| TraceKept | SdCapture, TraceParse | the file is a prefix of the trace, whole unless it says otherwise or the card is full; rows are the events |
| ResultsExact | DevTree, DmacCmd, ShortHash | what the search finds is the device asked for; gathers and hash equal their references |
| SystemCallsExact | FatFs, Brk | files are as POSIX has them, but for appends after a seek; blocks of heap and scratchpad do not overlap |
| BandwidthKept | HmcCtl | transfers of one direction never overlap on the interconnect |
| SoftwareSettles | LlFifo, Lmalloc | a sender is done in the end; the memory of an ended process comes back |

Six runs show a place where the code and a line of the repository disagree; each
checks one property and TLC finds a behaviour that breaks it:

| run | property | what happens |
|---|---|---|
| port_nread | FirstBeatIsFirstWord | after a read of several registers the port takes the next packet's first beat for a continuation |
| port_priority | HeaderFitsData | with a read answer and a status both pending, header and data come from different ones |
| tcd_valid | AddressStable | a data beat taken ahead of its address lowers the FIFO below a burst, and the address valid is withdrawn before its handshake |
| tcd_flush | FlushComplete | two data beats taken ahead of their address make the flush one entry too short, and a real entry stays behind |
| compress_time | TimeAsTested | after other events, an event of several lanes leaves with the time of all of them, where the test bench expects its own |
| heap_nomem | LiveMapped | when the driver has no memory, the heap takes the null answer for a segment and hands out a block at address zero |

The repository lines they are measured against are quoted in `PROJECT.json`.

### Limits the models show and the runs stay within

Hardware:

* `EmitsAsProgrammed` fails for a size of more than 23 bits, which the DataMover command
  truncates although the register is documented with 30 (`axi_lsu_cmd.vhd` 117, 215).  The
  SystemC unit truncates to 24 bits (`port_dma.h` 83) and `LsuExact` fails there.
* `NeverEarly` fails for a delay above half the counter's range (`chan_delay.vhd` 260).
* With `Early` data beats taken ahead of their address, the flush may leave the last
  `Early` - 1 real entries behind (`Unflushed`), since `trace_stop` pushes one burst only;
  and a trace of fewer than `BURST_LEN + Early` entries, flush included, may never make a
  burst, so that `trace_capture` waits for ever.  `CaptureEnds` leaves such traces out.
* A program that takes the last word of the read FIFO while others are on their way ends
  the capture early (`axi_tcd.vhd` 324, 358), with reads still under way.  From then on
  (`dry`) the entries it gets may have a gap or be overwritten, and only `CaptureEnds`
  and `FlushReaches` hold.
* The time of a software packet is missing from the times of all later events
  (`compress.cpp` 36-45); `Reference` leaves it out as the code does.
* The SystemC hash unit answers a hash of more than four bytes with two flits, and the
  response queue gives up its entry before the second one is read (`ctlreg.h` 201): the
  next key's hash may be written to the registers in between, and the second word is then
  that of the next key.  `HashExact` allows exactly this.
* With its buffer exactly full the Ethernet interface reads a byte count of zero, waits
  out the timeout and sends a minimum frame, after which it recovers.
* The control switch chooses anew for every flit and prefers low inputs: with endless
  traffic there the others starve, and flits of two packets to one unit can mix.
* DMA sizes that are not whole words never reach zero (`lsu.h` 558).

Software:

* `malloc_trim` may give back the end of a segment, and `cm_free` then frees the whole
  mapping (`dlmalloc.c` 2942); the segments of the run cannot be shrunk, and no program
  calls it.  A footprint limit of zero means none (`dlmalloc.c` 3984).
* If `/dev/lmcache` cannot be opened, the cache calls print a message and do nothing
  (`linux/xil_cache.c` 21-64), and the accelerator works on old data.  In a line that a buffer
  shares with other data the CPU writes meanwhile (`torn`), the write-back overwrites what
  the accelerator wrote; the CPU's own data is never lost, and whole lines are safe.
* A packet longer than the transmit FIFO waits for ever (`stream.c` 71), and a request
  longer than its packet reads words that are not there (`stream.c` 108).
* A receive of the header alone loses a data word in the simulated stream
  (`sysc/stream.cpp` 71).
* On Linux the overflow status is a field in memory that nothing sets (`xapm.h` 678), and
  with the 32-bit filter the getters return an offset (`xapm.c` 941): `MonitorExact` fails
  with `Linux` or `is_32bit_filter` TRUE.
* `stats_start` clears the overflow status before it resets the counters (`monitor.c`
  58-59): a counter that ran before may overflow in between and leave a mark on a count
  that did not overflow (`stray`).
* f_write to a full card succeeds with a smaller count, which `trace_capture` does not look
  at (`standalone/monitor.c` 244): the file is cut short without a message.
* `O_APPEND` seeks to the end once, when the file is opened (`fatfs.c` 139), while POSIX
  appends every write; files written after such a descriptor was moved are left out of
  `SystemCallsExact` (`astray`).
* A refused DMA start keeps its program buffer (`dmac_cmd.c` 332), and an open that fails
  after `f_open`, or a failing close, its slot (`fatfs.c` 122-146): `ResourcesReturned` says
  that exactly these are missing.
* `dmac_smemcpy` ignores `dst_inc`, and its wide loop is right for blocks of four bytes
  only, which is what its one caller copies (`test/dre/src/dre.c` 330); a block count beyond
  a loop counter is not generated.  `ResultsExact` asks for other sizes in the rest loop only.
* `dev_search` may count devices beyond the one asked for, and the value of a property that
  is too short keeps bytes of the one read before (`devtree.c` 101): `ResultsExact` says that
  what is reported as found is the device asked for.
* `EMIX` reads and changes its arguments in an order C leaves open (`short.c` 16): the two
  versions of the hash agree if the compiler takes the same order in both.
* `cmd_free` is called with addresses the driver handed out; what an address outside every
  mapping does (`find_vma` without a result) is not modelled.
* `devno` is unsigned in both modules' loading, so a failed registration is not seen
  (`lmalloc.c` 274); unloading is still clean.  Threads of one process change the list of
  allocations without a lock (`lmalloc.c` 212); processes of the model have one thread.

### Bounds, and why they are enough

* FIFO: three words, `C_DEPTH` 3, rounded up to a ring of four by `log2rp`: every
  position of both indices, full, empty and wrap-around are reached.
* LSU: six registers; addresses of two base-4 digits, so the carry between the
  two address registers happens; repeat counts to 3; a DataMover queue of two.  The
  packet sets (`MCLsu`) are the library's calls.  Packets are sent for ever.
* delay: a counter period of 8 (4 for liveness), a FIFO of two, delays 0 and 3
  (0 and 1), whose bit mixtures include 1 and 2.
* trace capture: bursts of four beats, FIFOs of six, a ring of three bursts, two early
  beats, two outstanding bursts and traces of 5, 14 and 17 entries, flush included: a trace
  of one entry, and two that wrap and fill the ring.  Several trace lengths are
  needed because the remainder modulo the burst decides what the flush must push.  One
  call of `trace_capture`; the theorems are for any number.
* compressor: three events, five lane sets (none, one at either end of the chain, a gap,
  all), deltas 1 and 3 modulo 4, so time wraps.
* Ethernet: entries of two bytes, addresses of two, full frames of eight bytes, at
  least four, a buffer of 16 bytes with a counter of 16, 12 entries: enough to fill the
  buffer to its depth and to send full, short and padded frames.
* heap: sizes in words of `size_t` with the code's alignment and minimum sizes; pages of
  64 words, two mappings, two live blocks: segments are added, merged, emptied and
  unmapped and the direct mapping is used.  A second program asks for aligned blocks and
  pages; a third frees and takes blocks of four large sizes in a filled segment, for
  tries of several levels and chains.
* SystemC: a hash pipeline of three stages with three keys and reads between them; four
  kinds of load-store programs of up to four commands from three senders; copies of up to
  three blocks that start and end inside a block and overlap; six lookups (repeated,
  missing, colliding) with key queues shorter than the pipeline; four switch ports with
  contention; stream blocks of depth two with endless input and a reset at any time.
* streams: a transmit FIFO of four and a receive FIFO of six words, seven calls; bytes
  to 10 in calls of 1, 3 and 8 at two alignments.
* cache: three lines of two bytes, two levels of one and two ways, a buffer of whole lines
  and one that shares its lines.  That the loops over ways and sets reach every slot is
  evaluated for up to 16 ways and 4 sets (`SweepsAll`).
* drivers: two processes and three frames; two open files while a module loads or
  unloads; three calls on monitor registers 0, 3 and 9 (different fields of
  different registers); two windows, counters that overflow after two of four events;
  three clock calls with two faults; directories of up to three entries nested once.
* DMA: gathers on both sides of the wide loop's limits, four calls with two buffers.
* files: two files, two descriptors, one disk error, five calls.  Break pointer: four
  calls.  Card: blocks of two entries, memory for six, traces to eight, room for 0, 3 or 9.  Parser and hash:
  all inputs of the bounded sets; keys of 0 to 34 bytes, past two full rounds.
* memory model: three requests within six time units.

### Environment and fairness

* The host library is synchronous: `lsu_memcpy` returns after the store's status, so a
  packet of several beats finds the unit idle (`MaySend`).  Single-beat packets follow
  each other freely.  Without this, later beats overwrite the registers of a command
  under way, which the port does not prevent.
* Liveness assumes that clocks run (hardware) and that SystemC threads are scheduled,
  that the DataMover and the memory accept and complete requests in the end, each channel
  for itself and not on the same edge, that the receiver of a stream is ready again and
  again, that a synchroniser settles, that the processor completes its bus accesses, and
  that a call inside the kernel ends.  Each is a weak-fairness condition on the steps with
  that input; nothing is assumed about how often software calls.  In TraceCapture, where
  every behaviour has finitely many handshakes, weak fairness of a channel is stated as
  "its handshake does not stay possible for ever".
* Deadlock checking is off in paths, memory, heap_nomem, sysc, software and compress_time: their
  programs and inputs are finite and end.

## 4. What is proved

All proofs are for every value of the constants that satisfies the modules' named
assumptions (a positive depth and a non-empty word set for the FIFO; an even period
and a positive depth for the delay channel; a positive depth for the SystemC chain; a
FIFO of more than a burst in the trace device), or the hypothesis of the theorem (`Pool`:
numbered frames and buffers of at least a page; `Timing`: times and lengths are natural
numbers; `Spacious`, `Setting`, below).  The instances that TLC checks satisfy them.
A leaf with `SMTT` or `ZenonT` and a time is found in a second or two; the limit is there for
slow machines.

**FifoCCProofs.**  The inductive invariant `IInv` is `TypeOK /\ FlagsExact`: the flags are
never both set, and the indices are equal exactly when one of them is.  Neither half is
inductive alone, since a write into a full ring would break the flags and the flags
guard the writes.  `TypeCorrect` and `FlagsCorrect` follow.  `OutputStable` shows that an
offered word is not overwritten or dropped: the write index differs from the read index
whenever a word is offered and the ring is not full.  `FifoImplementsQueue` shows that
every edge is a step of `StreamQueue` under `Contents`; the lemmas describe `Contents`
after a write (an append), a read (a tail) and both at once.

**ChanDelayProofs.**  `TypeCorrect` is inductive as it stands.  `OfferHeld` (valid stays
until taken) holds for any delay: `vhold` remembers an offer, so the comparison may change
its mind.  `NotEarly` shows `NeverEarly` for behaviours in which the synchronised delay is at
most half the period.  `NeverEarly` speaks of the head of the FIFO while it is offered;
the strengthening `EarlyInv` says of every entry that, while it is younger than its
delay, its time stamp is exactly as far ahead of the counter as the delay still to
run (`Ahead`), and that a held offer is old enough.  An edge moves the counter and the
age together, which keeps the distance.  The hypothesis is needed: see the limits above.
`LateHalf` is the other side and needs no hypothesis: whatever the delay register does, a
word whose delay is over waits for at most half a turn of the counter.

**StreamChainProofs.**  `ChainImplementsQueue`: the five SystemC blocks in a row, from the
uninitialised state and through a reset at any time, words inside or not, implement
`StreamQueue` with room for 2 Depth + 3 words.  The abstract queue is the concatenation of the blocks' contents.  The inductive
invariant says of each ring that its flags agree with its indices and that its occupied
slots hold words (`RingOK`), or that all are as the constructors left them
(`PoweredUp`), which is no legal ring: `Guards` shows that only a reset leaves it.  `RingStep`
describes one ring under any combination of an offered word and a ready reader: it loses its
head, gains a tail, or both.  `EdgeStep` is the composition.  All blocks move on one edge,
so the word that one block hands over is the one the next takes (`Moved` and `Left`); by
associativity these words cancel (`Regroup`), and only the word the reader takes
and the one the writer brings remain.  The combinational ready path (`Bypass`) matters
in the bound: the writer is ready only if the register slice or the FIFO behind it has room.

**TraceCaptureProofs.**  The trace device, its ring of bursts in memory and the program that
reads them.  `WriteInv` is the write path: write FIFO and data beats hold consecutive
entries, the beat counters of the two AXI channels are the difference of the queues'
lengths, and `m_axi_wlast` is on every last beat.  From it `Flushed` follows
(`FlushReaches`), for every `Early` and without a hypothesis.
`Ring(used, old)` is the ring: `used` bursts are held, `old` entries precede them, the
four addresses of the device are those lengths added to the oldest address modulo the
ring's size, `last_wr` and `last_rd` tell full from empty where the addresses
cannot (`Places`), and entry *i* of the *j*th burst held is `old + BURST_LEN * j + i`
(`Entries`).  The invariant is existential in `used` and `old`, since the device keeps
neither; each lemma of a step names the new values.  `SoftInv` and `Quiet` relate the
registers to the program: `forward` falls only when everything is over, or the program has
run dry.  `InOrder` (`ReadInOrder`), `Complete` (`EmptyMeansDone`) and `WellFormed`
(`BurstsWellFormed`) follow; all say what holds until `dry`, since a program that overtakes
the memory leaves reads under way when `forward` falls, whose bursts may be overwritten.
Trying to prove them for all constants showed the one hypothesis they rest on, `Spacious`
(`Outstanding < BURSTS`): with as many unanswered bursts as the ring has, dropping the
oldest burst of a full ring can leave `last_rd` stale, and the ring is taken for full
where it is empty.  The memory behind the device answers after far fewer.

**LsuCtlProofs** and **LsuAnswerProofs.**  The load-store channel with its port, the
DataMover and the software, for any packets that may be sent in any order.  The hypothesis
`Setting` is about the constants: `Widths` says what the VHDL declares (six registers or
more, the DataMover's address no wider than the unit's), `Careful` what the library's packets have
in common.  Headers are equal on all beats, a packet has one beat for each register it
writes, words fit their fields, and a strided move is programmed as a whole.  `MCLsu` has
TLC evaluate it for the packets of the runs.

`Emits` (`EmitsAsProgrammed`) and `Programmed` (`RegistersAsProgrammed`) rest on
`ProgramInv`.  A strided move works in the registers that hold it: each command it issues adds
the step to the address and takes one off the count.  So what the software asked for is
nowhere in the state, and the invariant (`Core`) says that the registers are always the
program for what is *left*: `owed` is `Program` of the current registers, and what the software believes
in is what they will be when it is over (`Settled`).  `StrideProgram` is the arithmetic of
it: one write-back, with the carry between the two address words and all moduli,
leaves the program for the rest.  `HostInv` places the packet on the bus: the beats left are a
tail of it, and the port's count and select are at its next word.  An edge takes a beat, or a
command, or neither, and `NoClash` says that the beat and the write-back never meet in one register.

`Answers` (`AnswerExpected`, with `Blocking`) adds `AnswerInv`.  A request for a status wanders from
the program owed to the DataMover's queue, to the status stream, to response register B.
`OneAsks` says it is in one of these places, once, and carries the requester that is
waited for; `Responses` the same of registers A and B.  `Blocking` is needed: without it
both response registers can be full, and header and data be of different answers (run
port_priority).

The proof showed what the software must keep to: a packet of one beat that writes register 1, 2 or
5 while a strided move runs is overridden by the move's write-back (`axis_port.vhd` 243), and
one that starts the unit without writing register 1 may start the used-up move again.
`Careful` excludes both, and the packets of the runs do neither; with packets of the first
kind TLC finds `Core` violated.

**LmallocProofs.**  `MemoryKept` is `MemoryOwned` for any number of processes, any pool and
all sizes.  `cmd_free` gives the frames
back before it takes the allocation off the list, so "what is on a list owns its frames"
is not invariant.  `IInv` allows the one exception (`Listed`: an allocation between
`free_frames` and `list_del`) and adds what makes it harmless: a mapping never belongs to
the allocation being freed and no two mappings share one (`Mapped`), a call in progress
holds frames nobody else knows of, and at `list_del` no frame is left with the allocation
(`Calling`), every frame in use has its allocation on a list or in a call (`Known`), and a
kept translation is that of a live mapping (`Translated`).  There is one lemma for each
action; `Freed` says that giving back the frames of one owner leaves all others theirs.

**HmcCtl** (theorem in the same module).  `Bandwidth` is `BandwidthKept` for all times and lengths and any initial
`treqcnt`.  The strengthening says that no slot ends after `nextrd` or `nextwr` of its
direction; a new slot begins there or later.

Only model-checked:

* all liveness properties (`CopiesAnswered`, `CaptureEnds`, `AllServed`, `PathsDrain`,
  `SoftwareSettles`), since they need fairness and ENABLED;
* the heap, the device tree, the gather commands and the hash, which are recursive over
  data, where the prover cannot do induction; the compressor and the parser are compared
  with references that are folds over their whole input, for the same reason;
* the other SystemC units and the remaining drivers: their invariants are conjunctions over
  finite programs, and what they say for all sizes is not yet proved.

## 5. Not modelled, and why

* VHDL without a SystemC counterpart that is checked here: the pipelines of
  `axis_probe`, `axis_flow` and `axis_hash` (their SystemC versions are modelled), the
  state machines of `axis_hdr.vhd` (its effect on packets is in LsuCtl), the FIFO
  architectures `virtexSRL` and `behaviorC`, the `C_FWFT = 0` output register.
* Structure without behaviour: `axi_lsu.vhd`, `axi_shim.vhd`, elaboration in `kvs.cpp`.
* The AXI-Lite handshake of the delay unit's registers.
* dlmalloc's separate spaces, locks, footers, MORECORE and `mallinfo`: compiled out here.
* Instruction cache and single-line cache functions, which nothing in the repository
  calls; initialisation, interrupts and configuration tables of the vendor drivers.
* Printed text, prompts and command lines; the console branches of the file calls.
* Headers of types, register names and one-instruction macros; the test programs, which
  were read for how the parts are used.
