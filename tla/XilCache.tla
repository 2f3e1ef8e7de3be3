------------------------------ MODULE XilCache ------------------------------
(***************************************************************************)
(* Cache maintenance on the 64-bit target (drivers/arm64/xil_cache.c,      *)
(* reached through lmcache_ops.c and linux/xil_cache.c) as cache.h uses    *)
(* it: the CPU writes a buffer and sends it (flush), the accelerator reads *)
(* and overwrites it in memory, the CPU receives it (invalidate) and       *)
(* reads.  Meanwhile the cache fetches and evicts lines as it likes.  The  *)
(* cache and the core's maintenance instructions are external.             *)
(***************************************************************************)
EXTENDS Integers

CONSTANTS LineSize,    \* bytes of a line (64 in the code)
          Lines,       \* lines of memory
          RegBits,     \* width of the set/way operand (32 in the code)
          Geometries,  \* caches: level 1..2 -> [ways, sets], powers of two
          Buffers,     \* buffers handed over: [adr, len]
          MaxWrites,   \* bound on writes, the accelerator's included
          None

VARIABLES geom, buf,
          on,       \* the data cache's bit in SCTLR
          mem,      \* byte -> value; a value is the number of the write
          dcache,   \* line -> None or [lev, way, data, dirty]
          cpu,      \* byte -> the value the CPU must read
          phase,    \* who owns the buffer
          writes,   \* writes so far
          fd,       \* "bare": no Linux; else the descriptor of /dev/lmcache
          torn      \* history: buffer lines the CPU wrote while lent out

vars == <<geom, buf, on, mem, dcache, cpu, phase, writes, fd, torn>>

Byte == 0 .. LineSize * Lines - 1
Line == 0 .. Lines - 1
LineOf(a) == a \div LineSize
Buf == buf.adr .. buf.adr + buf.len - 1
BufLines == {LineOf(a) : a \in Buf}

Init ==
    /\ geom \in Geometries /\ buf \in Buffers /\ on = TRUE
    /\ mem = [a \in Byte |-> 0] /\ cpu = mem /\ dcache = [l \in Line |-> None]
    /\ phase = "cpu" /\ writes = 0 /\ fd \in {"bare", "none"} /\ torn = {}
-----------------------------------------------------------------------------
(* The cache (external) *)
DataOf(l) == [o \in 0 .. LineSize-1 |-> mem[l * LineSize + o]]
SetOf(l, lev) == l % geom[lev].sets
Free(l, lev) == {w \in 0 .. geom[lev].ways-1 :
    \A k \in Line : dcache[k] # None /\ dcache[k].lev = lev /\ SetOf(k, lev) = SetOf(l, lev)
                    => dcache[k].way # w}

\* Lines L are written to memory if dirty, and leave the cache
Cleaned(L) == [a \in Byte |-> IF LineOf(a) \in L /\ dcache[LineOf(a)] # None
                                 /\ dcache[LineOf(a)].dirty
                              THEN dcache[LineOf(a)].data[a % LineSize] ELSE mem[a]]
CleanInvalidate(L) == /\ mem' = Cleaned(L)
                      /\ dcache' = [l \in Line |-> IF l \in L THEN None ELSE dcache[l]]

Fetch(l) ==
    /\ on /\ dcache[l] = None
    /\ \E lev \in 1..2 : \E w \in Free(l, lev) :
          dcache' = [dcache EXCEPT ![l] = [lev |-> lev, way |-> w, data |-> DataOf(l), dirty |-> FALSE]]
    /\ UNCHANGED <<geom, buf, on, mem, cpu, phase, writes, fd, torn>>
Evict(l) == /\ dcache[l] # None /\ CleanInvalidate({l})
            /\ UNCHANGED <<geom, buf, on, cpu, phase, writes, fd, torn>>
-----------------------------------------------------------------------------
(* xil_cache.c *)
Width == 2^RegBits
clz(n) == RegBits - 1 - (CHOOSE k \in 0 .. RegBits : 2^k = n)
Shl(x, n) == (x * 2^(n % RegBits)) % Width

\* clz(NumWays) - 31 is negative: the shift takes it modulo the width
WayAdjust(ways) == (clz(ways) - (RegBits - 1)) % Width

\* The loops over ways and sets of one level: the slots the operands C7Reg
\* address, way in the top bits, set above the line offset
Slots(g) ==
    LET C7Reg == {(w * Shl(1, WayAdjust(g.ways)) + s * LineSize) % Width :
                    w \in 0 .. g.ways-1, s \in 0 .. g.sets-1}
    IN  {<<IF g.ways = 1 THEN 0 ELSE r \div (Width \div g.ways), (r \div LineSize) % g.sets>> : r \in C7Reg}
\* both levels, as Xil_DCacheFlush, Xil_DCacheInvalidate, Xil_DCacheDisable
Swept == {l \in Line : dcache[l] # None
                       /\ <<dcache[l].way, SetOf(l, dcache[l].lev)>> \in Slots(geom[dcache[l].lev])}

Xil_DCacheFlush == CleanInvalidate(Swept)
\* On this core ISW cleans as well
Xil_DCacheInvalidate == CleanInvalidate(Swept)

\* not implemented under Linux
Xil_DCacheEnable == /\ fd = "bare" /\ ~on /\ on' = TRUE /\ Xil_DCacheInvalidate
                    /\ UNCHANGED <<geom, buf, cpu, phase, writes, fd, torn>>
Xil_DCacheDisable == /\ fd = "bare" /\ on /\ on' = FALSE /\ CleanInvalidate(Swept)
                     /\ UNCHANGED <<geom, buf, cpu, phase, writes, fd, torn>>

\* Xil_DCacheInvalidateRange, and Xil_DCacheFlushRange, its alias
RangeLines(adr, len) ==
    LET first == LineOf(adr) * LineSize
    IN  IF len = 0 THEN {}
        ELSE {LineOf(first + k * LineSize) : k \in {j \in 0 .. Lines : first + j * LineSize < adr + len}}
Xil_DCacheInvalidateRange(adr, len) == CleanInvalidate(RangeLines(adr, len))
-----------------------------------------------------------------------------
(* linux/xil_cache.c: a program reaches the operations above through a driver, *)
(* opened at the first call.  If that fails the calls print a message and do   *)
(* nothing, now and later: fd is -1 then, and no longer 0.                     *)
Through(operation) ==
    \/ fd = "bare" /\ operation /\ UNCHANGED fd
    \/ fd \in {"none", "open"} /\ fd' = "open" /\ operation
    \/ fd \in {"none", "failed"} /\ fd' = "failed" /\ UNCHANGED <<mem, dcache>>

\* The CPU writes a byte: in its buffer while it owns it, elsewhere at any time
CpuWrite(a) ==
    LET l == LineOf(a)
        data == IF dcache[l] = None THEN DataOf(l) ELSE dcache[l].data
        Written(lev, w) == [lev |-> lev, way |-> w,
                            data |-> [data EXCEPT ![a % LineSize] = writes'], dirty |-> TRUE]
    IN  /\ writes < MaxWrites /\ writes' = writes + 1
        /\ phase = "cpu" \/ a \notin Buf
        /\ \/ /\ dcache[l] # None
              /\ dcache' = [dcache EXCEPT ![l] = Written(dcache[l].lev, dcache[l].way)]
              /\ UNCHANGED mem
           \/ /\ on /\ dcache[l] = None
              /\ \E w \in Free(l, 1) : dcache' = [dcache EXCEPT ![l] = Written(1, w)]
              /\ UNCHANGED mem
           \/ /\ ~on /\ dcache[l] = None
              /\ mem' = [mem EXCEPT ![a] = writes']
              /\ UNCHANGED dcache
        /\ cpu' = [cpu EXCEPT ![a] = writes']
        /\ torn' = IF phase # "cpu" /\ l \in BufLines THEN torn \cup {l} ELSE torn
        /\ UNCHANGED <<geom, buf, on, phase, fd>>

\* CACHE_SEND (a range) or CACHE_SEND_ALL: after it the accelerator starts
cache_flush(all) ==
    /\ phase = "cpu" /\ phase' = "accel"
    /\ Through(IF all THEN Xil_DCacheFlush ELSE Xil_DCacheInvalidateRange(buf.adr, buf.len))
    /\ UNCHANGED <<geom, buf, on, cpu, writes, torn>>

\* The accelerator (external) overwrites the buffer in memory
Accelerate ==
    /\ phase = "accel" /\ writes < MaxWrites /\ writes' = writes + 1 /\ phase' = "done"
    /\ mem' = [a \in Byte |-> IF a \in Buf THEN writes' ELSE mem[a]]
    /\ cpu' = [a \in Byte |-> IF a \in Buf THEN writes' ELSE cpu[a]]
    /\ UNCHANGED <<geom, buf, on, dcache, fd, torn>>

\* mutant: the last byte is left out
cache_invalidate_Short(all) ==
    /\ phase = "done" /\ phase' = "cpu"
    /\ Through(IF all THEN Xil_DCacheFlush
               ELSE Xil_DCacheInvalidateRange(buf.adr, buf.len - 1))
    /\ UNCHANGED <<geom, buf, on, cpu, writes, torn>>
\* CACHE_RECV (a range) or CACHE_RECV_ALL
cache_invalidate(all) ==
    /\ phase = "done" /\ phase' = "cpu"
    /\ Through(IF all THEN Xil_DCacheFlush ELSE Xil_DCacheInvalidateRange(buf.adr, buf.len))
    /\ UNCHANGED <<geom, buf, on, cpu, writes, torn>>

Next == \/ \E l \in Line : Fetch(l) \/ Evict(l)
        \/ \E a \in Byte : CpuWrite(a)
        \/ \E all \in BOOLEAN : cache_flush(all) \/ cache_invalidate(all)
        \/ Accelerate \/ Xil_DCacheEnable \/ Xil_DCacheDisable
-----------------------------------------------------------------------------
Seen(a) == IF dcache[LineOf(a)] = None THEN mem[a] ELSE dcache[LineOf(a)].data[a % LineSize]

\* Between sending and receiving, memory holds what the CPU wrote to the
\* buffer, then what the accelerator wrote, and no eviction changes it, except
\* in a line the CPU has written meanwhile to change other data in it.
AcceleratorView ==
    phase # "cpu" /\ fd # "failed"
        => \A a \in Buf : mem[a] = cpu[a] \/ LineOf(a) \in torn

\* The CPU reads what it last wrote, and after receiving what the accelerator
\* wrote: no line fetched early serves old data.  In a line shared with other
\* data and written meanwhile, the accelerator's bytes may be lost to the old
\* ones; the CPU's own never are, since invalidating writes them back.  cache.h
\* warns of unaligned buffers, if for the other case: "it can corrupt the heap".
\* Without the driver only the accelerator's bytes are in danger as well.
CpuView ==
    \A a \in Byte : phase = "cpu" \/ a \notin Buf
        => Seen(a) = cpu[a] \/ (a \in Buf /\ (fd = "failed" \/ LineOf(a) \in torn))

\* A buffer of whole lines is never torn.
WholeLinesSafe == {LineOf(a) : a \in Byte \ Buf} \cap BufLines = {} => torn = {}
=============================================================================
