-------------------------------- MODULE XApm --------------------------------
(***************************************************************************)
(* The driver of the AXI performance monitor (linux/xapm.c, xapm.h): its   *)
(* registers, and the functions that set and read their fields.  A         *)
(* register is the set of its bits that are 1, so that |, & and ~ are set  *)
(* operations; Reg is keyed by name and index.                             *)
(***************************************************************************)
EXTENDS Integers

CONSTANTS Counters,         \* metric counters used, of 0..9
          is_32bit_filter   \* params->is_32bit_filter

Bits(n) == {b \in 0 .. 15 : (n \div 2^b) % 2 = 1}
Shl(S, n) == {b + n : b \in S} \cap (0 .. 31)
Shr(S, n) == {b - n : b \in S \cap (n .. 31)}
Low == 0 .. 15
High == 16 .. 31

CTL == <<"CTL", 0>>
IS == <<"IS", 0>>
FEC == <<"FEC", 0>>
SWD == <<"SWD", 0>>
ID == <<"ID", 0>>
IDMASK == <<"IDMASK", 0>>
RID == <<"RID", 0>>
RIDMASK == <<"RIDMASK", 0>>
SI_LOW == <<"SI_LOW", 0>>
MSR(c) == <<"MSR", c \div 4>>
RANGE(c) == <<"RANGE", c>>
LOGEN(c) == <<"LOGEN", c>>
Reg == {CTL, IS, FEC, SWD, ID, IDMASK, RID, RIDMASK, SI_LOW}
       \cup {MSR(c) : c \in 0 .. 11} \cup {RANGE(c) : c \in Counters} \cup {LOGEN(c) : c \in Counters}

\* Bits of the control register
MCNTR_ENABLE == 0
MCNTR_RESET == 1
MCNTR_EXTTRIGGER == 2
WRLATENCY_START == 4
WRLATENCY_END == 5
RDLATENCY_START == 6
RDLATENCY_END == 7
EVENTLOG_ENABLE == 8
EVTLOG_EXTTRIGGER == 9
GCC_ENABLE == 16
GCC_RESET == 17
FIFO_RESET == 25
-----------------------------------------------------------------------------
writereg(r, a, S) == [r EXCEPT ![a] = S]
On(r, b) == writereg(r, CTL, r[CTL] \cup {b})
Off(r, b) == writereg(r, CTL, r[CTL] \ {b})
\* set, then written back as first read with the bit clear
Pulse(r, b) == Off(On(r, b), b)

resetmetriccounter(r) == Pulse(r, MCNTR_RESET)
resetglobalclkcounter(r) == Pulse(r, GCC_RESET)
resetfifo(r, eventlog) == IF eventlog THEN Pulse(r, FIFO_RESET) ELSE r
enablemetricscounter(r) == On(r, MCNTR_ENABLE)
disablemetricscounter(r) == Off(r, MCNTR_ENABLE)
enableeventlog(r) == On(r, EVENTLOG_ENABLE)
enablemctrigger(r) == On(r, MCNTR_EXTTRIGGER)
disablemctrigger(r) == Off(r, MCNTR_EXTTRIGGER)
enableeventlogtrigger(r) == On(r, EVTLOG_EXTTRIGGER)
disableeventlogtrigger(r) == Off(r, EVTLOG_EXTTRIGGER)
enablegcc(r) == On(r, GCC_ENABLE)
disablegcc(r) == Off(r, GCC_ENABLE)

starteventlog(r, flags) == On(writereg(r, FEC, flags), EVENTLOG_ENABLE)
stopeventlog(r) == Off(r, EVENTLOG_ENABLE)
setsampleinterval(r, v) == writereg(r, SI_LOW, Bits(v))
getsampleinterval(r) == r[SI_LOW]
\* mode 1 is the profile mode
startcounters(r, mode, v) ==
    setsampleinterval(On(IF mode = 1 THEN On(r, GCC_ENABLE) ELSE r, MCNTR_ENABLE), v)
stopcounters(r, mode) == Off(IF mode = 1 THEN Off(r, GCC_ENABLE) ELSE r, MCNTR_ENABLE)

setswdatareg(r, v) == writereg(r, SWD, Bits(v))
getswdatareg(r) == r[SWD]
-----------------------------------------------------------------------------
\* Four 8-bit selectors to a register: metric in bits 0-4, slot in 5-7
Selector(c) == (c % 4) * 8 .. (c % 4) * 8 + 7
setmetrics(r, slot, metric, c) ==
    writereg(r, MSR(c), (r[MSR(c)] \ Selector(c)) \cup Shl(Bits(metric), (c % 4) * 8)
                                                   \cup Shl(Bits(slot), (c % 4) * 8 + 5))
getmetrics(r, c) == <<Shr(r[MSR(c)], (c % 4) * 8 + 5) \cap 0 .. 2, Shr(r[MSR(c)], (c % 4) * 8) \cap 0 .. 4>>

Pair(hi, lo) == Shl(Bits(hi), 16) \cup Bits(lo)
Halves(S) == <<Shr(S, 16) \cap Low, S \cap Low>>
setincrementerrange(r, c, hi, lo) == writereg(r, RANGE(c), Pair(hi, lo))
getincrementerrange(r, c) == Halves(r[RANGE(c)])
setlogenableranges(r, c, hi, lo) == writereg(r, LOGEN(c), Pair(hi, lo))
getlogenableranges(r, c) == Halves(r[LOGEN(c)])

setwriteid(r, v) == writereg(r, ID, IF is_32bit_filter THEN Bits(v) ELSE (r[ID] \ Low) \cup Bits(v))
setreadid(r, v) == IF is_32bit_filter THEN writereg(r, RID, Bits(v))
                   ELSE writereg(r, ID, (r[ID] \ High) \cup Shl(Bits(v), 16))
\* with the 32-bit filter the getters return a register's offset, not its
\* contents: 0x308, 0x30C, 0x308 and 0x310
getwriteid(r) == IF is_32bit_filter THEN Bits(776) ELSE r[ID] \cap Low
getreadid(r) == IF is_32bit_filter THEN Bits(780) ELSE Shr(r[ID] \cap High, 16)
setwriteidmask(r, v) == writereg(r, IDMASK, IF is_32bit_filter THEN Bits(v) ELSE (r[IDMASK] \ Low) \cup Bits(v))
setreadidmask(r, v) == IF is_32bit_filter THEN writereg(r, RIDMASK, Bits(v))
                       ELSE writereg(r, IDMASK, (r[IDMASK] \ High) \cup Shl(Bits(v), 16))
getwriteidmask(r) == IF is_32bit_filter THEN Bits(776) ELSE r[IDMASK] \cap Low
getreadidmask(r) == IF is_32bit_filter THEN Bits(784) ELSE Shr(r[IDMASK] \cap High, 16)

Latency(r, b, v) == IF v = 1 THEN On(r, b) ELSE Off(r, b)
setwrlatencystart(r, v) == Latency(r, WRLATENCY_START, v)
setwrlatencyend(r, v) == Latency(r, WRLATENCY_END, v)
setrdlatencystart(r, v) == Latency(r, RDLATENCY_START, v)
setrdlatencyend(r, v) == Latency(r, RDLATENCY_END, v)
\* the register is read into 8 bits
LatencyOf(r, b) == IF r[CTL] \cap 0 .. 7 \cap {b} # {} THEN 1 ELSE 0
getwrlatencystart(r) == LatencyOf(r, WRLATENCY_START)
getwrlatencyend(r) == LatencyOf(r, WRLATENCY_END)
getrdlatencystart(r) == LatencyOf(r, RDLATENCY_START)
getrdlatencyend(r) == LatencyOf(r, RDLATENCY_END)
=============================================================================
