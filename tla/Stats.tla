------------------------------- MODULE Stats --------------------------------
(***************************************************************************)
(* The statistics and trace window of the monitor library (monitor.c of    *)
(* Linux and standalone) over the performance monitor, whose counters and  *)
(* event log (external) run beside the program.  Statistics and trace may  *)
(* be on at the same time and use the same control register.               *)
(***************************************************************************)
EXTENDS XApm, FiniteSetsExt

CONSTANTS Linux,     \* TRUE: linux/monitor.c, FALSE: standalone/monitor.c
          Cap,       \* 2 ** width of a metric counter
          Flush,     \* events trace_stop writes (16)
          MaxEvents, MaxWindows

VARIABLES reg, mc,   \* registers, metric counters
          isr,       \* params->isr: cleared by monitor_init, set by nobody
          st,        \* statistics: "off", "cleared", "reset", "on", "stopped"
          hist,      \* counter -> events since it was reset and enabled, until stats_stop
          stray,     \* counter -> events counted between clearing status and resetting
          out,       \* what stats_print printed: counter -> <<"*"?, value>>
          tr,        \* trace: "off", "on", "stopping", "stopped"
          left,      \* writes left of trace_stop's loop
          pushed,    \* entries logged since trace_stop began
          events, windows
vars == <<reg, mc, isr, st, hist, stray, out, tr, left, pushed, events, windows>>

WRADDR == 0
RDADDR == 4
SWDATA == 16
OVERFLOW(c) == 3 + c
ALL_MASK == 0 .. 12
RangeHigh(c) == IF c = 2 THEN 15 ELSE 7
Logging(r) == EVENTLOG_ENABLE \in r[CTL] /\ SWDATA \in r[FEC]

Init == /\ reg = [a \in Reg |-> IF a = CTL THEN {MCNTR_ENABLE} ELSE 0 .. 31] /\ mc = [c \in Counters |-> Cap - 1]
        /\ isr = {} /\ st = "off" /\ hist = [c \in Counters |-> 0] /\ stray = hist /\ out = <<>>
        /\ tr = "off" /\ left = 0 /\ pushed = 0 /\ events = 0 /\ windows = 0
-----------------------------------------------------------------------------
\* counter c measures metric c % 4 of slot c \div 4
Selected(r, S) == FoldSet(LAMBDA c, q : setmetrics(q, c \div 4, c % 4, c), r, S)
Ranged(r) == [a \in DOMAIN r |-> IF a \in {RANGE(2), RANGE(6)} THEN Pair(RangeHigh(a[2]), 0) ELSE r[a]]
\* a 1 written to the status register clears the bit
intrclear(r, mask) == writereg(r, IS, r[IS] \ (r[IS] \cup mask))

\* Selects what is counted and clears the status, while counters of before
\* may be running
stats_start ==
    /\ st \in {"off", "stopped"} /\ windows < MaxWindows /\ windows' = windows + 1
    /\ reg' = intrclear(Ranged(Selected(reg, Counters)), ALL_MASK)
    /\ st' = "cleared" /\ out' = <<>> /\ stray' = [c \in Counters |-> 0]
    /\ UNCHANGED <<mc, isr, hist, tr, left, pushed, events>>
\* resets the counters (the hardware does), which run on if they ran
stats_reset ==
    /\ st = "cleared" /\ st' = "reset" /\ reg' = resetmetriccounter(reg)
    /\ mc' = [c \in Counters |-> 0] /\ hist' = mc'
    /\ UNCHANGED <<isr, stray, out, tr, left, pushed, events, windows>>
stats_enable ==
    /\ st = "reset" /\ st' = "on" /\ reg' = enablemetricscounter(reg)
    /\ UNCHANGED <<mc, isr, hist, stray, out, tr, left, pushed, events, windows>>

\* mutant: the whole control register is cleared
stats_stop_All == /\ st = "on" /\ st' = "stopped" /\ reg' = writereg(reg, CTL, {})
                  /\ UNCHANGED <<mc, isr, hist, stray, out, tr, left, pushed, events, windows>>
stats_stop == /\ st = "on" /\ st' = "stopped" /\ reg' = disablemetricscounter(reg)
              /\ UNCHANGED <<mc, isr, hist, stray, out, tr, left, pushed, events, windows>>

getmetriccounter(c) == mc[c]
\* xapm.h: intrhwgetstatus() is (params->isr); standalone reads the register
intrstatus == IF Linux THEN isr ELSE reg[IS]
stats_print ==
    /\ st = "stopped" /\ out = <<>>
    /\ out' = [c \in Counters |-> <<OVERFLOW(c) \in intrstatus, getmetriccounter(c)>>]
    /\ UNCHANGED <<reg, mc, isr, st, hist, stray, tr, left, pushed, events, windows>>
-----------------------------------------------------------------------------
Push(r) == IF tr = "stopping" /\ Logging(r) THEN pushed + 1 ELSE pushed

\* ends with the marker 0xAAAAAAAA
trace_start == /\ tr \in {"off", "stopped"} /\ tr' = "on"
               /\ reg' = setswdatareg(starteventlog(reg, {WRADDR, RDADDR, SWDATA}), 43690)
               /\ UNCHANGED <<mc, isr, st, hist, stray, out, left, pushed, events, windows>>
trace_stop == /\ tr = "on" /\ tr' = "stopping" /\ left' = Flush /\ pushed' = 0
              /\ UNCHANGED <<reg, mc, isr, st, hist, stray, out, events, windows>>
\* one turn of the loop, or its end
trace_flush ==
    /\ tr = "stopping"
    /\ IF left > 0
       THEN /\ left' = left - 1 /\ pushed' = Push(reg) /\ reg' = setswdatareg(reg, 48879) /\ UNCHANGED tr
       ELSE /\ tr' = "stopped" /\ reg' = stopeventlog(reg) /\ UNCHANGED <<left, pushed>>
    /\ UNCHANGED <<mc, isr, st, hist, stray, out, events, windows>>

\* The memory traffic a counter counts (external)
Traffic(c) ==
    /\ events < MaxEvents /\ events' = events + 1
    /\ IF MCNTR_ENABLE \in reg[CTL]
       THEN LET hit == {k \in Counters : getmetrics(reg, k) = <<Bits(c \div 4), Bits(c % 4)>>}
            IN  /\ mc' = [k \in Counters |-> IF k \in hit THEN (mc[k] + 1) % Cap ELSE mc[k]]
                /\ reg' = writereg(reg, IS, reg[IS] \cup {OVERFLOW(k) : k \in {x \in hit : mc[x] = Cap - 1}})
       ELSE UNCHANGED <<mc, reg>>
    /\ hist' = IF st = "on" \/ (st = "reset" /\ MCNTR_ENABLE \in reg[CTL])
               THEN [hist EXCEPT ![c] = @ + 1] ELSE hist
    /\ stray' = IF st = "cleared" /\ MCNTR_ENABLE \in reg[CTL]
                THEN [stray EXCEPT ![c] = @ + 1] ELSE stray
    /\ pushed' = Push(reg)
    /\ UNCHANGED <<isr, st, out, tr, left, windows>>

Next == \/ stats_start \/ stats_reset \/ stats_enable \/ stats_stop \/ stats_print
        \/ trace_start \/ trace_stop \/ trace_flush
        \/ \E c \in Counters : Traffic(c)
-----------------------------------------------------------------------------
\* stats_print shows for every counter the events of its slot and metric until
\* stats_stop, as far as the counter's width goes: from stats_enable on, or from
\* stats_reset on if the counters were running before.
CountsExact == \A c \in DOMAIN out : out[c][2] = hist[c] % Cap

\* A count whose counter overflowed is marked with *, and one that did not is
\* marked only if its counter ran before stats_start and counted between the
\* clearing of the status and the reset.
OverflowMarked ==
    \A c \in DOMAIN out : /\ hist[c] >= Cap => out[c][1]
                          /\ out[c][1] => hist[c] >= Cap \/ stray[c] > 0

\* trace_stop pushes at least Flush entries behind the last one of the trace
\* before the log stops, whatever the statistics do meanwhile.
TracePushed == tr = "stopped" => pushed >= Flush
=============================================================================
