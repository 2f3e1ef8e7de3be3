------------------------------ MODULE ChanDelay ------------------------------
(***************************************************************************)
(* One channel of the fixed-delay unit (chan_delay.vhd, C_FIFO_DEPTH > 0): *)
(* every transfer is stamped with the time it is due, waits in a FIFO, and *)
(* is offered once a free-running counter (axi_delay.vhd, s_counter) has   *)
(* passed that time.  Counter and stamps wrap at 2**C_COUNTER_WIDTH, so    *)
(* "passed" is the sign bit of their difference.                           *)
(*                                                                         *)
(* One step is one edge of aclk, or a write of the delay register.  Ghosts *)
(* of an entry: want, the delay it was stamped with, and age, the edges    *)
(* since it was accepted (counted up to want).  waited counts the edges    *)
(* the transfer in front is held although its delay is over.               *)
(***************************************************************************)
EXTENDS Integers, Sequences

CONSTANTS Period,        \* 2**C_COUNTER_WIDTH
          C_FIFO_DEPTH,
          Delays         \* values software writes to the delay register

ASSUME PeriodAssumption == Period \in Nat \ {0} /\ Period % 2 = 0
ASSUME DelayAssumption == C_FIFO_DEPTH \in Nat \ {0} /\ Delays \subseteq 0 .. Period-1

VARIABLES counter,
          delay, delay_sync,  \* the register, and its copy in the aclk domain
          fifo, shown,        \* transfers inside, first one visible (not empty)
          vhold,
          taken,              \* observer: a transfer left on the last edge
          waited              \* ghost

chanVars == <<counter, delay, delay_sync, fifo, shown, vhold, taken, waited>>

Time == 0 .. Period-1
Half == Period \div 2
Entry == [tm : Time, want : Time, age : 0 .. Period]

ChanTypeOK ==
    /\ counter \in Time /\ delay \in Delays /\ delay_sync \in Time
    /\ fifo \in Seq(Entry) /\ Len(fifo) <= C_FIFO_DEPTH
    /\ shown \in BOOLEAN /\ (shown => fifo # <<>>)
    /\ vhold \in BOOLEAN /\ taken \in BOOLEAN /\ waited \in Nat

ChanInit ==
    /\ counter = 0 /\ delay \in Delays /\ delay_sync = delay
    /\ fifo = <<>> /\ shown = FALSE /\ vhold = FALSE
    /\ taken = FALSE /\ waited = 0
-----------------------------------------------------------------------------
s_time == (counter + delay_sync) % Period

tdiff == (fifo[1].tm - counter) % Period

\* mutant: only the very edge after the stamp counts
Passed_Once == tdiff = Period-1

\* tdiff(tdiff'high): the stamp lies in the half period behind the counter
Passed == tdiff >= Half

\* mutant: nothing holds m_valid
m_valid_i_NoHold == shown /\ Passed

m_valid_i == shown /\ (Passed \/ vhold)

s_ready == Len(fifo) < C_FIFO_DEPTH

\* External: the bits of delay_sync (xpm_cdc_array_single) follow the register
\* one by one, so a change may show old and new bits side by side.
Bit(x, k) == (x \div 2^k) % 2
Crossing(old, new) ==
    {x \in Time : \A k \in 0 .. Half : 2^k < Period => Bit(x, k) \in {Bit(old, k), Bit(new, k)}}

Aged(q) == [k \in DOMAIN q |->
              [q[k] EXCEPT !.age = IF @ < q[k].want THEN @ + 1 ELSE @]]

\* mutant: vhold is not taken back by the handshake
VHold_Sticky(m_ready) == vhold' = (m_valid_i \/ vhold)

\* process vhold
VHold(m_ready) == vhold' = (~m_ready /\ m_valid_i)

\* External: xpm_fifo_sync, first word fall through.  A transfer that moves to
\* the front of the queue becomes visible on the same edge or later (see).
Fifo(s_valid, m_ready, see) ==
    LET pop == m_ready /\ m_valid_i
        push == s_valid /\ s_ready
        rest == Aged(IF pop THEN Tail(fifo) ELSE fifo)
    IN  /\ fifo' = IF push
                   THEN Append(rest, [tm |-> s_time, want |-> delay_sync, age |-> 0])
                   ELSE rest
        /\ shown' = (fifo' # <<>> /\ (see \/ (shown /\ ~pop)))
        /\ taken' = pop

\* One edge of aclk: s_valid and m_ready are the two neighbours of the channel.
Edge(s_valid, m_ready, see) ==
    /\ counter' = (counter + 1) % Period
    /\ VHold(m_ready)
    /\ Fifo(s_valid, m_ready, see)
    /\ delay_sync' \in Crossing(delay_sync, delay)
    /\ waited' = IF shown /\ ~m_valid_i /\ fifo[1].age >= fifo[1].want
                 THEN waited + 1 ELSE 0
    /\ UNCHANGED delay

\* Software writes the delay register over AXI-Lite.
SetDelay(d) == /\ delay' = d
               /\ UNCHANGED <<counter, delay_sync, fifo, shown, vhold, taken, waited>>

ChanNext == \/ \E s_valid, m_ready, see \in BOOLEAN : Edge(s_valid, m_ready, see)
        \/ \E d \in Delays : SetDelay(d)

\* The receiver of the channel is ready again and again, the FIFO shows what it
\* holds again and again; the clock runs.
ChanFairness ==
    /\ WF_chanVars(\E s_valid, see \in BOOLEAN : Edge(s_valid, TRUE, see))
    /\ WF_chanVars(\E s_valid, m_ready \in BOOLEAN : Edge(s_valid, m_ready, TRUE))

ChanSpec == ChanInit /\ [][ChanNext]_chanVars
ChanFairSpec == ChanSpec /\ ChanFairness
-----------------------------------------------------------------------------
\* No transfer is offered before the delay it was stamped with is over.
NeverEarly == m_valid_i => fifo[1].age >= fifo[1].want

\* A transfer whose delay is over is on offer, unless it was stuck behind others
\* for half a period and its stamp looks like the future again; then it is held
\* for no more than half a period.
LateBounded == waited <= Half

\* "Once VALID is asserted it must remain asserted until the handshake occurs",
\* and the transfer on offer does not change meanwhile.
ValidStable ==
    [][m_valid_i /\ ~taken' => m_valid_i' /\ fifo'[1].tm = fifo[1].tm]_chanVars

\* Every transfer gets through.
Delivered == fifo # <<>> ~> taken
=============================================================================
