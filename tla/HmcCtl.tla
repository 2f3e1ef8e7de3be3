------------------------------- MODULE HmcCtl -------------------------------
(***************************************************************************)
(* The memory of the SystemC simulation: HMCController (ip/sysc/kvs.cpp).  *)
(* A request is delayed by the queue and the memory and, for a write, by   *)
(* the interconnect; a read waits for the interconnect on its way back.    *)
(* Time is in units of the interconnect; the event queue is external.      *)
(***************************************************************************)
EXTENDS Integers, Sequences, TLAPS

CONSTANTS PSPE, PSPB,        \* time of a queue entry, and of a byte
          T_READ, T_WRITE, T_SRAM_W,
          Lengths, Garbage,  \* Garbage: what treqcnt may hold, it is not initialised
          MaxRequests, MaxTime

NSOCKETS == 4
Reads == {1, 3}     \* m_mem1_r, m_mem2_r; the others carry writes

VARIABLES now, reqcnt, treqcnt, nextrd, nextwr, peq, slots, sent

hmcVars == <<now, reqcnt, treqcnt, nextrd, nextwr, peq, slots, sent>>

(* The delay until next, if it lies after at *)
Wait(at, next) == IF at < next THEN next - at ELSE 0

Latency(id) == IF id \in Reads THEN T_READ ELSE IF id = 2 THEN T_SRAM_W ELSE T_WRITE

\* mutant: the slot is counted from now, not from its start
SlotEnd_Now(start, len) == now + len * PSPB
(* The end of the time slot of a transfer that begins at start *)
SlotEnd(start, len) == start + len * PSPB

nb_transport_fw(id, len) ==
    LET queued == now + (treqcnt + 1) * PSPE
        start  == queued + Wait(queued, nextwr)
    IN /\ sent < MaxRequests /\ sent' = sent + 1
       /\ reqcnt' = [reqcnt EXCEPT ![id] = @ + 1]
       /\ treqcnt' = treqcnt + 1
       /\ IF id \in Reads
          THEN /\ peq' = peq \cup {[id |-> id, len |-> len, at |-> queued + Latency(id), tag |-> sent]}
               /\ UNCHANGED <<nextwr, slots>>
          ELSE /\ peq' = peq \cup {[id |-> id, len |-> len, at |-> start + Latency(id), tag |-> sent]}
               /\ nextwr' = SlotEnd(start, len)
               /\ slots' = slots \cup {[dir |-> "w", from |-> start, to |-> start + len * PSPB, tag |-> sent]}
       /\ UNCHANGED <<now, nextrd>>

peq_cb(p) ==
    /\ p.at = now /\ peq' = peq \ {p}
    /\ reqcnt' = [reqcnt EXCEPT ![p.id] = @ - 1]
    /\ treqcnt' = treqcnt - 1
    /\ IF p.id \in Reads
       THEN LET start == now + Wait(now, nextrd)
            IN /\ nextrd' = SlotEnd(start, p.len)
               /\ slots' = slots \cup {[dir |-> "r", from |-> start, to |-> start + p.len * PSPB, tag |-> p.tag]}
       ELSE UNCHANGED <<nextrd, slots>>
    /\ UNCHANGED <<now, nextwr, sent>>

Tick ==
    /\ now < MaxTime /\ \A p \in peq : p.at > now
    /\ now' = now + 1
    /\ UNCHANGED <<reqcnt, treqcnt, nextrd, nextwr, peq, slots, sent>>

HmcInit ==
    /\ now = 0 /\ reqcnt = [i \in 0..NSOCKETS - 1 |-> 0] /\ treqcnt \in Garbage
    /\ nextrd = 0 /\ nextwr = 0 /\ peq = {} /\ slots = {} /\ sent = 0

HmcNext ==
    \/ \E id \in 0..NSOCKETS - 1, len \in Lengths : nb_transport_fw(id, len)
    \/ \E p \in peq : peq_cb(p)
    \/ Tick

HmcSpec == HmcInit /\ [][HmcNext]_hmcVars

-----------------------------------------------------------------------------
(* Bandwidth: no two transfers of one direction use the interconnect at    *)
(* the same time, whatever the order in which the queue releases them      *)
(* (nextrd and nextwr in nb_transport_fw and peq_cb).                      *)
BandwidthKept ==
    \A s, t \in slots : s # t /\ s.dir = t.dir => s.to <= t.from \/ t.to <= s.from
-----------------------------------------------------------------------------
(* For all latencies, times per byte and per queue entry, transfer lengths  *)
(* and numbers of requests, and whatever the counter that the constructor   *)
(* leaves unset holds.                                                      *)
Timing == /\ PSPE \in Nat /\ PSPB \in Nat /\ T_READ \in Nat /\ T_WRITE \in Nat /\ T_SRAM_W \in Nat
          /\ Lengths \subseteq Nat /\ Garbage \subseteq Int

Requests == [id : 0..NSOCKETS - 1, len : Lengths, at : Int, tag : Nat]
Slots == [dir : {"r", "w"}, from : Int, to : Int, tag : Nat]

\* The end of the last slot of a direction: later slots begin there or after.
LastEnd(dir) == IF dir = "r" THEN nextrd ELSE nextwr
IInv ==
    /\ now \in Int /\ treqcnt \in Int /\ nextrd \in Int /\ nextwr \in Int /\ sent \in Nat
    /\ peq \subseteq Requests /\ slots \subseteq Slots
    /\ \A s \in slots : s.to <= LastEnd(s.dir)
    /\ BandwidthKept
-----------------------------------------------------------------------------
LEMMA Later ==
    ASSUME NEW at \in Int, NEW next \in Int
    PROVE  at + Wait(at, next) \in Int /\ next <= at + Wait(at, next)
  BY DEF Wait

LEMMA Lasts == ASSUME Timing, NEW len \in Lengths PROVE len * PSPB \in Nat
  <1>1. len \in Nat /\ PSPB \in Nat
    BY DEF Timing
  <1> QED BY <1>1

\* A slot that begins where the last one of its direction ends, or later,
\* keeps the slots apart.
LEMMA Added ==
    ASSUME IInv, NEW dir \in {"r", "w"}, NEW start \in Int, NEW d \in Nat, NEW tag \in Nat,
           LastEnd(dir) <= start,
           slots' = slots \cup {[dir |-> dir, from |-> start, to |-> start + d, tag |-> tag]},
           nextrd' = IF dir = "r" THEN start + d ELSE nextrd,
           nextwr' = IF dir = "w" THEN start + d ELSE nextwr
    PROVE  /\ nextrd' \in Int /\ nextwr' \in Int /\ slots' \subseteq Slots
           /\ \A s \in slots' : s.to <= LastEnd(s.dir)'
           /\ BandwidthKept'
  <1> DEFINE new == [dir |-> dir, from |-> start, to |-> start + d, tag |-> tag]
  <1>1. start + d \in Int /\ start <= start + d
    OBVIOUS
  <1>2. /\ new \in Slots /\ new.dir = dir /\ new.from = start /\ new.to = start + d
        /\ slots' = slots \cup {new}
    BY <1>1 DEF Slots
  <1>3. nextrd' \in Int /\ nextwr' \in Int
    BY <1>1 DEF IInv
  <1>4. \A s \in slots : s \in Slots /\ s.to \in Int /\ s.from \in Int /\ s.dir \in {"r", "w"}
    BY DEF IInv, Slots
  <1>5. ASSUME NEW s \in slots, s.dir = dir PROVE s.to <= new.from
    <2>1. s.to <= LastEnd(dir) /\ s.to \in Int /\ LastEnd(dir) \in Int
      BY <1>4, <1>5 DEF IInv, LastEnd
    <2> QED BY <2>1, <1>2
  <1>6. ASSUME NEW s \in slots PROVE s.to <= LastEnd(s.dir)'
    <2>1. CASE s.dir = dir
      <3>1. LastEnd(s.dir)' = start + d /\ s.to <= start /\ s.to \in Int
        BY <2>1, <1>2, <1>4, <1>5 DEF LastEnd
      <3> QED BY <3>1, <1>1
    <2>2. CASE s.dir # dir
      BY <2>2, <1>4 DEF IInv, LastEnd
    <2> QED BY <2>1, <2>2
  <1>7. LastEnd(dir)' = start + d
    BY DEF LastEnd
  <1>8. ASSUME NEW s \in slots' PROVE s.to <= LastEnd(s.dir)'
    <2>1. CASE s = new
      <3>1. s.to = start + d /\ s.dir = dir
        BY <2>1, <1>2
      <3>2. LastEnd(s.dir)' = start + d
        BY <3>1, <1>7 DEF LastEnd
      <3>3. start + d <= start + d
        BY <1>1
      <3> QED BY <3>1, <3>2, <3>3, Zenon
    <2>2. CASE s \in slots
      BY <2>2, <1>6
    <2> QED BY <2>1, <2>2, <1>2
  <1> HIDE DEF new
  <1>9. BandwidthKept'
    BY <1>2, <1>5 DEF IInv, BandwidthKept
  <1> QED BY <1>2, <1>3, <1>4, <1>8, <1>9

LEMMA RequestKeeps ==
    ASSUME Timing, IInv, NEW id \in 0..NSOCKETS - 1, NEW len \in Lengths, nb_transport_fw(id, len)
    PROVE  IInv'
  <1> DEFINE queued == now + (treqcnt + 1) * PSPE
             start == queued + Wait(queued, nextwr)
  <1>1. queued \in Int
    <2>1. (treqcnt + 1) \in Int /\ PSPE \in Int
      BY DEF IInv, Timing
    <2>2. (treqcnt + 1) * PSPE \in Int
      BY <2>1
    <2> QED BY <2>2 DEF IInv
  <1>2. start \in Int /\ nextwr <= start
    BY <1>1, Later DEF IInv
  <1>3. Latency(id) \in Nat /\ len * PSPB \in Nat
    BY Lasts DEF Latency, Timing
  <1>4. /\ now' = now /\ nextrd' = nextrd /\ sent' \in Nat /\ treqcnt' \in Int
        /\ now' \in Int
    BY DEF nb_transport_fw, IInv
  <1>5. CASE id \in Reads
    <2>1. /\ peq' = peq \cup {[id |-> id, len |-> len, at |-> queued + Latency(id), tag |-> sent]}
          /\ UNCHANGED <<nextwr, slots>>
      BY <1>5 DEF nb_transport_fw
    <2>2. queued + Latency(id) \in Int
      BY <1>1, <1>3
    <2> HIDE DEF queued
    <2>3. peq' \subseteq Requests
      BY <2>1, <2>2 DEF IInv, Requests
    <2> QED BY <2>1, <2>3, <1>4 DEF IInv, BandwidthKept, LastEnd
  <1>6. CASE id \notin Reads
    <2>1. /\ peq' = peq \cup {[id |-> id, len |-> len, at |-> start + Latency(id), tag |-> sent]}
          /\ nextwr' = start + len * PSPB
          /\ slots' = slots \cup {[dir |-> "w", from |-> start, to |-> start + len * PSPB, tag |-> sent]}
      BY <1>6 DEF nb_transport_fw, SlotEnd
    <2>2. start + Latency(id) \in Int
      BY <1>2, <1>3
    <2> HIDE DEF start
    <2>3. peq' \subseteq Requests
      BY <2>1, <2>2 DEF IInv, Requests
    <2>4. LastEnd("w") <= start /\ sent \in Nat
      BY <1>2 DEF LastEnd, IInv
    <2>5. /\ nextrd' \in Int /\ nextwr' \in Int /\ slots' \subseteq Slots
          /\ \A s \in slots' : s.to <= LastEnd(s.dir)'
          /\ BandwidthKept'
      BY <2>1, <2>4, <1>2, <1>3, <1>4, Added
    <2> QED BY <2>3, <2>5, <1>4 DEF IInv
  <1> QED BY <1>5, <1>6

LEMMA ReleaseKeeps == ASSUME Timing, IInv, NEW p \in peq, peq_cb(p) PROVE IInv'
  <1> DEFINE start == now + Wait(now, nextrd)
  <1>1. p.len \in Lengths /\ p.tag \in Nat
    BY DEF IInv, Requests
  <1>2. start \in Int /\ nextrd <= start
    BY Later DEF IInv
  <1>3. p.len * PSPB \in Nat
    BY <1>1, Lasts
  <1>4. /\ now' = now /\ nextwr' = nextwr /\ sent' = sent /\ treqcnt' \in Int
        /\ peq' \subseteq Requests
    BY DEF peq_cb, IInv
  <1>5. CASE p.id \in Reads
    <2>1. /\ nextrd' = start + p.len * PSPB
          /\ slots' = slots \cup {[dir |-> "r", from |-> start, to |-> start + p.len * PSPB, tag |-> p.tag]}
      BY <1>5 DEF peq_cb, SlotEnd
    <2> HIDE DEF start
    <2>2. LastEnd("r") <= start
      BY <1>2 DEF LastEnd
    <2>3. /\ nextrd' \in Int /\ nextwr' \in Int /\ slots' \subseteq Slots
          /\ \A s \in slots' : s.to <= LastEnd(s.dir)'
          /\ BandwidthKept'
      BY <2>1, <2>2, <1>1, <1>2, <1>3, <1>4, Added
    <2> QED BY <2>3, <1>4 DEF IInv
  <1>6. CASE p.id \notin Reads
    <2>1. UNCHANGED <<nextrd, slots>>
      BY <1>6 DEF peq_cb
    <2> QED BY <2>1, <1>4 DEF IInv, BandwidthKept, LastEnd
  <1> QED BY <1>5, <1>6

\* The modelled memory never carries two transfers of one direction at a time,
\* for every timing and every order of requests and releases, even though
\* treqcnt starts with an arbitrary value (nextrd and nextwr in HMCController).
THEOREM Bandwidth == ASSUME Timing PROVE HmcSpec => []BandwidthKept
  <1>1. HmcInit => IInv
    BY DEF HmcInit, IInv, BandwidthKept, Timing
  <1>2. IInv /\ [HmcNext]_hmcVars => IInv'
    <2> SUFFICES ASSUME IInv, [HmcNext]_hmcVars PROVE IInv'
      OBVIOUS
    <2>1. CASE \E id \in 0..NSOCKETS - 1, len \in Lengths : nb_transport_fw(id, len)
      BY <2>1, RequestKeeps
    <2>2. CASE \E p \in peq : peq_cb(p)
      BY <2>2, ReleaseKeeps
    <2>3. CASE Tick
      BY <2>3 DEF Tick, IInv, BandwidthKept, LastEnd
    <2>4. CASE UNCHANGED hmcVars
      BY <2>4 DEF hmcVars, IInv, BandwidthKept, LastEnd
    <2> QED BY <2>1, <2>2, <2>3, <2>4 DEF HmcNext
  <1>3. IInv => BandwidthKept
    BY DEF IInv
  <1> QED BY <1>1, <1>2, <1>3, PTL DEF HmcSpec
=============================================================================
