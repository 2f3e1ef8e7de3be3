------------------------- MODULE TraceCaptureProofs -------------------------
(***************************************************************************)
(* TraceCapture for every burst length, FIFO depth, ring size, length of   *)
(* trace, number of captures and number of beats ahead of their address:   *)
(* the bursts in memory are well formed, how far the flush events reach,   *)
(* and the trace comes back in order and complete until the program runs   *)
(* dry.  The write path needs no assumption; what is read back rests on    *)
(* Spacious below.                                                         *)
(***************************************************************************)
EXTENDS TraceCapture, SequenceTheorems, TLAPS

\* The memory holds fewer addresses than the ring has bursts.
Spacious == Outstanding < BURSTS
-----------------------------------------------------------------------------
\* Entries that have been stored in the ring, overwritten ones included
Stored == emitted - Len(wfifo) - Len(wbuf)

\* Write path: FIFO, data beats and stored bursts hold consecutive entries, the
\* counters of the two channels agree with the queues of the memory, and the
\* beat counter with the place in a burst.
WriteInv ==
    /\ N \in Nat /\ emitted \in 0 .. N
    /\ wfifo \in Seq(Nat) /\ Len(wfifo) <= DEPTH
    /\ \A i \in 1 .. Len(wfifo) : wfifo[i] = emitted - Len(wfifo) + i
    /\ wbuf \in Seq(Int \X BOOLEAN) /\ Stored >= 0
    /\ \A i \in 1 .. Len(wbuf) :
          wbuf[i][1] = Stored + i /\ (wbuf[i][2] <=> i % BURST_LEN = 0)
    /\ awq \in Seq(0 .. BURSTS-1) /\ bs \in Nat
    /\ Len(awq) <= 2 /\ (Len(awq) > 0 => Len(wbuf) < BURST_LEN)
    /\ Len(awq) = 2 => Len(wbuf) > 0
    /\ Len(wbuf) <= BURST_LEN * Len(awq) + Early
    /\ wch_dbeats = BURST_LEN * Len(awq) - Len(wbuf)
    /\ wch_burstc = BURST_LEN-1 - (Len(wbuf) % BURST_LEN)
    /\ m_axi_awaddr_i \in 0 .. BURSTS-1
    /\ mem \in [0 .. BURSTS-1 -> [1 .. BURST_LEN -> Int \X BOOLEAN]]
    /\ \A a \in 0 .. BURSTS-1 : \A i \in 1 .. BURST_LEN :
          mem[a][i][2] <=> i = BURST_LEN \/ mem[a][i][1] = -1

\* The address j bursts after address c, and after that of the oldest burst held
Slot(c, j) == IF c + j < BURSTS THEN c + j ELSE c + j - BURSTS
At(j) == Slot(comp_araddr, j)

\* Bursts written, answered and not yet asked for, when used are held
Ready(used) == used - Len(awq) - bs - Len(arq)

\* Places in the ring: used bursts from the oldest one held to the write address.
\* All four addresses follow from the lengths of the queues, and last_wr and
\* last_rd tell a full ring from an empty one.
Places(used) ==
    /\ used \in 0 .. BURSTS /\ comp_araddr \in 0 .. BURSTS-1
    /\ last_wr \in BOOLEAN /\ last_rd \in BOOLEAN
    /\ m_axi_awaddr_i = At(used) /\ (used = 0 => ~last_wr) /\ (used = BURSTS => last_wr)
    /\ comp_awaddr = At(used - Len(awq) - bs) /\ m_axi_araddr_i = At(Len(arq))
    /\ Len(awq) + bs <= Outstanding /\ Ready(used) >= 0
    /\ (Ready(used) = 0 => last_rd) /\ (Ready(used) = BURSTS => ~last_rd)
    /\ \A k \in 1 .. Len(awq) : awq[k] = At(used - Len(awq) + k - 1)
    /\ arq \in Seq(0 .. BURSTS-1) /\ \A k \in 1 .. Len(arq) : arq[k] = At(k - 1)

\* The beats asked for and not yet delivered
Reading ==
    /\ Len(arq) <= 2 /\ rbeat \in 1 .. BURST_LEN
    /\ (Len(arq) = 0 => rbeat = 1) /\ (Len(arq) = 2 => rbeat > 1)
    /\ rch_dbeats = BURST_LEN * Len(arq) - (rbeat - 1)

\* Entries that left the read FIFO or were given up, when old precede the ring
Gone(old) == old + rbeat - 1 - Len(rfifo)

\* The ring holds consecutive entries, and so does the read FIFO; the program has
\* seen the one before.
Entries(used, old) ==
    /\ old \in Nat /\ Stored = old + BURST_LEN * (used - Len(awq))
    /\ \A j \in 0 .. used - Len(awq) - 1 : \A i \in 1 .. BURST_LEN :
          mem[At(j)][i][1] = old + BURST_LEN * j + i
    /\ rfifo \in Seq(Nat) /\ Len(rfifo) <= DEPTH /\ Gone(old) >= 0
    /\ \A i \in 1 .. Len(rfifo) : rfifo[i] = Gone(old) + i
    /\ seen \in Nat /\ (seen # 0 => seen = Gone(old))

Ring(used, old) == Places(used) /\ Reading /\ Entries(used, old)

\* Nothing is on its way to the read FIFO, and it is empty
Over == Drained /\ Len(rfifo) = 0

\* Without forwarding nothing is read, and what has been read was everything
Quiet == ~forward_sync => Len(rfifo) = 0 /\ Len(arq) = 0 /\ (seen # 0 => Over)

\* The registers and the program.  forward falls only when everything is over.
SoftInv ==
    /\ forward \in BOOLEAN /\ forward_sync \in BOOLEAN /\ m_fifo_rch_empty_d \in BOOLEAN
    /\ had_aw \in BOOLEAN /\ had_w \in BOOLEAN /\ had_ar \in BOOLEAN
    /\ sw \in {"idle", "store", "load"} /\ tot \in 0 .. BURSTS * BURST_LEN
    /\ (had_ar => sw = "load") /\ (had_aw \/ had_w => sw = "store")
    /\ (sw = "store" => tot = 0) /\ (sw = "load" => tot < BURSTS * BURST_LEN)
    /\ (sw = "load" /\ tot > 0 => seen # 0)
    /\ (forward_sync /\ ~forward => Over)
    /\ (~m_fifo_rch_empty_d /\ Len(rfifo) = 0 => Over /\ seen # 0)
    /\ (sw = "load" /\ ~forward => Over /\ seen # 0)

ReadInv == Quiet /\ SoftInv /\ \E used, old \in Nat : Ring(used, old)

\* The read path is in order until the program runs dry (RunsDry)
IInv == WriteInv /\ (dry \/ ReadInv)
-----------------------------------------------------------------------------
(* Remainders *)

LEMMA DivMod ==
    ASSUME NEW x \in Int, NEW b \in Nat \ {0}
    PROVE  x = b * (x \div b) + (x % b) /\ x % b \in 0 .. b-1 /\ x \div b \in Int
  OBVIOUS

\* Quotient and remainder are unique.
LEMMA ModIs ==
    ASSUME NEW x \in Int, NEW b \in Nat \ {0}, NEW q \in Int, NEW r \in 0 .. b-1, x = b * q + r
    PROVE  x % b = r
  <1> DEFINE p == x \div b
             s == x % b
  <1>1. x = b * p + s /\ s \in 0 .. b-1 /\ p \in Int
    BY DivMod
  <1> HIDE DEF p, s
  <1>2. CASE q > p
    <2>1. b * (q - p) >= b
      BY <1>1, <1>2
    <2>2. b * q - b * p >= b
      BY <1>1, <2>1
    <2> QED BY <1>1, <2>2
  <1>3. CASE q < p
    <2>1. b * (p - q) >= b
      BY <1>1, <1>3
    <2>2. b * p - b * q >= b
      BY <1>1, <2>1
    <2> QED BY <1>1, <2>2
  <1>4. CASE q = p
    <2>1. s = r
      BY <1>1, <1>4
    <2> QED BY <2>1 DEF s
  <1> QED BY <1>1, <1>2, <1>3, <1>4

LEMMA ModStep ==
    ASSUME NEW x \in Nat, NEW b \in Nat \ {0}
    PROVE  (x + 1) % b = IF x % b = b-1 THEN 0 ELSE (x % b) + 1
  <1> DEFINE q == x \div b
             r == x % b
  <1>1. x = b * q + r /\ r \in 0 .. b-1 /\ q \in Int
    BY DivMod
  <1> HIDE DEF q, r
  <1>2. CASE r = b-1
    <2>1. x + 1 = b * (q + 1) + 0
      BY <1>1, <1>2
    <2>2. (x + 1) % b = 0
      BY <2>1, <1>1, ModIs
    <2> QED BY <1>2, <2>2 DEF r
  <1>3. CASE r # b-1
    <2>1. x + 1 = b * q + (r + 1)
      BY <1>1, <1>3
    <2>2. (x + 1) % b = r + 1
      BY <2>1, <1>1, <1>3, ModIs
    <2> QED BY <1>3, <2>2 DEF r
  <1> QED BY <1>2, <1>3

LEMMA ModPlus ==
    ASSUME NEW x \in Nat, NEW b \in Nat \ {0}
    PROVE  (x + b) % b = x % b
  <1> DEFINE q == x \div b
             r == x % b
  <1>1. x = b * q + r /\ r \in 0 .. b-1 /\ q \in Int
    BY DivMod
  <1> HIDE DEF q, r
  <1>2. x + b = b * (q + 1) + r /\ q + 1 \in Int /\ x + b \in Int
    BY <1>1
  <1>3. (x + b) % b = r
    BY <1>1, <1>2, ModIs
  <1> QED BY <1>3 DEF r

LEMMA IncIs ==
    ASSUME NEW a \in 0 .. BURSTS-1
    PROVE  inc(a) = (IF a + 1 < BURSTS THEN a + 1 ELSE 0) /\ inc(a) \in 0 .. BURSTS-1
  <1>1. BURSTS \in Nat \ {0} /\ a \in Nat
    BY TcdAssumption
  <1>2. CASE a + 1 < BURSTS
    <2>1. a + 1 = BURSTS * 0 + (a + 1) /\ a + 1 \in 0 .. BURSTS-1
      BY <1>1, <1>2
    <2>2. (a + 1) % BURSTS = a + 1
      BY <1>1, <2>1, ModIs
    <2> QED BY <1>2, <2>1, <2>2 DEF inc
  <1>3. CASE a + 1 = BURSTS
    <2>1. a + 1 = BURSTS * 1 + 0 /\ 0 \in 0 .. BURSTS-1
      BY <1>1, <1>3
    <2>2. (a + 1) % BURSTS = 0
      BY <1>1, <2>1, ModIs
    <2> QED BY <1>1, <1>3, <2>1, <2>2 DEF inc
  <1> QED BY <1>1, <1>2, <1>3
-----------------------------------------------------------------------------
(* The write path *)

\* What MemoryWrite has before it stores a burst: addresses and data beats, with
\* those of this edge, and whether a burst is complete.
Addresses(aw) == IF aw THEN Append(awq, m_axi_awaddr_i) ELSE awq
Data(w) == IF w THEN Append(wbuf, <<wfifo[1], m_axi_wlast>>) ELSE wbuf
BurstIf(full) == IF full THEN BURST_LEN ELSE 0
Full(aw, w) == Len(Addresses(aw)) > 0 /\ Len(Data(w)) >= BURST_LEN

LEMMA AddressesShape ==
    ASSUME WriteInv, NEW aw \in BOOLEAN
    PROVE  /\ Addresses(aw) \in Seq(0 .. BURSTS-1)
           /\ Len(Addresses(aw)) = Len(awq) + Beats(aw)
           /\ \A k \in 1 .. Len(awq) : Addresses(aw)[k] = awq[k]
           /\ aw => Addresses(aw)[Len(awq) + 1] = m_axi_awaddr_i
  <1>1. awq \in Seq(0 .. BURSTS-1) /\ m_axi_awaddr_i \in 0 .. BURSTS-1
    BY DEF WriteInv
  <1>2. CASE aw
    BY <1>1, <1>2, AppendProperties DEF Addresses, Beats
  <1>3. CASE ~aw
    BY <1>1, <1>3 DEF Addresses, Beats
  <1> QED BY <1>2, <1>3

LEMMA DataShape ==
    ASSUME WriteInv, NEW w \in BOOLEAN, w => Len(wfifo) > 0
    PROVE  /\ Data(w) \in Seq(Int \X BOOLEAN) /\ Len(Data(w)) = Len(wbuf) + Beats(w)
           /\ \A i \in 1 .. Len(Data(w)) :
                 Data(w)[i][1] = Stored + i /\ (Data(w)[i][2] <=> i % BURST_LEN = 0)
  <1>1. /\ wbuf \in Seq(Int \X BOOLEAN) /\ wfifo \in Seq(Nat) /\ emitted \in Nat
        /\ \A i \in 1 .. Len(wbuf) :
              wbuf[i][1] = Stored + i /\ (wbuf[i][2] <=> i % BURST_LEN = 0)
        /\ wch_burstc = BURST_LEN-1 - (Len(wbuf) % BURST_LEN)
    BY DEF WriteInv
  <1>2. CASE ~w
    BY <1>1, <1>2 DEF Data, Beats
  <1>3. CASE w
    <2> DEFINE e == <<wfifo[1], m_axi_wlast>>
    <2>1. wfifo[1] = emitted - Len(wfifo) + 1 /\ Len(wfifo) \in Nat
      BY <1>3, <1>1 DEF WriteInv
    <2>2. m_axi_wlast <=> (Len(wbuf) + 1) % BURST_LEN = 0
      <3>1. Len(wbuf) \in Nat /\ BURST_LEN \in Nat \ {0}
        BY <1>1, TcdAssumption
      <3>2. Len(wbuf) % BURST_LEN \in 0 .. BURST_LEN-1
        BY <3>1, DivMod
      <3>3. (Len(wbuf) + 1) % BURST_LEN = IF Len(wbuf) % BURST_LEN = BURST_LEN-1 THEN 0
                                          ELSE (Len(wbuf) % BURST_LEN) + 1
        BY <3>1, ModStep
      <3> QED BY <1>1, <3>1, <3>2, <3>3 DEF m_axi_wlast
    <2>3. wfifo[1] \in Int /\ m_axi_wlast \in BOOLEAN
      BY <2>1, <1>1 DEF m_axi_wlast
    <2>4. e \in Int \X BOOLEAN /\ e[1] = wfifo[1] /\ (e[2] <=> m_axi_wlast)
      BY <2>3
    <2>5. e[1] = Stored + (Len(wbuf) + 1) /\ (e[2] <=> (Len(wbuf) + 1) % BURST_LEN = 0)
      BY <1>1, <2>1, <2>2, <2>4 DEF Stored
    <2> HIDE DEF e
    <2>6. Data(w) = Append(wbuf, e)
      BY <1>3 DEF Data, e
    <2>7. /\ Data(w) \in Seq(Int \X BOOLEAN) /\ Len(Data(w)) = Len(wbuf) + 1
          /\ \A i \in 1 .. Len(wbuf) : Data(w)[i] = wbuf[i]
          /\ Data(w)[Len(wbuf) + 1] = e
      BY <1>1, <2>4, <2>6, AppendProperties
    <2>8. ASSUME NEW i \in 1 .. Len(Data(w))
          PROVE  Data(w)[i][1] = Stored + i /\ (Data(w)[i][2] <=> i % BURST_LEN = 0)
      <3>1. CASE i \in 1 .. Len(wbuf)
        BY <1>1, <2>7, <3>1
      <3>2. CASE i = Len(wbuf) + 1
        BY <2>5, <2>7, <3>2
      <3> QED BY <1>1, <2>7, <3>1, <3>2
    <2> QED BY <1>3, <2>7, <2>8 DEF Beats
  <1> QED BY <1>2, <1>3

\* What one edge of the write side does.
WriteEffect(aw, w, b) ==
    /\ emitted' = emitted /\ N' = N
    /\ wfifo' \in Seq(Nat) /\ Len(wfifo') = Len(wfifo) - Beats(w)
    /\ \A i \in 1 .. Len(wfifo') : wfifo'[i] = emitted - Len(wfifo') + i
    /\ awq' \in Seq(0 .. BURSTS-1)
    /\ Len(awq') = Len(awq) + Beats(aw) - Beats(Full(aw, w))
    /\ \A k \in 1 .. Len(awq') : awq'[k] = Addresses(aw)[k + Beats(Full(aw, w))]
    /\ wbuf' \in Seq(Int \X BOOLEAN)
    /\ Len(wbuf') = Len(wbuf) + Beats(w) - BurstIf(Full(aw, w))
    /\ Stored' = Stored + BurstIf(Full(aw, w))
    /\ \A i \in 1 .. Len(wbuf') :
          wbuf'[i][1] = Stored' + i /\ (wbuf'[i][2] <=> i % BURST_LEN = 0)
    /\ ~Full(aw, w) => mem' = mem
    /\ Full(aw, w) =>
          mem' = [mem EXCEPT ![Addresses(aw)[1]] = SubSeq(Data(w), 1, BURST_LEN)]
    /\ bs' = bs + Beats(Full(aw, w)) - Beats(b) /\ (b => bs > 0)
    /\ w => Len(wfifo) > 0 /\ Len(wbuf) < BURST_LEN * Len(awq) + Early
    /\ aw => m_axi_awvalid_i /\ Len(awq) + bs < Outstanding

\* What an edge of the memory clock does to FIFO, queues and memory.
LEMMA WriteShape ==
    ASSUME WriteInv, NEW aw \in BOOLEAN, NEW w \in BOOLEAN, NEW b \in BOOLEAN,
           NEW ar \in BOOLEAN, NEW r \in BOOLEAN, MAxi(aw, w, b, ar, r)
    PROVE  WriteEffect(aw, w, b)
  <1> USE DEF Beats, BurstIf
  <1>1. /\ wfifo \in Seq(Nat) /\ emitted \in Nat /\ awq \in Seq(0 .. BURSTS-1)
        /\ wbuf \in Seq(Int \X BOOLEAN) /\ BURST_LEN \in Nat /\ BURST_LEN > 2
        /\ \A i \in 1 .. Len(wfifo) : wfifo[i] = emitted - Len(wfifo) + i
    BY TcdAssumption DEF WriteInv
  <1>2. /\ w => Len(wfifo) > 0 /\ Len(wbuf) < BURST_LEN * Len(awq) + Early
        /\ aw => m_axi_awvalid_i /\ Len(awq) + bs < Outstanding
        /\ b => bs > 0
    BY <1>1 DEF MAxi, MAxiClock, m_axi_wvalid_i, TakesData, TakesAddress
  <1>3. /\ Addresses(aw) \in Seq(0 .. BURSTS-1)
        /\ Len(Addresses(aw)) = Len(awq) + Beats(aw)
    BY AddressesShape
  <1>4. /\ Data(w) \in Seq(Int \X BOOLEAN) /\ Len(Data(w)) = Len(wbuf) + Beats(w)
        /\ \A i \in 1 .. Len(Data(w)) :
              Data(w)[i][1] = Stored + i /\ (Data(w)[i][2] <=> i % BURST_LEN = 0)
    BY <1>2, DataShape
  <1>5. Full(aw, w) <=> Addresses(aw) # <<>> /\ Len(Data(w)) >= BURST_LEN
    BY <1>3 DEF Full
  <1>6. /\ mem' = IF Full(aw, w)
                  THEN [mem EXCEPT ![Addresses(aw)[1]] = SubSeq(Data(w), 1, BURST_LEN)]
                  ELSE mem
        /\ awq' = IF Full(aw, w) THEN Tail(Addresses(aw)) ELSE Addresses(aw)
        /\ wbuf' = IF Full(aw, w) THEN SubSeq(Data(w), BURST_LEN+1, Len(Data(w))) ELSE Data(w)
        /\ bs' = bs + Beats(Full(aw, w)) - Beats(b)
        /\ emitted' = emitted /\ N' = N /\ wfifo' = IF w THEN Tail(wfifo) ELSE wfifo
    <2>1. MemoryWrite(aw, w, b)
      BY DEF MAxi, MAxiClock
    <2>2. emitted' = emitted /\ N' = N /\ wfifo' = IF w THEN Tail(wfifo) ELSE wfifo
      BY DEF MAxi, MAxiClock, swvars
    <2> QED BY <1>5, <2>1, <2>2 DEF MemoryWrite, Addresses, Data
  <1>7. /\ wfifo' \in Seq(Nat) /\ Len(wfifo') = Len(wfifo) - Beats(w)
        /\ \A i \in 1 .. Len(wfifo') : wfifo'[i] = emitted - Len(wfifo') + i
    <2>1. CASE w
      <3>1. wfifo # <<>>
        BY <1>1, <1>2, <2>1
      <3>2. /\ wfifo' \in Seq(Nat) /\ Len(wfifo') = Len(wfifo) - 1
            /\ \A i \in 1 .. Len(wfifo') : wfifo'[i] = wfifo[i + 1]
        BY <1>1, <1>6, <2>1, <3>1, HeadTailProperties
      <3> QED BY <1>1, <2>1, <3>2
    <2>2. CASE ~w
      BY <1>1, <1>6, <2>2
    <2> QED BY <2>1, <2>2
  <1>8. /\ awq' \in Seq(0 .. BURSTS-1)
        /\ Len(awq') = Len(awq) + Beats(aw) - Beats(Full(aw, w))
        /\ \A k \in 1 .. Len(awq') : awq'[k] = Addresses(aw)[k + Beats(Full(aw, w))]
    <2>1. CASE Full(aw, w)
      BY <1>3, <1>5, <1>6, <2>1, HeadTailProperties
    <2>2. CASE ~Full(aw, w)
      BY <1>3, <1>6, <2>2
    <2> QED BY <2>1, <2>2
  <1>9. /\ wbuf' \in Seq(Int \X BOOLEAN)
        /\ Len(wbuf') = Len(wbuf) + Beats(w) - BurstIf(Full(aw, w))
    <2>1. CASE Full(aw, w)
      <3>1. Len(Data(w)) \in Nat /\ Len(Data(w)) >= BURST_LEN
        BY <1>4, <2>1 DEF Full
      <3>2. BURST_LEN+1 \in 1 .. Len(Data(w))+1 /\ Len(Data(w)) \in BURST_LEN+1-1 .. Len(Data(w))
        BY <1>1, <3>1
      <3>3. /\ wbuf' \in Seq(Int \X BOOLEAN)
            /\ Len(wbuf') = IF BURST_LEN+1 <= Len(Data(w)) THEN Len(Data(w)) - (BURST_LEN+1) + 1
                            ELSE 0
        BY <1>4, <1>6, <2>1, <3>2, SubSeqProperties
      <3>4. Len(wbuf') = Len(Data(w)) - BURST_LEN
        BY <1>1, <3>1, <3>3
      <3> QED BY <1>1, <1>4, <2>1, <3>3, <3>4
    <2>2. CASE ~Full(aw, w)
      BY <1>1, <1>4, <1>6, <2>2
    <2> QED BY <2>1, <2>2
  <1>10. Stored' = Stored + BurstIf(Full(aw, w)) /\ Stored \in Int
    <2>1. Stored' = emitted - Len(wfifo') - Len(wbuf')
      BY <1>6 DEF Stored
    <2>2. Len(wfifo) \in Nat /\ Len(wbuf) \in Nat
      BY <1>1
    <2>3. CASE Full(aw, w)
      BY <1>1, <1>7, <1>9, <2>1, <2>2, <2>3 DEF Stored
    <2>4. CASE ~Full(aw, w)
      BY <1>1, <1>7, <1>9, <2>1, <2>2, <2>4 DEF Stored
    <2> QED BY <2>3, <2>4
  <1>11. ASSUME NEW i \in 1 .. Len(wbuf')
         PROVE  wbuf'[i][1] = Stored' + i /\ (wbuf'[i][2] <=> i % BURST_LEN = 0)
    <2>1. CASE Full(aw, w)
      <3>0. i \in Nat \ {0} /\ Len(Data(w)) \in Nat /\ Len(wbuf') = Len(Data(w)) - BURST_LEN
        <4>1. Len(Data(w)) \in Nat /\ Len(Data(w)) = Len(wbuf) + Beats(w) /\ Len(wbuf) \in Nat
          BY <1>1, <1>4
        <4> QED BY <1>1, <1>9, <2>1, <4>1
      <3>1. i + BURST_LEN \in 1 .. Len(Data(w)) /\ wbuf'[i] = Data(w)[i + BURST_LEN]
        <4>1. BURST_LEN+1 \in 1 .. Len(Data(w))+1 /\ Len(Data(w)) \in BURST_LEN+1-1 .. Len(Data(w))
          BY <1>1, <3>0
        <4>2. i \in 1 .. Len(Data(w)) - (BURST_LEN+1) + 1 /\ BURST_LEN+1 + i - 1 = i + BURST_LEN
          BY <1>1, <3>0
        <4>3. wbuf'[i] = Data(w)[BURST_LEN+1 + i - 1]
          BY <1>4, <1>6, <2>1, <4>1, <4>2, SubSeqProperties, SMTT(20)
        <4> QED BY <1>1, <3>0, <4>2, <4>3
      <3>2. (i + BURST_LEN) % BURST_LEN = i % BURST_LEN
        <4>1. BURST_LEN \in Nat \ {0} /\ i \in Nat
          BY <1>1, <3>0
        <4> QED BY <4>1, ModPlus
      <3>3. Stored' + i = Stored + (i + BURST_LEN)
        BY <1>1, <1>10, <2>1, <3>0
      <3> QED BY <1>4, <3>1, <3>2, <3>3
    <2>2. CASE ~Full(aw, w)
      <3>1. Stored' = Stored
        BY <1>1, <1>10, <2>2 DEF Stored
      <3> QED BY <1>4, <1>6, <2>2, <3>1
    <2> QED BY <2>1, <2>2
  <1> QED BY <1>2, <1>6, <1>7, <1>8, <1>9, <1>10, <1>11 DEF WriteEffect

LEMMA WriteTypes ==
    ASSUME WriteInv
    PROVE  /\ N \in Nat /\ emitted \in 0 .. N /\ emitted \in Nat /\ Stored >= 0
           /\ Len(wfifo) \in Nat /\ Len(wbuf) \in Nat /\ Len(awq) \in Nat /\ bs \in Nat
           /\ Len(wbuf) <= BURST_LEN * Len(awq) + Early
  <1>1. /\ N \in Nat /\ emitted \in 0 .. N /\ Stored >= 0 /\ wfifo \in Seq(Nat)
        /\ wbuf \in Seq(Int \X BOOLEAN) /\ awq \in Seq(0 .. BURSTS-1) /\ bs \in Nat
        /\ Len(wbuf) <= BURST_LEN * Len(awq) + Early
    BY Zenon DEF WriteInv
  <1> QED BY <1>1

LEMMA ReadTypes ==
    ASSUME NEW used, NEW old, Places(used), Reading, Entries(used, old)
    PROVE  /\ Len(rfifo) \in Nat /\ Len(arq) \in Nat /\ rbeat \in 1 .. BURST_LEN /\ old \in Nat
  <1>1. /\ rfifo \in Seq(Nat) /\ old \in Nat /\ arq \in Seq(0 .. BURSTS-1)
        /\ rbeat \in 1 .. BURST_LEN
    BY Zenon DEF Entries, Reading, Places
  <1> QED BY <1>1

LEMMA WriteInit == Init => WriteInv
  <1> SUFFICES ASSUME Init PROVE WriteInv
    OBVIOUS
  <1>1. /\ N \in Nat /\ emitted = 0 /\ wfifo = <<>> /\ wbuf = <<>> /\ awq = <<>> /\ bs = 0
        /\ wch_dbeats = 0 /\ wch_burstc = BURST_LEN-1 /\ m_axi_awaddr_i = 0
        /\ mem = [a \in 0 .. BURSTS-1 |-> [i \in 1 .. BURST_LEN |-> <<-1, TRUE>>]]
    BY TcdAssumption DEF Init
  <1>2. 0 % BURST_LEN = 0
    BY TcdAssumption
  <1>3. /\ mem \in [0 .. BURSTS-1 -> [1 .. BURST_LEN -> Int \X BOOLEAN]]
        /\ \A a \in 0 .. BURSTS-1 : \A i \in 1 .. BURST_LEN :
              mem[a][i][2] <=> i = BURST_LEN \/ mem[a][i][1] = -1
    <2> DEFINE e == <<-1, TRUE>>
    <2>0. -1 \in Int
      OBVIOUS
    <2>1. e \in Int \X BOOLEAN
      BY <2>0, Zenon
    <2>2. e[1] = -1
      OBVIOUS
    <2>3. e[2] = TRUE
      OBVIOUS
    <2> HIDE DEF e
    <2>4. mem = [a \in 0 .. BURSTS-1 |-> [i \in 1 .. BURST_LEN |-> e]]
      BY <1>1 DEF e
    <2> QED BY <2>1, <2>2, <2>3, <2>4
  <1>4. /\ Len(wfifo) = 0 /\ Len(wbuf) = 0 /\ Len(awq) = 0 /\ Stored = 0
        /\ wfifo \in Seq(Nat) /\ wbuf \in Seq(Int \X BOOLEAN) /\ awq \in Seq(0 .. BURSTS-1)
    <2>1. Len(wfifo) = 0 /\ Len(wbuf) = 0 /\ Len(awq) = 0
      BY <1>1
    <2>2. wfifo \in Seq(Nat) /\ wbuf \in Seq(Int \X BOOLEAN) /\ awq \in Seq(0 .. BURSTS-1)
      BY <1>1
    <2>3. Stored = 0
      <3>1. Stored = 0 - 0 - 0
        BY <1>1, <2>1 DEF Stored
      <3> QED BY <3>1
    <2> QED BY <2>1, <2>2, <2>3
  <1>5. /\ BURST_LEN * Len(awq) = 0 /\ BURST_LEN \in Nat /\ Early \in Nat /\ DEPTH \in Nat
        /\ 0 \in 0 .. BURSTS-1
    BY <1>4, TcdAssumption
  <1>6. /\ \A i \in 1 .. Len(wfifo) : wfifo[i] = emitted - Len(wfifo) + i
        /\ \A i \in 1 .. Len(wbuf) :
              wbuf[i][1] = Stored + i /\ (wbuf[i][2] <=> i % BURST_LEN = 0)
    BY <1>4
  <1>7. /\ emitted \in 0 .. N /\ Len(wfifo) <= DEPTH /\ Stored >= 0 /\ bs \in Nat
        /\ Len(awq) <= 2 /\ (Len(awq) > 0 => Len(wbuf) < BURST_LEN)
        /\ Len(awq) = 2 => Len(wbuf) > 0
        /\ Len(wbuf) <= BURST_LEN * Len(awq) + Early
        /\ wch_dbeats = BURST_LEN * Len(awq) - Len(wbuf)
        /\ wch_burstc = BURST_LEN-1 - (Len(wbuf) % BURST_LEN)
    BY <1>1, <1>2, <1>4, <1>5
  <1> QED BY <1>1, <1>3, <1>4, <1>5, <1>6, <1>7 DEF WriteInv

LEMMA WriteSAxis == ASSUME WriteInv, SAxisEdge PROVE WriteInv'
  <1>1. /\ emitted < N /\ Len(wfifo) < DEPTH /\ emitted' = emitted + 1
        /\ wfifo' = Append(wfifo, emitted + 1) /\ N' = N
        /\ UNCHANGED <<wvars, memvars>>
    BY DEF SAxisEdge, swvars
  <1>2. /\ wfifo \in Seq(Nat) /\ emitted \in Nat /\ N \in Nat /\ emitted <= N
        /\ \A i \in 1 .. Len(wfifo) : wfifo[i] = emitted - Len(wfifo) + i
    BY DEF WriteInv
  <1>3. /\ wfifo' \in Seq(Nat) /\ Len(wfifo') = Len(wfifo) + 1
        /\ \A i \in 1 .. Len(wfifo) : wfifo'[i] = wfifo[i]
        /\ wfifo'[Len(wfifo) + 1] = emitted + 1
    BY <1>1, <1>2, AppendProperties
  <1>4. \A i \in 1 .. Len(wfifo') : wfifo'[i] = emitted' - Len(wfifo') + i
    BY <1>1, <1>2, <1>3
  <1>5. Stored' = Stored /\ Len(wbuf) \in Nat
    BY <1>1, <1>2, <1>3 DEF Stored, memvars, WriteInv
  <1>6. Len(wfifo') <= DEPTH /\ N' \in Nat /\ emitted' \in 0 .. N'
    BY <1>1, <1>2, <1>3, TcdAssumption
  <1> QED BY <1>1, <1>3, <1>4, <1>5, <1>6, SMTT(20) DEF WriteInv, wvars, memvars

\* The beat counter wraps with the burst.
LEMMA BeatCount ==
    ASSUME NEW bl \in Nat \ {0}, NEW d \in Nat, NEW d2 \in Nat, NEW c, NEW w \in BOOLEAN,
           NEW full \in BOOLEAN, c = bl-1 - (d % bl),
           d2 = d + Beats(w) - (IF full THEN bl ELSE 0)
    PROVE  (c - Beats(w)) % bl = bl-1 - (d2 % bl)
  <1> DEFINE m == d % bl
  <1>1. m \in 0 .. bl-1 /\ c = bl-1 - m
    BY DivMod
  <1>2. (d + 1) % bl = IF m = bl-1 THEN 0 ELSE m + 1
    BY ModStep
  <1>3. d2 % bl = (d + Beats(w)) % bl
    <2>1. CASE full
      <3>1. d + Beats(w) = d2 + bl
        BY <2>1 DEF Beats
      <3>2. (d2 + bl) % bl = d2 % bl
        BY ModPlus
      <3> QED BY <3>1, <3>2
    <2>2. CASE ~full
      <3>1. d + Beats(w) = d2
        BY <2>2 DEF Beats
      <3> QED BY <3>1
    <2> QED BY <2>1, <2>2
  <1>4. CASE ~w
    <2>1. c = bl * 0 + c /\ c \in 0 .. bl-1
      BY <1>1
    <2>2. c % bl = c
      BY <2>1, ModIs
    <2>3. d2 % bl = m
      BY <1>3, <1>4 DEF Beats
    <2> HIDE DEF m
    <2> QED BY <1>1, <1>4, <2>2, <2>3 DEF Beats
  <1>5. CASE w
    <2>1. CASE m = bl-1
      <3>1. c - 1 \in Int /\ c - 1 = bl * (-1) + (bl-1) /\ bl-1 \in 0 .. bl-1 /\ -1 \in Int
        BY <1>1, <2>1
      <3>2. (c - 1) % bl = bl-1
        BY <3>1, ModIs
      <3>3. d2 % bl = 0
        BY <1>2, <1>3, <1>5, <2>1 DEF Beats
      <3> QED BY <1>5, <3>2, <3>3 DEF Beats
    <2>2. CASE m # bl-1
      <3>1. c - 1 = bl * 0 + (c - 1) /\ c - 1 \in 0 .. bl-1
        BY <1>1, <2>2
      <3>2. (c - 1) % bl = c - 1
        BY <3>1, ModIs
      <3>3. d2 % bl = m + 1
        BY <1>2, <1>3, <1>5, <2>2 DEF Beats
      <3> HIDE DEF m
      <3> QED BY <1>1, <1>5, <3>2, <3>3 DEF Beats
    <2> QED BY <2>1, <2>2
  <1> QED BY <1>4, <1>5

\* The beat counters follow the queues, whichever handshakes meet on an edge.
LEMMA WriteMAxi ==
    ASSUME WriteInv, NEW aw \in BOOLEAN, NEW w \in BOOLEAN, NEW b \in BOOLEAN,
           NEW ar \in BOOLEAN, NEW r \in BOOLEAN, MAxi(aw, w, b, ar, r)
    PROVE  WriteInv'
  <1> USE DEF Beats, BurstIf
  <1>1. /\ BURST_LEN \in Nat /\ BURST_LEN > 2 /\ BURSTS \in Nat \ {0} /\ DEPTH \in Nat
        /\ Early \in Nat
    BY TcdAssumption
  <1>2. /\ wfifo \in Seq(Nat) /\ Len(wfifo) \in Nat /\ Len(wfifo) <= DEPTH
        /\ Len(wbuf) \in Nat /\ Len(awq) \in Nat
        /\ bs \in Nat /\ N \in Nat /\ emitted \in 0 .. N /\ Len(awq) <= 2 /\ Stored >= 0
        /\ (Len(awq) > 0 => Len(wbuf) < BURST_LEN)
        /\ (Len(awq) = 2 => Len(wbuf) > 0)
        /\ Len(wbuf) <= BURST_LEN * Len(awq) + Early
        /\ wch_dbeats = BURST_LEN * Len(awq) - Len(wbuf)
        /\ wch_burstc = BURST_LEN-1 - (Len(wbuf) % BURST_LEN)
        /\ m_axi_awaddr_i \in 0 .. BURSTS-1
    BY DEF WriteInv
  <1>3. /\ m_axi_awaddr_i' = IF aw THEN inc(m_axi_awaddr_i) ELSE m_axi_awaddr_i
        /\ wch_dbeats' = wch_dbeats + BURST_LEN * Beats(aw) - Beats(w)
        /\ wch_burstc' = (wch_burstc - Beats(w)) % BURST_LEN
    BY DEF MAxi, MAxiClock, m_axi_aw, m_axi_w
  <1>4. /\ emitted' = emitted /\ N' = N
        /\ wfifo' \in Seq(Nat) /\ Len(wfifo') = Len(wfifo) - Beats(w)
        /\ \A i \in 1 .. Len(wfifo') : wfifo'[i] = emitted - Len(wfifo') + i
        /\ awq' \in Seq(0 .. BURSTS-1)
        /\ Len(awq') = Len(awq) + Beats(aw) - Beats(Full(aw, w))
        /\ wbuf' \in Seq(Int \X BOOLEAN)
        /\ Len(wbuf') = Len(wbuf) + Beats(w) - BurstIf(Full(aw, w))
        /\ Stored' = Stored + BurstIf(Full(aw, w))
        /\ \A i \in 1 .. Len(wbuf') :
              wbuf'[i][1] = Stored' + i /\ (wbuf'[i][2] <=> i % BURST_LEN = 0)
    <2>1. WriteEffect(aw, w, b)
      BY WriteShape
    <2> QED BY <2>1, Zenon DEF WriteEffect
  <1>5. /\ ~Full(aw, w) => mem' = mem
        /\ Full(aw, w) =>
              mem' = [mem EXCEPT ![Addresses(aw)[1]] = SubSeq(Data(w), 1, BURST_LEN)]
        /\ bs' = bs + Beats(Full(aw, w)) - Beats(b) /\ (b => bs > 0)
        /\ w => Len(wfifo) > 0 /\ Len(wbuf) < BURST_LEN * Len(awq) + Early
        /\ aw => m_axi_awvalid_i
    <2>1. WriteEffect(aw, w, b)
      BY WriteShape
    <2> QED BY <2>1, Zenon DEF WriteEffect
  <1>6. /\ Full(aw, w) <=> Len(awq) + Beats(aw) > 0 /\ Len(wbuf) + Beats(w) >= BURST_LEN
        /\ Addresses(aw) \in Seq(0 .. BURSTS-1)
        /\ Len(Addresses(aw)) = Len(awq) + Beats(aw)
        /\ Data(w) \in Seq(Int \X BOOLEAN) /\ Len(Data(w)) = Len(wbuf) + Beats(w)
        /\ \A i \in 1 .. Len(Data(w)) :
              Data(w)[i][1] = Stored + i /\ (Data(w)[i][2] <=> i % BURST_LEN = 0)
    BY <1>5, AddressesShape, DataShape DEF Full
  <1>7. /\ Len(awq') \in Nat /\ Len(wbuf') \in Nat /\ Len(wfifo') \in Nat
        /\ BURST_LEN * Len(awq) \in Int /\ BURST_LEN * Len(awq') \in Int
        /\ wch_dbeats' = wch_dbeats + BurstIf(aw) - Beats(w)
        /\ aw => wch_dbeats < BURST_LEN - 2
    <2>1. Len(awq') \in Nat /\ Len(wbuf') \in Nat /\ Len(wfifo') \in Nat
      BY <1>4
    <2>2. BURST_LEN * Beats(aw) = BurstIf(aw)
      BY <1>1
    <2>3. aw => wch_dbeats < BURST_LEN - 2
      BY <1>5 DEF m_axi_awvalid_i
    <2> QED BY <1>1, <1>2, <1>3, <2>1, <2>2, <2>3
  <1>8. /\ Len(awq') <= 2 /\ (Len(awq') > 0 => Len(wbuf') < BURST_LEN)
        /\ Len(awq') = 2 => Len(wbuf') > 0
        /\ Len(wbuf') <= BURST_LEN * Len(awq') + Early
        /\ wch_dbeats' = BURST_LEN * Len(awq') - Len(wbuf')
    <2> DEFINE a == Len(awq)
               d == Len(wbuf)
               a2 == Len(awq')
               d2 == Len(wbuf')
               full == Full(aw, w)
    <2>1. /\ a \in Nat /\ a <= 2 /\ d \in Nat /\ (a > 0 => d < BURST_LEN) /\ (a = 2 => d > 0)
          /\ d <= BURST_LEN * a + Early /\ wch_dbeats = BURST_LEN * a - d
      BY <1>2
    <2>2. /\ a2 \in Nat /\ a2 = a + Beats(aw) - Beats(full)
          /\ d2 \in Nat /\ d2 = d + Beats(w) - BurstIf(full)
      BY <1>4, <1>7
    <2>3. /\ full <=> a + Beats(aw) > 0 /\ d + Beats(w) >= BURST_LEN
          /\ w => d < BURST_LEN * a + Early
          /\ aw => wch_dbeats < BURST_LEN - 2
          /\ wch_dbeats' = wch_dbeats + BurstIf(aw) - Beats(w)
      BY <1>5, <1>6, <1>7
    <2> HIDE DEF a, d, a2, d2, full
    <2>4. /\ a2 <= 2 /\ (a2 > 0 => d2 < BURST_LEN) /\ (a2 = 2 => d2 > 0)
          /\ d2 <= BURST_LEN * a2 + Early /\ wch_dbeats' = BURST_LEN * a2 - d2
      <3>1. a = 0 \/ a = 1 \/ a = 2
        BY <2>1
      <3>2. CASE a = 0
        BY <1>1, <2>1, <2>2, <2>3, <3>2
      <3>3. CASE a = 1
        BY <1>1, <2>1, <2>2, <2>3, <3>3
      <3>4. CASE a = 2
        BY <1>1, <2>1, <2>2, <2>3, <3>4
      <3> QED BY <3>1, <3>2, <3>3, <3>4
    <2> QED BY <2>4 DEF a2, d2
  <1>9. /\ bs' \in Nat /\ N' \in Nat /\ emitted' \in 0 .. N'
        /\ Len(wfifo') <= DEPTH /\ Stored' >= 0
    <2>1. Stored \in Int
      BY <1>2 DEF Stored
    <2>2. Stored' >= 0
      BY <1>1, <1>2, <1>4, <2>1
    <2>3. Len(wfifo') <= DEPTH
      BY <1>1, <1>2, <1>4
    <2>4. bs' \in Nat
      BY <1>2, <1>5
    <2> QED BY <1>2, <1>4, <2>2, <2>3, <2>4
  <1>10. wch_burstc' = BURST_LEN-1 - (Len(wbuf') % BURST_LEN)
    <2> DEFINE d == Len(wbuf)
               d2 == Len(wbuf')
               full == Full(aw, w)
    <2>1. wch_burstc' = (wch_burstc - Beats(w)) % BURST_LEN
      BY <1>3
    <2>2. /\ d2 = d + Beats(w) - (IF full THEN BURST_LEN ELSE 0) /\ d \in Nat /\ d2 \in Nat
          /\ wch_burstc = BURST_LEN-1 - (d % BURST_LEN)
      BY <1>2, <1>4, <1>7
    <2>3. BURST_LEN \in Nat \ {0} /\ full \in BOOLEAN
      BY <1>1 DEF Full
    <2> HIDE DEF d, d2, full, Beats, BurstIf
    <2>4. (wch_burstc - Beats(w)) % BURST_LEN = BURST_LEN-1 - (d2 % BURST_LEN)
      BY <2>2, <2>3, BeatCount
    <2> QED BY <2>1, <2>4 DEF d2
  <1>11. m_axi_awaddr_i' \in 0 .. BURSTS-1
    BY <1>1, <1>2, <1>3, IncIs
  <1>12. /\ mem' \in [0 .. BURSTS-1 -> [1 .. BURST_LEN -> Int \X BOOLEAN]]
         /\ \A a \in 0 .. BURSTS-1 : \A i \in 1 .. BURST_LEN :
               mem'[a][i][2] <=> i = BURST_LEN \/ mem'[a][i][1] = -1
    <2>1. /\ mem \in [0 .. BURSTS-1 -> [1 .. BURST_LEN -> Int \X BOOLEAN]]
          /\ \A a \in 0 .. BURSTS-1 : \A i \in 1 .. BURST_LEN :
                mem[a][i][2] <=> i = BURST_LEN \/ mem[a][i][1] = -1
      BY DEF WriteInv
    <2>2. CASE ~Full(aw, w)
      BY <1>5, <2>1, <2>2
    <2>3. CASE Full(aw, w)
      <3> DEFINE s == SubSeq(Data(w), 1, BURST_LEN)
      <3>1. Len(Data(w)) \in Nat /\ Len(Data(w)) >= BURST_LEN
        BY <1>6, <2>3 DEF Full
      <3>2. 1 \in 1 .. Len(Data(w))+1 /\ BURST_LEN \in 1-1 .. Len(Data(w))
        BY <1>1, <3>1
      <3>3. /\ s \in Seq(Int \X BOOLEAN) /\ Len(s) = BURST_LEN
            /\ \A i \in 1 .. BURST_LEN : s[i] = Data(w)[i]
        <4>1. /\ s \in Seq(Int \X BOOLEAN)
              /\ Len(s) = IF 1 <= BURST_LEN THEN BURST_LEN - 1 + 1 ELSE 0
              /\ \A i \in 1 .. BURST_LEN - 1 + 1 : s[i] = Data(w)[1 + i - 1]
          BY <1>6, <3>2, SubSeqProperties
        <4>2. BURST_LEN - 1 + 1 = BURST_LEN /\ 1 <= BURST_LEN /\ \A i \in Int : 1 + i - 1 = i
          BY <1>1
        <4> QED BY <4>1, <4>2
      <3>4. s \in [1 .. BURST_LEN -> Int \X BOOLEAN]
        <4> HIDE DEF s
        <4> QED BY <3>3
      <3>5. ASSUME NEW i \in 1 .. BURST_LEN
            PROVE  (s[i][2] <=> i = BURST_LEN) /\ s[i][1] # -1
        <4>1. i \in 1 .. Len(Data(w)) /\ i \in Nat
          BY <1>1, <3>1
        <4>2. Data(w)[i][1] = Stored + i /\ (Data(w)[i][2] <=> i % BURST_LEN = 0)
          BY <1>6, <4>1
        <4>3. i % BURST_LEN = 0 <=> i = BURST_LEN
          <5>1. CASE i = BURST_LEN
            <6>1. i = BURST_LEN * 1 + 0 /\ BURST_LEN \in Nat \ {0} /\ 0 \in 0 .. BURST_LEN-1
              BY <1>1, <5>1
            <6> QED BY <4>1, <5>1, <6>1, ModIs
          <5>2. CASE i # BURST_LEN
            <6>1. i = BURST_LEN * 0 + i /\ BURST_LEN \in Nat \ {0} /\ i \in 0 .. BURST_LEN-1
              BY <1>1, <5>2
            <6>2. i % BURST_LEN = i
              BY <4>1, <6>1, ModIs
            <6> QED BY <5>2, <6>2
          <5> QED BY <5>1, <5>2
        <4>4. Stored \in Int /\ Stored + i # -1
          BY <1>2, <4>1 DEF Stored
        <4>5. s[i] = Data(w)[i]
          BY <3>3
        <4> HIDE DEF s
        <4> QED BY <4>2, <4>3, <4>4, <4>5
      <3>6. Addresses(aw)[1] \in 0 .. BURSTS-1
        <4>1. Len(Addresses(aw)) > 0 /\ Len(Addresses(aw)) \in Nat
          BY <1>6, <2>3 DEF Full
        <4>2. ASSUME NEW S, NEW q \in Seq(S), Len(q) > 0 PROVE q[1] \in S
          BY <4>2
        <4>3. Addresses(aw) \in Seq(0 .. BURSTS-1)
          BY <1>6
        <4> QED BY <4>1, <4>2, <4>3
      <3> HIDE DEF s
      <3>7. mem' = [mem EXCEPT ![Addresses(aw)[1]] = s]
        BY <1>5, <2>3 DEF s
      <3> QED BY <2>1, <3>4, <3>5, <3>6, <3>7
    <2> QED BY <2>2, <2>3
  <1> QED BY <1>4, <1>8, <1>9, <1>10, <1>11, <1>12 DEF WriteInv

LEMMA WriteNext == ASSUME WriteInv, [Next]_vars PROVE WriteInv'
  <1>1. CASE SAxisEdge
    BY <1>1, WriteSAxis
  <1>2. CASE MAxiEdge
    BY <1>2, WriteMAxi DEF MAxiEdge
  <1>3. ASSUME UNCHANGED <<wfifo, wvars, emitted, memvars, N>> PROVE WriteInv'
    BY <1>3 DEF WriteInv, Stored, wvars, memvars
  <1>4. CASE SAxiEdge
    BY <1>3, <1>4 DEF SAxiEdge, SAxi, SAxiClock, trace_capture
  <1>5. CASE Call
    BY <1>3, <1>5 DEF Call
  <1>6. CASE UNCHANGED vars
    BY <1>3, <1>6 DEF vars, swvars
  <1> QED BY <1>1, <1>2, <1>4, <1>5, <1>6 DEF Next

\* The write path of axi_tcd.vhd keeps the entries in order and whole from the
\* event to the memory, for any order in which the memory takes addresses and data.
THEOREM WriteOrder == Spec => []WriteInv
  BY WriteInit, WriteNext, PTL DEF Spec

\* The flush events push the real entries out of the FIFO, the last Unflushed
\* excepted (FlushReaches), for every number of data beats the memory takes ahead
\* of their address: a quiet write channel has fewer than a burst of entries in the
\* FIFO, since an address is offered whenever a burst is there, and at most Early
\* before them.  FlushComplete says that none is left: false for Early > 1.
THEOREM Flushed == Spec => []FlushReaches
  <1>1. ASSUME WriteInv PROVE FlushReaches
    <2> SUFFICES ASSUME emitted = N, ~m_axi_awvalid_i, ~forward_sync, awq = <<>>
                 PROVE  /\ \A i \in 1 .. Len(wfifo) : wfifo[i] > Real - Unflushed
                        /\ \A i \in 1 .. Len(wbuf) : wbuf[i][1] > Real - Unflushed
      BY DEF FlushReaches
    <2>1. /\ wfifo \in Seq(Nat) /\ N \in Nat /\ BURST_LEN \in Nat /\ BURST_LEN > 2
          /\ Early \in Nat /\ wbuf \in Seq(Int \X BOOLEAN)
          /\ \A i \in 1 .. Len(wfifo) : wfifo[i] = emitted - Len(wfifo) + i
          /\ \A i \in 1 .. Len(wbuf) : wbuf[i][1] = Stored + i
          /\ Len(wbuf) <= BURST_LEN * Len(awq) + Early
          /\ wch_dbeats = BURST_LEN * Len(awq) - Len(wbuf)
      BY TcdAssumption, <1>1 DEF WriteInv
    <2>2. Len(awq) = 0 /\ Len(wfifo) \in Nat /\ Len(wbuf) \in Nat
      BY <2>1
    <2>3. Len(wbuf) <= Early /\ wch_dbeats <= 0 /\ wch_dbeats < BURST_LEN - 2
      BY <2>1, <2>2
    <2>4. Len(wfifo) < BURST_LEN
      BY <2>1, <2>2, <2>3 DEF m_axi_awvalid_i, m_fifo_wch_pempty
    <2>5. Unflushed \in Nat /\ (Len(wbuf) > 0 => Len(wbuf) <= Unflushed + 1)
      BY <2>1, <2>2, <2>3 DEF Unflushed
    <2>6. ASSUME NEW i \in 1 .. Len(wfifo) PROVE wfifo[i] > Real - Unflushed
      BY <2>1, <2>2, <2>4, <2>5, <2>6 DEF Real
    <2>7. ASSUME NEW i \in 1 .. Len(wbuf) PROVE wbuf[i][1] > Real - Unflushed
      <3>1. wbuf[i][1] = N - Len(wfifo) - Len(wbuf) + i
        BY <2>1, <2>7 DEF Stored
      <3> QED BY <2>1, <2>2, <2>4, <2>5, <3>1 DEF Real
    <2> QED BY <2>6, <2>7
  <1> QED BY <1>1, WriteOrder, PTL
-----------------------------------------------------------------------------
(* Places in the ring *)

LEMMA SlotRange ==
    ASSUME NEW c \in 0 .. BURSTS-1, NEW j \in 0 .. BURSTS
    PROVE  Slot(c, j) \in 0 .. BURSTS-1 /\ (Slot(c, j) = c <=> j = 0 \/ j = BURSTS)
  BY TcdAssumption DEF Slot

LEMMA SlotInc ==
    ASSUME NEW c \in 0 .. BURSTS-1, NEW j \in 0 .. BURSTS-1
    PROVE  inc(Slot(c, j)) = Slot(c, j + 1) /\ Slot(inc(c), j) = Slot(c, j + 1)
  <1>1. BURSTS \in Nat \ {0} /\ Slot(c, j) \in 0 .. BURSTS-1
    BY TcdAssumption, SlotRange
  <1>2. inc(Slot(c, j)) = IF Slot(c, j) + 1 < BURSTS THEN Slot(c, j) + 1 ELSE 0
    BY <1>1, IncIs
  <1>3. inc(c) = IF c + 1 < BURSTS THEN c + 1 ELSE 0
    BY IncIs
  <1> QED BY <1>1, <1>2, <1>3 DEF Slot

LEMMA SlotInjective ==
    ASSUME NEW c \in 0 .. BURSTS-1, NEW j \in 0 .. BURSTS, NEW k \in 0 .. BURSTS,
           Slot(c, j) = Slot(c, k), j < k
    PROVE  j = 0 /\ k = BURSTS
  BY TcdAssumption DEF Slot

\* last_wr tells a full ring from an empty one, last_rd a read ring from one with
\* bursts to read.
LEMMA FullEmpty ==
    ASSUME WriteInv, NEW used, Places(used)
    PROVE  (mem_full <=> used = BURSTS) /\ (mem_empty <=> Ready(used) = 0)
  <1>1. /\ used \in 0 .. BURSTS /\ comp_araddr \in 0 .. BURSTS-1
        /\ m_axi_awaddr_i = Slot(comp_araddr, used)
        /\ comp_awaddr = Slot(comp_araddr, used - Len(awq) - bs)
        /\ m_axi_araddr_i = Slot(comp_araddr, Len(arq))
        /\ (used = 0 => ~last_wr) /\ (used = BURSTS => last_wr)
        /\ (Ready(used) = 0 => last_rd) /\ (Ready(used) = BURSTS => ~last_rd)
        /\ Len(arq) \in Nat /\ Len(awq) \in Nat /\ bs \in Nat /\ Ready(used) >= 0
    BY DEF Places, WriteInv, At
  <1>2. mem_full <=> used = BURSTS
    BY <1>1, SlotRange DEF mem_full
  <1>3. mem_empty <=> Ready(used) = 0
    <2> DEFINE x == used - Len(awq) - bs
               y == Len(arq)
    <2>1. /\ BURSTS \in Nat /\ x \in 0 .. BURSTS /\ y \in 0 .. BURSTS /\ y <= x
          /\ Ready(used) = x - y
      BY <1>1, TcdAssumption DEF Ready
    <2>2. mem_empty <=> Slot(comp_araddr, y) = Slot(comp_araddr, x) /\ last_rd
      BY <1>1 DEF mem_empty
    <2> HIDE DEF x, y
    <2>3. CASE y = x
      BY <1>1, <2>1, <2>2, <2>3
    <2>4. CASE y < x
      BY <1>1, <2>1, <2>2, <2>4, SlotInjective
    <2> QED BY <2>1, <2>3, <2>4
  <1> QED BY <1>2, <1>3

\* The oldest burst held leaves the ring: its last beat is read, or, while nothing
\* is forwarded, the program is too late for it.
Shift(aw, r) == IF forward_sync THEN r /\ LastBeat ELSE aw /\ mem_full

LEMMA RingGuards ==
    ASSUME WriteInv, Quiet, NEW used, Places(used), Reading, Outstanding < BURSTS,
           NEW aw \in BOOLEAN, NEW w \in BOOLEAN, NEW b \in BOOLEAN,
           NEW ar \in BOOLEAN, NEW r \in BOOLEAN, MAxi(aw, w, b, ar, r)
    PROVE  /\ ar => forward_sync /\ Ready(used) > 0 /\ Len(arq) < 2
           /\ r => forward_sync /\ Len(arq) > 0
           /\ aw /\ used = BURSTS => ~forward_sync /\ Shift(aw, r)
           /\ Shift(aw, r) /\ ~(r /\ LastBeat) =>
                /\ ~forward_sync /\ aw /\ ~ar /\ ~r /\ used = BURSTS /\ Len(arq) = 0
                /\ Ready(used) >= 2
           /\ r /\ LastBeat => Shift(aw, r)
  <1>1. /\ used \in 0 .. BURSTS /\ Len(awq) \in Nat /\ bs \in Nat /\ Len(arq) \in Nat
        /\ Ready(used) >= 0 /\ Ready(used) \in Int /\ BURSTS \in Nat /\ Outstanding \in Nat
    <2>1. used \in 0 .. BURSTS /\ Len(arq) \in Nat /\ Ready(used) >= 0
      BY DEF Places
    <2>2. Len(awq) \in Nat /\ bs \in Nat
      BY DEF WriteInv
    <2>3. BURSTS \in Nat /\ Outstanding \in Nat
      BY TcdAssumption
    <2> QED BY <2>1, <2>2, <2>3 DEF Ready
  <1>2. /\ aw => Len(awq) + bs < Outstanding /\ (~mem_full \/ ~forward_sync)
        /\ ar => rch_dbeats < BURST_LEN-2 /\ ~mem_empty /\ forward_sync
        /\ r => arq # <<>>
    BY DEF MAxi, MAxiClock, TakesAddress, m_axi_awvalid_i, m_axi_arvalid_i
  <1>3. ar => forward_sync /\ Ready(used) > 0
    BY <1>1, <1>2, FullEmpty
  <1>4. ar => Len(arq) < 2
    <2>1. /\ rch_dbeats = BURST_LEN * Len(arq) - (rbeat - 1) /\ rbeat \in 1 .. BURST_LEN
          /\ Len(arq) <= 2 /\ BURST_LEN \in Nat
      BY TcdAssumption DEF Reading
    <2>2. CASE Len(arq) = 2
      <3>1. rch_dbeats = 2 * BURST_LEN - (rbeat - 1)
        BY <2>1, <2>2
      <3> QED BY <1>2, <2>1, <3>1
    <2>3. ASSUME NEW x \in Nat, x <= 2, x # 2 PROVE x < 2
      BY <2>3
    <2> QED BY <1>1, <2>1, <2>2, <2>3
  <1>5. r => forward_sync /\ Len(arq) > 0
    <2>1. r => Len(arq) > 0
      BY <1>1, <1>2 DEF Places
    <2> QED BY <1>1, <2>1 DEF Quiet
  <1>6. aw /\ used = BURSTS => ~forward_sync /\ Shift(aw, r)
    BY <1>2, FullEmpty DEF Shift
  <1>7. r /\ LastBeat => Shift(aw, r)
    BY <1>5 DEF Shift
  <1>8. Shift(aw, r) /\ ~(r /\ LastBeat) =>
                /\ ~forward_sync /\ aw /\ ~ar /\ ~r /\ used = BURSTS /\ Len(arq) = 0
                /\ Ready(used) >= 2
    <2> SUFFICES ASSUME Shift(aw, r), ~(r /\ LastBeat)
                 PROVE  /\ ~forward_sync /\ aw /\ ~ar /\ ~r /\ used = BURSTS /\ Len(arq) = 0
                        /\ Ready(used) >= 2
      OBVIOUS
    <2>1. ~forward_sync /\ aw /\ used = BURSTS
      BY FullEmpty DEF Shift
    <2>2. ~ar /\ ~r /\ Len(arq) = 0
      BY <1>3, <1>5, <2>1 DEF Quiet
    <2>3. Ready(used) >= 2
      BY <1>1, <1>2, <2>1, <2>2 DEF Ready
    <2> QED BY <2>1, <2>2, <2>3
  <1> QED BY <1>3, <1>4, <1>5, <1>6, <1>7, <1>8

\* What an edge of the memory clock does to the read queue.
Asked(ar) == IF ar THEN Append(arq, m_axi_araddr_i) ELSE arq

LEMMA ReadShape ==
    ASSUME WriteInv, Quiet, NEW used, Places(used), Reading, Outstanding < BURSTS,
           NEW aw \in BOOLEAN, NEW w \in BOOLEAN, NEW b \in BOOLEAN,
           NEW ar \in BOOLEAN, NEW r \in BOOLEAN, MAxi(aw, w, b, ar, r)
    PROVE  /\ arq' \in Seq(0 .. BURSTS-1)
           /\ Len(arq') = Len(arq) + Beats(ar) - Beats(r /\ LastBeat)
           /\ \A k \in 1 .. Len(arq') : arq'[k] = At(k - 1 + Beats(r /\ LastBeat))
           /\ rbeat' = IF r THEN (IF LastBeat THEN 1 ELSE rbeat + 1) ELSE rbeat
           /\ rch_dbeats' = rch_dbeats + (IF ar THEN BURST_LEN ELSE 0) - Beats(r)
  <1> USE DEF Beats
  <1>1. /\ arq \in Seq(0 .. BURSTS-1) /\ \A k \in 1 .. Len(arq) : arq[k] = At(k - 1)
        /\ m_axi_araddr_i = At(Len(arq)) /\ comp_araddr \in 0 .. BURSTS-1
        /\ used \in 0 .. BURSTS /\ Len(awq) \in Nat /\ bs \in Nat /\ Ready(used) >= 0
        /\ BURST_LEN \in Nat /\ BURST_LEN > 2 /\ BURSTS \in Nat /\ rbeat \in 1 .. BURST_LEN
    BY TcdAssumption DEF Places, WriteInv, Reading
  <1>2. Len(arq) \in 0 .. BURSTS
    BY <1>1 DEF Ready
  <1>3. m_axi_araddr_i \in 0 .. BURSTS-1
    BY <1>1, <1>2, SlotRange DEF At
  <1>4. /\ ar => forward_sync
        /\ r => forward_sync /\ Len(arq) > 0
    BY RingGuards
  <1>5. /\ arq' = IF r /\ LastBeat THEN Tail(Asked(ar)) ELSE Asked(ar)
        /\ rbeat' = IF r THEN (rbeat % BURST_LEN) + 1 ELSE rbeat
        /\ rch_dbeats' = IF forward_sync THEN rch_dbeats + BURST_LEN * Beats(ar) - Beats(r)
                         ELSE rch_dbeats
    <2>1. MemoryRead(ar, r) /\ m_axi_ar(aw, ar, r)
      BY DEF MAxi, MAxiClock
    <2> QED BY <2>1 DEF MemoryRead, m_axi_ar, Asked
  <1>6. /\ Asked(ar) \in Seq(0 .. BURSTS-1) /\ Len(Asked(ar)) = Len(arq) + Beats(ar)
        /\ \A k \in 1 .. Len(Asked(ar)) : Asked(ar)[k] = At(k - 1)
    <2>1. CASE ar
      <3>1. /\ Asked(ar) \in Seq(0 .. BURSTS-1) /\ Len(Asked(ar)) = Len(arq) + 1
            /\ \A k \in 1 .. Len(arq) : Asked(ar)[k] = arq[k]
            /\ Asked(ar)[Len(arq) + 1] = m_axi_araddr_i
        BY <1>1, <1>3, <2>1, AppendProperties DEF Asked
      <3>2. ASSUME NEW k \in 1 .. Len(Asked(ar)) PROVE Asked(ar)[k] = At(k - 1)
        <4>1. CASE k \in 1 .. Len(arq)
          BY <1>1, <3>1, <4>1
        <4>2. CASE k = Len(arq) + 1
          <5>1. k - 1 = Len(arq)
            BY <1>2, <4>2
          <5> QED BY <1>1, <3>1, <4>2, <5>1
        <4> QED BY <1>2, <3>1, <4>1, <4>2
      <3> QED BY <2>1, <3>1, <3>2
    <2>2. CASE ~ar
      BY <1>1, <2>2 DEF Asked
    <2> QED BY <2>1, <2>2
  <1>7. /\ arq' \in Seq(0 .. BURSTS-1)
        /\ Len(arq') = Len(arq) + Beats(ar) - Beats(r /\ LastBeat)
        /\ \A k \in 1 .. Len(arq') : arq'[k] = At(k - 1 + Beats(r /\ LastBeat))
    <2>1. CASE r /\ LastBeat
      <3>1. Len(Asked(ar)) \in Nat /\ Len(Asked(ar)) > 0
        BY <1>2, <1>4, <1>6, <2>1
      <3>2. /\ arq' \in Seq(0 .. BURSTS-1) /\ Len(arq') = Len(Asked(ar)) - 1
            /\ \A k \in 1 .. Len(arq') : arq'[k] = Asked(ar)[k + 1]
        BY <1>5, <1>6, <2>1, <3>1, HeadTailProperties
      <3>3. ASSUME NEW k \in 1 .. Len(arq') PROVE arq'[k] = At(k - 1 + 1)
        <4>1. k + 1 \in 1 .. Len(Asked(ar)) /\ k + 1 - 1 = k - 1 + 1
          BY <3>1, <3>2
        <4>2. arq'[k] = At(k + 1 - 1)
          BY <1>6, <3>2, <4>1
        <4> QED BY <4>1, <4>2
      <3> QED BY <1>6, <2>1, <3>2, <3>3
    <2>2. CASE ~(r /\ LastBeat)
      <3>1. arq' = Asked(ar) /\ \A k \in 1 .. Len(Asked(ar)) : k - 1 + 0 = k - 1
        BY <1>5, <2>2
      <3> QED BY <1>2, <1>6, <2>2, <3>1
    <2> QED BY <2>1, <2>2
  <1>8. rbeat' = IF r THEN (IF LastBeat THEN 1 ELSE rbeat + 1) ELSE rbeat
    <2>1. CASE LastBeat
      <3>1. rbeat = BURST_LEN * 1 + 0 /\ 0 \in 0 .. BURST_LEN-1 /\ BURST_LEN \in Nat \ {0}
        BY <1>1, <2>1 DEF LastBeat
      <3>2. rbeat % BURST_LEN = 0
        BY <1>1, <3>1, ModIs
      <3> QED BY <1>5, <2>1, <3>2
    <2>2. CASE ~LastBeat
      <3>1. rbeat = BURST_LEN * 0 + rbeat /\ rbeat \in 0 .. BURST_LEN-1 /\ BURST_LEN \in Nat \ {0}
        BY <1>1, <2>2 DEF LastBeat
      <3>2. rbeat % BURST_LEN = rbeat
        BY <1>1, <3>1, ModIs
      <3> QED BY <1>5, <2>2, <3>2
    <2> QED BY <2>1, <2>2
  <1>9. rch_dbeats' = rch_dbeats + (IF ar THEN BURST_LEN ELSE 0) - Beats(r)
    <2>1. rch_dbeats \in Int
      BY <1>1, <1>2 DEF Reading
    <2>2. BURST_LEN * Beats(ar) = IF ar THEN BURST_LEN ELSE 0
      BY <1>1
    <2> QED BY <1>1, <1>4, <1>5, <2>1, <2>2
  <1> QED BY <1>7, <1>8, <1>9

LEMMA ReadingMAxi ==
    ASSUME WriteInv, Quiet, NEW used, Places(used), Reading, Outstanding < BURSTS,
           NEW aw \in BOOLEAN, NEW w \in BOOLEAN, NEW b \in BOOLEAN,
           NEW ar \in BOOLEAN, NEW r \in BOOLEAN, MAxi(aw, w, b, ar, r)
    PROVE  Reading'
  <1> USE DEF Beats
  <1> DEFINE n == Len(arq)
             n2 == Len(arq')
  <1>1. /\ n \in Nat /\ n2 \in Nat /\ BURST_LEN \in Nat /\ BURST_LEN > 2
        /\ n <= 2 /\ rbeat \in 1 .. BURST_LEN /\ (n = 0 => rbeat = 1) /\ (n = 2 => rbeat > 1)
        /\ rch_dbeats = BURST_LEN * n - (rbeat - 1)
    BY TcdAssumption, ReadShape DEF Places, Reading
  <1>2. /\ n2 = n + Beats(ar) - Beats(r /\ rbeat = BURST_LEN)
        /\ rbeat' = IF r THEN (IF rbeat = BURST_LEN THEN 1 ELSE rbeat + 1) ELSE rbeat
        /\ rch_dbeats' = rch_dbeats + (IF ar THEN BURST_LEN ELSE 0) - Beats(r)
    BY ReadShape DEF LastBeat
  <1>3. /\ ar => n < 2 /\ rch_dbeats < BURST_LEN - 2
        /\ r => n > 0
    BY RingGuards DEF MAxi, MAxiClock, m_axi_arvalid_i
  <1> HIDE DEF n, n2
  <1>4. /\ n2 <= 2 /\ rbeat' \in 1 .. BURST_LEN /\ (n2 = 0 => rbeat' = 1)
        /\ (n2 = 2 => rbeat' > 1) /\ rch_dbeats' = BURST_LEN * n2 - (rbeat' - 1)
    <2>1. n = 0 \/ n = 1 \/ n = 2
      BY <1>1
    <2>2. CASE n = 0
      BY <1>1, <1>2, <1>3, <2>2
    <2>3. CASE n = 1
      BY <1>1, <1>2, <1>3, <2>3
    <2>4. CASE n = 2
      BY <1>1, <1>2, <1>3, <2>4
    <2> QED BY <2>1, <2>2, <2>3, <2>4
  <1> QED BY <1>4 DEF Reading, n2

\* The addresses that wait for data are those of the newest places, and when the
\* oldest burst leaves every other one comes one place nearer.
LEMMA RingMove ==
    ASSUME WriteInv, NEW used, Places(used),
           NEW aw \in BOOLEAN, NEW w \in BOOLEAN, NEW b \in BOOLEAN,
           NEW ar \in BOOLEAN, NEW r \in BOOLEAN, MAxi(aw, w, b, ar, r)
    PROVE  /\ \A k \in 1 .. Len(awq) + Beats(aw) :
                 Addresses(aw)[k] = Slot(comp_araddr, used - Len(awq) + k - 1)
           /\ comp_araddr' = IF Shift(aw, r) THEN inc(comp_araddr) ELSE comp_araddr
           /\ \A j \in 0 .. BURSTS-1 :
                 Slot(comp_araddr', j) = Slot(comp_araddr, j + Beats(Shift(aw, r)))
  <1> USE DEF Beats
  <1> DEFINE c == comp_araddr
             n == Len(awq)
  <1>1. /\ c \in 0 .. BURSTS-1 /\ m_axi_awaddr_i = Slot(c, used) /\ used \in 0 .. BURSTS
        /\ \A k \in 1 .. n : awq[k] = Slot(c, used - n + k - 1)
    BY DEF Places, At
  <1>2. n \in Nat /\ BURSTS \in Nat
    BY TcdAssumption DEF WriteInv
  <1>3. c' = IF Shift(aw, r) THEN inc(c) ELSE c
    BY DEF MAxi, MAxiClock, m_axi_r, Shift
  <1>4. ASSUME NEW j \in 0 .. BURSTS-1
        PROVE  Slot(c', j) = Slot(c, j + Beats(Shift(aw, r)))
    <2>1. CASE Shift(aw, r)
      BY <1>1, <1>3, <2>1, SlotInc
    <2>2. CASE ~Shift(aw, r)
      BY <1>1, <1>2, <1>3, <2>2
    <2> QED BY <2>1, <2>2
  <1>5. ASSUME NEW k \in 1 .. n + Beats(aw)
        PROVE  Addresses(aw)[k] = Slot(c, used - n + k - 1)
    <2>1. CASE k \in 1 .. n
      BY <1>1, <2>1, AddressesShape
    <2>2. CASE k = n + 1 /\ aw
      <3>1. used - n + k - 1 = used
        BY <1>1, <1>2, <2>2
      <3> QED BY <1>1, <2>2, <3>1, AddressesShape
    <2> QED BY <1>2, <2>1, <2>2
  <1> QED BY <1>3, <1>4, <1>5

\* The next places: used grows by the address taken and shrinks by the burst that
\* leaves.
LEMMA PlacesMAxi ==
    ASSUME WriteInv, Quiet, NEW used, Places(used), Reading, Outstanding < BURSTS,
           NEW aw \in BOOLEAN, NEW w \in BOOLEAN, NEW b \in BOOLEAN,
           NEW ar \in BOOLEAN, NEW r \in BOOLEAN, MAxi(aw, w, b, ar, r),
           NEW used2, used2 = used + Beats(aw) - Beats(Shift(aw, r))
    PROVE  Places(used2)'
  <1> USE DEF Beats
  <1> DEFINE full == Full(aw, w)
             last == r /\ LastBeat
             shift == Shift(aw, r)
             c == comp_araddr
             c2 == comp_araddr'
             n == Len(awq)
             m == Len(arq)
             n2 == Len(awq')
             m2 == Len(arq')
  <1>1. /\ used \in 0 .. BURSTS /\ c \in 0 .. BURSTS-1 /\ BURSTS \in Nat /\ BURSTS > 0
        /\ n \in Nat /\ m \in Nat /\ bs \in Nat /\ n2 \in Nat /\ m2 \in Nat
        /\ n + bs <= Outstanding /\ used - n - bs - m >= 0 /\ Outstanding \in Nat
        /\ (used = 0 => ~last_wr) /\ (used = BURSTS => last_wr)
        /\ (used - n - bs - m = 0 => last_rd) /\ (used - n - bs - m = BURSTS => ~last_rd)
        /\ last_wr \in BOOLEAN /\ last_rd \in BOOLEAN
    <2>1. BURSTS \in Nat /\ BURSTS > 0 /\ Outstanding \in Nat
      BY TcdAssumption
    <2>2. n \in Nat /\ bs \in Nat
      BY DEF WriteInv
    <2>3. n2 \in Nat /\ m2 \in Nat
      <3>1. awq' \in Seq(0 .. BURSTS-1)
        BY WriteShape DEF WriteEffect
      <3>2. arq' \in Seq(0 .. BURSTS-1)
        BY ReadShape
      <3> QED BY <3>1, <3>2
    <2>4. /\ used \in 0 .. BURSTS /\ c \in 0 .. BURSTS-1 /\ m \in Nat /\ n + bs <= Outstanding
          /\ Ready(used) >= 0 /\ last_wr \in BOOLEAN /\ last_rd \in BOOLEAN
          /\ (used = 0 => ~last_wr) /\ (used = BURSTS => last_wr)
          /\ (Ready(used) = 0 => last_rd) /\ (Ready(used) = BURSTS => ~last_rd)
      BY DEF Places
    <2> QED BY <2>1, <2>2, <2>3, <2>4 DEF Ready
  <1>2. /\ m_axi_awaddr_i = Slot(c, used) /\ comp_awaddr = Slot(c, used - n - bs)
        /\ m_axi_araddr_i = Slot(c, m)
    BY DEF Places, At
  <1>3. /\ n2 = n + Beats(aw) - Beats(full) /\ m2 = m + Beats(ar) - Beats(last)
        /\ bs' = bs + Beats(full) - Beats(b) /\ (b => bs > 0)
        /\ aw => n + bs < Outstanding
        /\ \A k \in 1 .. n2 : awq'[k] = Addresses(aw)[k + Beats(full)]
        /\ arq' \in Seq(0 .. BURSTS-1) /\ \A k \in 1 .. m2 : arq'[k] = Slot(c, k - 1 + Beats(last))
    <2>1. WriteEffect(aw, w, b)
      BY WriteShape
    <2>2. /\ n2 = n + Beats(aw) - Beats(full)
          /\ bs' = bs + Beats(full) - Beats(b) /\ (b => bs > 0)
          /\ aw => n + bs < Outstanding
          /\ \A k \in 1 .. n2 : awq'[k] = Addresses(aw)[k + Beats(full)]
      BY <2>1, Zenon DEF WriteEffect
    <2>3. /\ m2 = m + Beats(ar) - Beats(last)
          /\ arq' \in Seq(0 .. BURSTS-1) /\ \A k \in 1 .. m2 : arq'[k] = Slot(c, k - 1 + Beats(last))
      BY ReadShape DEF At
    <2> QED BY <2>2, <2>3
  <1>4. /\ ar => used - n - bs - m > 0
        /\ r => m > 0
        /\ aw /\ used = BURSTS => shift
        /\ shift /\ ~last => /\ ~forward_sync /\ aw /\ ~ar /\ used = BURSTS /\ m = 0
                             /\ used - n - bs - m >= 2
        /\ last => shift /\ forward_sync /\ m > 0
        /\ aw /\ used = BURSTS => ~forward_sync
        /\ ar => forward_sync
    BY RingGuards DEF Ready
  <1>5. /\ full \in BOOLEAN /\ shift \in BOOLEAN /\ last \in BOOLEAN
    BY DEF Full, Shift, LastBeat, mem_full
  <1>6. /\ last_wr' \in BOOLEAN /\ (last_wr' <=> ~last /\ (last_wr \/ aw))
        /\ last_rd' \in BOOLEAN /\ (last_rd' <=> ~b /\ (last_rd \/ ar))
        /\ m_axi_awaddr_i' = IF aw THEN inc(m_axi_awaddr_i) ELSE m_axi_awaddr_i
        /\ comp_awaddr' = IF b THEN inc(comp_awaddr) ELSE comp_awaddr
        /\ c2 = IF shift THEN inc(c) ELSE c
    BY DEF MAxi, MAxiClock, m_axi_l, m_axi_aw, m_axi_b, m_axi_r, Shift
  <1>7. m_axi_araddr_i' = IF ar \/ (shift /\ ~last) THEN inc(m_axi_araddr_i)
                          ELSE m_axi_araddr_i
    <2>1. m_axi_ar(aw, ar, r)
      BY DEF MAxi, MAxiClock
    <2>2. CASE forward_sync
      BY <1>4, <2>1, <2>2 DEF m_axi_ar
    <2>3. CASE ~forward_sync
      <3>1. shift <=> aw /\ mem_full
        BY <2>3 DEF Shift
      <3>2. ~ar /\ ~last
        BY <1>4, <2>3
      <3> QED BY <2>1, <2>3, <3>1, <3>2 DEF m_axi_ar
    <2> QED BY <2>2, <2>3
  <1>0. used2 = used + Beats(aw) - Beats(shift)
    OBVIOUS
  <1> HIDE DEF full, last, shift, c, c2, n, m, n2, m2
  <1>8. /\ used2 \in 0 .. BURSTS /\ c2 \in 0 .. BURSTS-1
        /\ n2 + bs' <= Outstanding /\ used2 - n2 - bs' - m2 >= 0
        /\ (used2 = 0 => ~last_wr') /\ (used2 = BURSTS => last_wr')
        /\ (used2 - n2 - bs' - m2 = 0 => last_rd')
        /\ (used2 - n2 - bs' - m2 = BURSTS => ~last_rd')
        /\ last_wr' \in BOOLEAN /\ last_rd' \in BOOLEAN
    <2>1. c2 \in 0 .. BURSTS-1
      BY <1>1, <1>6, IncIs
    <2>2. used2 \in 0 .. BURSTS /\ (used2 = 0 => ~last_wr') /\ (used2 = BURSTS => last_wr')
      BY <1>0, <1>1, <1>4, <1>5, <1>6
    <2>3. n2 + bs' <= Outstanding
      BY <1>1, <1>3, <1>5
    <2> DEFINE x == used - n - bs - m
               x2 == used2 - n2 - bs' - m2
    <2>4. x2 = x + Beats(b) - Beats(ar) - Beats(shift /\ ~last)
      <3>1. Beats(shift) - Beats(last) = Beats(shift /\ ~last)
        BY <1>4, <1>5
      <3>2. /\ used2 = used + Beats(aw) - Beats(shift)
            /\ n2 = n + Beats(aw) - Beats(full) /\ m2 = m + Beats(ar) - Beats(last)
            /\ bs' = bs + Beats(full) - Beats(b)
            /\ used \in Int /\ n \in Int /\ m \in Int /\ bs \in Int
            /\ \A v : Beats(v) \in Int
        BY <1>0, <1>1, <1>3
      <3> HIDE DEF Beats
      <3> QED BY <3>1, <3>2
    <2>5. /\ x \in Nat /\ (x = 0 => last_rd) /\ (x = BURSTS => ~last_rd) /\ (ar => x > 0)
          /\ (shift /\ ~last => x >= 2 /\ ~ar) /\ x <= BURSTS
      BY <1>1, <1>4
    <2> HIDE DEF x, x2
    <2>6. x2 >= 0 /\ (x2 = 0 => last_rd') /\ (x2 = BURSTS => ~last_rd')
      BY <1>1, <1>5, <1>6, <2>4, <2>5
    <2> QED BY <1>1, <1>6, <2>1, <2>2, <2>3, <2>6 DEF x2
  <1>9. \A j \in 0 .. BURSTS-1 : Slot(c2, j) = Slot(c, j + Beats(shift))
    BY RingMove DEF c, c2, shift
  <1>10. /\ m_axi_awaddr_i' = Slot(c2, used2) /\ comp_awaddr' = Slot(c2, used2 - n2 - bs')
         /\ m_axi_araddr_i' = Slot(c2, m2)
    <2>1. m_axi_awaddr_i' = Slot(c2, used2)
      <3>1. CASE used2 = BURSTS /\ shift
        <4>1. aw /\ used = BURSTS
          BY <1>0, <1>1, <1>4, <3>1
        <4>2. m_axi_awaddr_i = c
          BY <1>1, <1>2, <4>1, SlotRange
        <4>3. Slot(c2, BURSTS) = c2
          BY <1>1, <1>8, SlotRange
        <4> QED BY <1>6, <3>1, <4>1, <4>2, <4>3
      <3>2. CASE used2 < BURSTS
        <4>1. used2 \in 0 .. BURSTS-1 /\ used2 + Beats(shift) = used + Beats(aw)
          BY <1>0, <1>1, <1>5, <1>8, <3>2
        <4>2. Slot(c2, used2) = Slot(c, used + Beats(aw))
          BY <1>9, <4>1
        <4>3. aw => used \in 0 .. BURSTS-1
          <5>0. used \in 0 .. BURSTS /\ BURSTS \in Nat
            BY <1>1
          <5>1. CASE aw /\ used = BURSTS
            <6>1. Beats(aw) = 1 /\ Beats(shift) = 1
              BY <1>4, <5>1
            <6>2. used2 = BURSTS + 1 - 1
              BY <1>0, <5>1, <6>1
            <6>3. used2 = BURSTS
              BY <5>0, <6>2
            <6>4. ~(BURSTS < BURSTS)
              BY <5>0
            <6> QED BY <3>2, <6>3, <6>4
          <5>2. CASE used # BURSTS
            BY <5>0, <5>2
          <5> QED BY <5>1, <5>2
        <4> QED BY <1>1, <1>2, <1>6, <4>2, <4>3, SlotInc
      <3>3. CASE used2 = BURSTS /\ ~shift
        <4>1. c2 = c /\ used2 = used + Beats(aw) /\ (aw => used \in 0 .. BURSTS-1)
          BY <1>0, <1>1, <1>4, <1>6, <3>3
        <4> QED BY <1>1, <1>2, <1>6, <4>1, SlotInc
      <3> QED BY <1>1, <1>8, <3>1, <3>2, <3>3
    <2>2. comp_awaddr' = Slot(c2, used2 - n2 - bs')
      <3> DEFINE x == used - n - bs
                 x2 == used2 - n2 - bs'
      <3>1. /\ x \in 0 .. BURSTS /\ x2 = x + Beats(b) - Beats(shift) /\ x2 >= 0
            /\ (b => x < BURSTS)
        BY <1>0, <1>1, <1>3, <1>5, <1>8, SMTT(20)
      <3>2. comp_awaddr = Slot(c, x)
        BY <1>2
      <3> HIDE DEF x, x2
      <3>3. comp_awaddr' = Slot(c, x + Beats(b))
        BY <1>1, <1>6, <3>1, <3>2, SlotInc
      <3>4. CASE shift
        <4>1. x2 \in 0 .. BURSTS-1 /\ x2 + Beats(shift) = x + Beats(b)
          BY <1>1, <3>1, <3>4
        <4>2. comp_awaddr' = Slot(c2, x2)
          BY <1>9, <3>3, <4>1
        <4> QED BY <4>2 DEF x2
      <3>5. CASE ~shift
        <4>1. comp_awaddr' = Slot(c2, x2)
          BY <1>6, <3>1, <3>3, <3>5
        <4> QED BY <4>1 DEF x2
      <3> QED BY <3>4, <3>5
    <2>3. m_axi_araddr_i' = Slot(c2, m2)
      <3> DEFINE i == IF ar \/ (shift /\ ~last) THEN 1 ELSE 0
      <3>1. /\ m \in 0 .. BURSTS /\ m2 = m + i - Beats(shift) /\ m2 >= 0
            /\ (i = 1 => m < BURSTS) /\ i \in {0, 1}
        <4>1. i - Beats(shift) = Beats(ar) - Beats(last) /\ i \in {0, 1}
          BY <1>4, <1>5
        <4>2. i = 1 => m < BURSTS
          BY <1>1, <1>4
        <4>3. /\ m2 = m + Beats(ar) - Beats(last) /\ m2 \in Nat /\ m \in 0 .. BURSTS
              /\ \A v : Beats(v) \in Int
          BY <1>1, <1>3
        <4> HIDE DEF i, Beats
        <4> QED BY <4>1, <4>2, <4>3
      <3>2. m_axi_araddr_i' = IF i = 1 THEN inc(m_axi_araddr_i) ELSE m_axi_araddr_i
        BY <1>7
      <3> HIDE DEF i
      <3>3. m_axi_araddr_i' = Slot(c, m + i)
        BY <1>1, <1>2, <3>1, <3>2, SlotInc
      <3>4. CASE shift
        <4>1. m2 \in 0 .. BURSTS-1 /\ m2 + Beats(shift) = m + i
          BY <1>1, <3>1, <3>4
        <4> QED BY <1>9, <3>3, <4>1
      <3>5. CASE ~shift
        BY <1>6, <3>1, <3>3, <3>5
      <3> QED BY <3>4, <3>5
    <2> QED BY <2>1, <2>2, <2>3
  <1>11. ASSUME NEW k \in 1 .. n2 PROVE awq'[k] = Slot(c2, used2 - n2 + k - 1)
    <2> DEFINE j == used2 - n2 + k - 1
               i == k + Beats(full)
    <2>1. /\ j \in 0 .. BURSTS-1 /\ j + Beats(shift) = used - n + i - 1
          /\ i \in 1 .. n + Beats(aw) /\ i \in Nat
      BY <1>0, <1>1, <1>3, <1>5, <1>8, SMTT(20)
    <2>2. awq'[k] = Addresses(aw)[i]
      BY <1>3
    <2> HIDE DEF j, i
    <2>3. Addresses(aw)[i] = Slot(c, used - n + i - 1)
      BY <2>1, RingMove DEF c, n
    <2>4. awq'[k] = Slot(c2, j)
      BY <1>9, <2>1, <2>2, <2>3
    <2> QED BY <2>4 DEF j
  <1>12. ASSUME NEW k \in 1 .. m2 PROVE arq'[k] = Slot(c2, k - 1)
    <2>1. shift => last
      BY <1>1, <1>3, <1>4, <1>5, SMTT(20)
    <2>2. Beats(shift) = Beats(last)
      BY <1>4, <1>5, <2>1
    <2>3. k - 1 \in 0 .. BURSTS-1
      <3>1. m2 <= used2 /\ used2 <= BURSTS /\ used2 \in Nat /\ m2 \in Nat
        <4>1. bs' \in Nat
          BY <1>1, <1>3, <1>5
        <4>2. /\ n2 \in Nat /\ m2 \in Nat /\ used2 \in 0 .. BURSTS /\ BURSTS \in Nat
              /\ used2 - n2 - bs' - m2 >= 0
          BY <1>1, <1>8
        <4> HIDE <1>0
        <4> QED BY <4>1, <4>2
      <3> QED BY <1>1, <3>1
    <2> QED BY <1>3, <1>9, <2>2, <2>3
  <1> QED BY <1>3, <1>8, <1>10, <1>11, <1>12
          DEF Places, At, Ready, c2, n2, m2

-----------------------------------------------------------------------------
(* Entries in the ring *)

\* Once everything is over no address is offered.
LEMMA OverQuiet == Over => ~m_axi_awvalid_i /\ ~m_axi_arvalid_i /\ awq = <<>> /\ arq = <<>>
  BY DEF Over, Drained, m_axi_awvalid_i, m_axi_arvalid_i

LEMMA EntriesMAxi ==
    ASSUME WriteInv, Quiet, NEW used, Places(used), Reading, Outstanding < BURSTS,
           NEW old, Entries(used, old),
           NEW aw \in BOOLEAN, NEW w \in BOOLEAN, NEW b \in BOOLEAN,
           NEW ar \in BOOLEAN, NEW r \in BOOLEAN, MAxi(aw, w, b, ar, r),
           NEW used2, used2 = used + Beats(aw) - Beats(Shift(aw, r)),
           NEW old2, old2 = old + BurstIf(Shift(aw, r))
    PROVE  Entries(used2, old2)'
  <1> USE DEF Beats, BurstIf
  <1>0. w => Len(wfifo) > 0
    <2>1. w => wfifo # <<>>
      BY DEF MAxi, MAxiClock, m_axi_wvalid_i
    <2>2. wfifo \in Seq(Nat)
      BY DEF WriteInv
    <2> QED BY <2>1, <2>2
  <1> DEFINE full == Full(aw, w)
             shift == Shift(aw, r)
             last == r /\ LastBeat
             c == comp_araddr
             c2 == comp_araddr'
             y == used - Len(awq)
             y2 == used2 - Len(awq')
  <1>1. /\ BURST_LEN \in Nat /\ BURST_LEN > 2 /\ BURSTS \in Nat /\ old \in Nat
        /\ used \in 0 .. BURSTS /\ Len(awq) \in Nat /\ bs \in Nat /\ Len(arq) \in Nat
        /\ Ready(used) >= 0 /\ used2 \in 0 .. BURSTS
    <2>1. BURST_LEN \in Nat /\ BURST_LEN > 2 /\ BURSTS \in Nat /\ old \in Nat
      BY TcdAssumption DEF Entries
    <2>2. Len(awq) \in Nat /\ bs \in Nat
      BY DEF WriteInv
    <2>3. used \in 0 .. BURSTS /\ Len(arq) \in Nat /\ Ready(used) >= 0
      BY SMTT(20) DEF Places
    <2>4. Places(used2)'
      BY PlacesMAxi
    <2>5. used2 \in 0 .. BURSTS
      BY <2>4 DEF Places
    <2> QED BY <2>1, <2>2, <2>3, <2>5
  <1>2. full \in BOOLEAN /\ shift \in BOOLEAN /\ last \in BOOLEAN
    BY DEF Full, Shift, LastBeat, mem_full
  <1>3. /\ y \in Nat /\ y <= BURSTS /\ y2 = y + Beats(full) - Beats(shift)
        /\ Len(awq') \in Nat
    <2>1. y \in Nat /\ y <= BURSTS
      BY <1>1 DEF Ready
    <2>2. Len(awq') = Len(awq) + Beats(aw) - Beats(full) /\ Len(awq') \in Nat
      <3>1. Len(awq') = Len(awq) + Beats(aw) - Beats(full) /\ awq' \in Seq(0 .. BURSTS-1)
        BY WriteShape, SMTT(20) DEF WriteEffect
      <3> QED BY <3>1
    <2>3. used2 = used + Beats(aw) - Beats(shift) /\ used \in Int /\ Len(awq) \in Int
      BY <1>1
    <2>4. Beats(aw) \in Int /\ Beats(full) \in Int /\ Beats(shift) \in Int
      OBVIOUS
    <2> HIDE DEF Beats, full, shift
    <2> QED BY <2>1, <2>2, <2>3, <2>4
  <1>4. \A v \in Int : BURST_LEN * (v + 1) = BURST_LEN * v + BURST_LEN /\ BURST_LEN * v \in Int
    BY <1>1
  <1>5. Stored' = old2 + BURST_LEN * y2
    <2>1. /\ Stored' = Stored + BurstIf(full) /\ Stored = old + BURST_LEN * y
          /\ old2 = old + BurstIf(shift)
      <3>1. Stored' = Stored + BurstIf(full)
        BY WriteShape, SMTT(20) DEF WriteEffect
      <3>2. Stored = old + BURST_LEN * y
        BY DEF Entries
      <3> QED BY <3>1, <3>2
    <2> HIDE DEF full, shift, y, y2
    <2>2. CASE full /\ ~shift
      <3>1. y2 = y + 1
        BY <1>3, <2>2
      <3>2. BURST_LEN * (y + 1) = BURST_LEN * y + BURST_LEN /\ BURST_LEN * y \in Int
        BY <1>3, <1>4
      <3> QED BY <1>1, <2>1, <2>2, <3>1, <3>2
    <2>3. CASE shift /\ ~full
      <3>1. y2 \in Int /\ y = y2 + 1
        BY <1>3, <2>3
      <3>2. BURST_LEN * (y2 + 1) = BURST_LEN * y2 + BURST_LEN /\ BURST_LEN * y2 \in Int
        BY <1>4, <3>1
      <3> QED BY <1>1, <2>1, <2>3, <3>1, <3>2
    <2>4. CASE full <=> shift
      <3>1. y2 = y /\ BURST_LEN * y \in Int
        BY <1>2, <1>3, <1>4, <2>4
      <3> QED BY <1>1, <2>1, <2>4, <3>1
    <2> QED BY <2>2, <2>3, <2>4
  <1>6. ASSUME NEW j \in 0 .. y2 - 1, NEW i \in 1 .. BURST_LEN
        PROVE  mem'[Slot(c2, j)][i][1] = old2 + BURST_LEN * j + i
    <2> DEFINE x == j + Beats(shift)
               a == Addresses(aw)[1]
    <2>1. j \in 0 .. BURSTS-1 /\ x \in 0 .. y + Beats(full) - 1 /\ x \in Nat
      <3>1. y2 <= BURSTS /\ y2 \in Int
        BY <1>1, <1>3
      <3>2. y \in Int /\ Beats(full) \in Int /\ Beats(shift) \in {0, 1}
        BY <1>3
      <3>3. BURSTS \in Nat /\ y2 = y + Beats(full) - Beats(shift)
        BY <1>1, <1>3
      <3> HIDE DEF Beats, full, shift, y, y2
      <3> QED BY <3>1, <3>2, <3>3
    <2>2. old2 + BURST_LEN * j + i = old + BURST_LEN * x + i
      <3>1. BURST_LEN * (j + 1) = BURST_LEN * j + BURST_LEN /\ BURST_LEN * j \in Int
        BY <1>4
      <3> HIDE DEF shift
      <3>2. CASE shift
        <4>1. x = j + 1 /\ old2 = old + BURST_LEN
          BY <3>2 DEF shift
        <4> QED BY <1>1, <3>1, <4>1
      <3>3. CASE ~shift
        <4>1. x = j /\ old2 = old
          BY <1>1, <3>3 DEF shift
        <4> QED BY <4>1
      <3> QED BY <3>2, <3>3
    <2>3. Slot(c2, j) = Slot(c, x)
      BY <2>1, RingMove
    <2> HIDE DEF x
    <2>4. x < y => mem[Slot(c, x)][i][1] = old + BURST_LEN * x + i
      <3>1. x < y => x \in 0 .. y - 1
        BY <1>3, <2>1
      <3> QED BY <3>1 DEF Entries, At
    <2>5. CASE ~full
      <3>1. x < y
        BY <1>3, <2>1, <2>5
      <3>2. mem' = mem
        BY <2>5, WriteShape, SMTT(20) DEF WriteEffect
      <3> QED BY <2>2, <2>3, <2>4, <3>1, <3>2
    <2>6. CASE full
      <3> DEFINE d == SubSeq(Data(w), 1, BURST_LEN)
      <3>1. mem' = [mem EXCEPT ![a] = d]
        BY <2>6, WriteShape, SMTT(20) DEF WriteEffect
      <3>2. 1 \in 1 .. Len(awq) + Beats(aw) /\ used - Len(awq) + 1 - 1 = y
        <4>1. Len(Addresses(aw)) > 0 /\ Len(Addresses(aw)) = Len(awq) + Beats(aw)
          BY <2>6, AddressesShape DEF Full
        <4> QED BY <1>1, <4>1
      <3>3. a = Slot(c, y)
        BY <3>2, RingMove
      <3>4. Slot(c, x) \in 0 .. BURSTS-1 /\ c \in 0 .. BURSTS-1 /\ x \in 0 .. BURSTS
        <4>1. x \in 0 .. BURSTS
          BY <1>1, <1>3, <2>1
        <4>2. c \in 0 .. BURSTS-1
          BY DEF Places
        <4> QED BY <4>1, <4>2, SlotRange
      <3>5. mem \in [0 .. BURSTS-1 -> [1 .. BURST_LEN -> Int \X BOOLEAN]]
        BY DEF WriteInv
      <3>6. CASE x = y
        <4>1. mem'[Slot(c, x)] = d
          BY <3>1, <3>3, <3>4, <3>5, <3>6
        <4>2. d[i] = Data(w)[i] /\ Data(w)[i][1] = Stored + i
          <5>2. /\ Data(w) \in Seq(Int \X BOOLEAN)
                /\ \A k \in 1 .. Len(Data(w)) : Data(w)[k][1] = Stored + k
            BY <1>0, DataShape
          <5>3. Len(Data(w)) \in Nat /\ Len(Data(w)) >= BURST_LEN
            BY <2>6, <5>2 DEF Full
          <5>4. 1 \in 1 .. Len(Data(w))+1 /\ BURST_LEN \in 1-1 .. Len(Data(w))
            BY <1>1, <5>3
          <5>5. \A k \in 1 .. BURST_LEN - 1 + 1 : d[k] = Data(w)[1 + k - 1]
            BY <5>2, <5>4, SubSeqProperties, SMTT(20)
          <5>6. i \in 1 .. BURST_LEN - 1 + 1 /\ 1 + i - 1 = i /\ i \in 1 .. Len(Data(w))
            BY <1>1, <5>3
          <5>7. d[i] = Data(w)[i]
            BY <5>5, <5>6
          <5> QED BY <5>2, <5>6, <5>7
        <4>3. Stored = old + BURST_LEN * y
          BY DEF Entries
        <4> QED BY <2>2, <2>3, <3>6, <4>1, <4>2, <4>3
      <3>7. CASE x < y
        <4>1. Slot(c, x) # a
          <5>1. x = 0 /\ y = BURSTS => FALSE
            <6> SUFFICES ASSUME x = 0, y = BURSTS PROVE FALSE
              OBVIOUS
            <6>1. used = BURSTS /\ Len(awq) = 0
              BY <1>1
            <6>2. aw
              BY <3>2, <6>1
            <6>3. shift
              BY <6>1, <6>2, RingGuards, ZenonT(20)
            <6>4. x = j + 1 /\ j \in Nat
              BY <6>3 DEF x
            <6> QED BY <6>4
          <5> QED BY <1>3, <3>3, <3>4, <3>7, <5>1, SlotInjective, SMTT(20)
        <4>2. mem'[Slot(c, x)] = mem[Slot(c, x)]
          BY <3>1, <3>4, <3>5, <4>1
        <4> QED BY <2>2, <2>3, <2>4, <3>7, <4>2
      <3>8. x = y \/ x < y
        BY <1>3, <2>1
      <3> QED BY <3>6, <3>7, <3>8
    <2> QED BY <2>5, <2>6
  <1>7. /\ rfifo' \in Seq(Nat) /\ Len(rfifo') <= DEPTH /\ Gone(old2)' >= 0
        /\ \A i \in 1 .. Len(rfifo') : rfifo'[i] = Gone(old2)' + i
        /\ seen' = seen /\ seen \in Nat /\ (seen # 0 => seen = Gone(old2)')
    <2> DEFINE g == Gone(old)
               g2 == Gone(old2)'
    <2>1. /\ rfifo \in Seq(Nat) /\ Len(rfifo) \in Nat /\ Len(rfifo) <= DEPTH
          /\ g >= 0 /\ \A i \in 1 .. Len(rfifo) : rfifo[i] = g + i
          /\ seen \in Nat /\ (seen # 0 => seen = g) /\ DEPTH \in Nat
      BY TcdAssumption, SMTT(20) DEF Entries
    <2>2. /\ g = old + rbeat - 1 - Len(rfifo) /\ g2 = old2 + rbeat' - 1 - Len(rfifo')
          /\ rbeat \in 1 .. BURST_LEN /\ seen' = seen
          /\ rbeat' = IF r THEN (IF LastBeat THEN 1 ELSE rbeat + 1) ELSE rbeat
      BY ReadShape, SMTT(20) DEF Gone, Reading, MAxi, swvars
    <2>3. /\ rfifo' = IF r THEN Append(rfifo, mem[arq[1]][rbeat][1]) ELSE rfifo
          /\ r => Len(rfifo) < DEPTH
      BY DEF MAxi, MAxiClock, m_axi_rready_i
    <2> HIDE DEF g, g2
    <2>4. CASE r
      <3>1. mem[arq[1]][rbeat][1] = old + rbeat
        <4>1. Len(arq) > 0
          BY <2>4, RingGuards
        <4>2. arq[1] = At(1 - 1)
          <5>1. 1 \in 1 .. Len(arq)
            BY <1>1, <4>1
          <5> QED BY <5>1, Zenon DEF Places
        <4>3. 0 \in 0 .. y - 1
          BY <1>1, <4>1 DEF Ready
        <4>4. mem[At(0)][rbeat][1] = old + BURST_LEN * 0 + rbeat
          BY <2>2, <4>3 DEF Entries
        <4> QED BY <1>1, <2>2, <4>2, <4>4, SMTT(20)
      <3>2. old + rbeat = g + Len(rfifo) + 1 /\ old + rbeat \in Nat
        BY <1>1, <2>1, <2>2
      <3>3. /\ rfifo' \in Seq(Nat) /\ Len(rfifo') = Len(rfifo) + 1
            /\ \A i \in 1 .. Len(rfifo) : rfifo'[i] = rfifo[i]
            /\ rfifo'[Len(rfifo) + 1] = old + rbeat
        BY <2>1, <2>3, <2>4, <3>1, <3>2, AppendProperties, SMTT(20)
      <3>4. g2 = g
        <4>1. shift <=> LastBeat
          BY <2>4, RingGuards DEF Shift
        <4>2. CASE LastBeat
          <5>1. rbeat = BURST_LEN /\ old2 = old + BURST_LEN /\ rbeat' = 1
            BY <2>2, <2>4, <4>1, <4>2 DEF LastBeat
          <5> QED BY <1>1, <2>1, <2>2, <3>3, <5>1
        <4>3. CASE ~LastBeat
          <5>1. old2 = old /\ rbeat' = rbeat + 1
            <6>1. old2 = old + 0
              BY <4>1, <4>3
            <6>2. rbeat' = rbeat + 1
              BY <2>2, <2>4, <4>3
            <6> QED BY <1>1, <6>1, <6>2
          <5> QED BY <1>1, <2>1, <2>2, <3>3, <5>1
        <4> QED BY <4>2, <4>3
      <3>5. g \in Int
        BY <1>1, <2>1, <2>2
      <3>6. ASSUME NEW i \in 1 .. Len(rfifo') PROVE rfifo'[i] = g + i
        <4>1. CASE i \in 1 .. Len(rfifo)
          BY <2>1, <3>3, <4>1
        <4>2. CASE i = Len(rfifo) + 1
          BY <2>1, <3>2, <3>3, <3>5, <4>2
        <4> QED BY <2>1, <3>3, <4>1, <4>2
      <3>7. Len(rfifo') <= DEPTH
        BY <2>1, <2>3, <2>4, <3>3
      <3> QED BY <2>1, <2>2, <3>3, <3>4, <3>6, <3>7 DEF g2
    <2>5. CASE ~r /\ ~shift
      <3>1. g2 = g /\ rfifo' = rfifo
        BY <1>1, <2>1, <2>2, <2>3, <2>5
      <3> QED BY <2>1, <2>2, <3>1 DEF g2
    <2>6. CASE ~r /\ shift
      <3>1. rfifo' = rfifo /\ Len(rfifo) = 0 /\ seen = 0
        <4>1. ~forward_sync /\ aw
          BY <2>6, RingGuards
        <4>2. Len(rfifo) = 0 /\ (seen # 0 => Over)
          BY <4>1 DEF Quiet
        <4>3. m_axi_awvalid_i
          BY <4>1 DEF MAxi, MAxiClock
        <4> QED BY <2>3, <2>6, <4>2, <4>3, OverQuiet
      <3>2. g2 = g + BURST_LEN
        BY <1>1, <2>1, <2>2, <2>6, <3>1
      <3>3. g \in Int
        BY <1>1, <2>1, <2>2
      <3> QED BY <1>1, <2>1, <2>2, <3>1, <3>2, <3>3 DEF g2
    <2> QED BY <2>4, <2>5, <2>6
  <1>8. old2 \in Nat
    BY <1>1, <1>2
  <1> QED BY <1>5, <1>6, <1>7, <1>8 DEF Entries, At

LEMMA RingMAxi ==
    ASSUME WriteInv, Quiet, Outstanding < BURSTS, \E used, old \in Nat : Ring(used, old),
           NEW aw \in BOOLEAN, NEW w \in BOOLEAN, NEW b \in BOOLEAN,
           NEW ar \in BOOLEAN, NEW r \in BOOLEAN, MAxi(aw, w, b, ar, r)
    PROVE  (\E used, old \in Nat : Ring(used, old))'
  <1> PICK used \in Nat, old \in Nat : Ring(used, old)
    OBVIOUS
  <1>1. Places(used) /\ Reading /\ Entries(used, old)
    BY DEF Ring
  <1>2. \A used2, old2 : /\ used2 = used + Beats(aw) - Beats(Shift(aw, r))
                         /\ old2 = old + BurstIf(Shift(aw, r))
           => Places(used2)' /\ Reading' /\ Entries(used2, old2)'
    BY <1>1, PlacesMAxi, ReadingMAxi, EntriesMAxi, SMTT(20)
  <1>3. PICK used2, old2 : /\ used2 = used + Beats(aw) - Beats(Shift(aw, r))
                           /\ old2 = old + BurstIf(Shift(aw, r))
    OBVIOUS
  <1>4. Ring(used2, old2)'
    BY <1>2, <1>3 DEF Ring
  <1>5. used2 \in Nat /\ old2 \in Nat
    <2>1. Places(used2)' /\ Entries(used2, old2)'
      BY <1>4 DEF Ring
    <2>2. used2 \in 0 .. BURSTS
      BY <2>1 DEF Places
    <2>3. old2 \in Nat
      BY <2>1, Zenon DEF Entries
    <2> QED BY <2>2, <2>3, TcdAssumption
  <1> QED BY <1>4, <1>5

\* What the ring is about is left alone by the stream, and by the program but for
\* the entry it takes from the read FIFO.
LEMMA RingSAxis ==
    ASSUME WriteInv, SAxisEdge, NEW used, NEW old, Ring(used, old)
    PROVE  Ring(used, old)'
  <1>1. /\ emitted' = emitted + 1 /\ wfifo' = Append(wfifo, emitted')
        /\ UNCHANGED <<rfifo, wvars, rvars, memvars, seen>>
    BY DEF SAxisEdge, swvars
  <1>2. wfifo \in Seq(Nat) /\ emitted \in Nat /\ Len(wbuf) \in Nat
    BY DEF WriteInv
  <1>3. Len(wfifo') = Len(wfifo) + 1
    BY <1>1, <1>2, AppendProperties
  <1>4. Stored' = Stored
    BY <1>1, <1>2, <1>3 DEF Stored, memvars
  <1> QED BY <1>1, <1>4
          DEF Ring, Places, Reading, Entries, At, Ready, Gone, wvars, rvars, memvars

LEMMA RingSAxi ==
    ASSUME WriteInv, NEW used, NEW old, Ring(used, old),
           NEW awvalid \in BOOLEAN, NEW wvalid \in BOOLEAN, NEW bready \in BOOLEAN,
           NEW arvalid \in BOOLEAN, NEW rready \in BOOLEAN,
           SAxi(awvalid, wvalid, bready, arvalid, rready)
    PROVE  /\ Ring(used, old)'
           /\ seen' # seen => rfifo # <<>> /\ had_ar /\ seen' = Gone(old) + 1
           /\ Len(rfifo') # Len(rfifo) => seen' # seen
  <1> DEFINE r == s_axi_rvalid_i /\ rready
             pop == had_ar /\ rready /\ rfifo # <<>>
             g == Gone(old)
  <1>1. /\ rfifo' = IF pop THEN Tail(rfifo) ELSE rfifo
        /\ seen' = IF r /\ s_axi_rdata # 0 THEN s_axi_rdata ELSE seen
        /\ UNCHANGED <<wfifo, wvars, rvars, emitted, memvars>>
    BY DEF SAxi, SAxiClock, trace_capture
  <1>2. /\ rfifo \in Seq(Nat) /\ Len(rfifo) <= DEPTH /\ g >= 0
        /\ \A i \in 1 .. Len(rfifo) : rfifo[i] = g + i
        /\ seen \in Nat /\ (seen # 0 => seen = g) /\ old \in Nat /\ rbeat \in Nat
    <2>1. Reading /\ Entries(used, old)
      BY DEF Ring
    <2>2. rbeat \in Nat
      BY <2>1, TcdAssumption DEF Reading
    <2>3. /\ rfifo \in Seq(Nat) /\ Len(rfifo) <= DEPTH /\ g >= 0
          /\ \A i \in 1 .. Len(rfifo) : rfifo[i] = g + i
          /\ seen \in Nat /\ (seen # 0 => seen = g) /\ old \in Nat
      BY <2>1, Zenon DEF Entries
    <2> QED BY <2>2, <2>3
  <1>3. g \in Nat
    BY <1>2 DEF Gone
  <1>4. /\ Places(used)' /\ Reading' /\ Stored' = Stored /\ rbeat' = rbeat
        /\ \A j \in 0 .. used - Len(awq') - 1 : \A i \in 1 .. BURST_LEN :
              mem'[At(j)'][i][1] = old + BURST_LEN * j + i
        /\ Stored = old + BURST_LEN * (used - Len(awq'))
    BY <1>1 DEF Ring, Places, Reading, Entries, At, Ready, Stored, wvars, rvars, memvars
  <1>5. CASE pop
    <2>1. rfifo # <<>> /\ r /\ s_axi_rdata = rfifo[1] /\ had_ar
      BY <1>5 DEF s_axi_rvalid_i, s_axi_rdata
    <2>2. rfifo[1] = g + 1 /\ Len(rfifo) \in Nat /\ Len(rfifo) > 0
      BY <1>2, <2>1
    <2>3. seen' = g + 1
      BY <1>1, <1>3, <2>1, <2>2
    <2>4. /\ rfifo' \in Seq(Nat) /\ Len(rfifo') = Len(rfifo) - 1
          /\ \A i \in 1 .. Len(rfifo') : rfifo'[i] = rfifo[i + 1]
      BY <1>1, <1>2, <1>5, <2>1, HeadTailProperties
    <2>5. Gone(old)' = g + 1
      BY <1>2, <1>4, <2>2, <2>4, SMTT(20) DEF Gone
    <2>6. ASSUME NEW i \in 1 .. Len(rfifo') PROVE rfifo'[i] = Gone(old)' + i
      <3>1. i + 1 \in 1 .. Len(rfifo) /\ g + (i + 1) = g + 1 + i
        BY <1>3, <2>2, <2>4
      <3> QED BY <1>2, <2>4, <2>5, <3>1
    <2>7. Len(rfifo') <= DEPTH /\ Gone(old)' >= 0 /\ seen' \in Nat /\ DEPTH \in Nat
      BY <1>2, <1>3, <2>2, <2>3, <2>4, <2>5, TcdAssumption
    <2>8. seen' # seen
      BY <1>2, <1>3, <2>3
    <2>9. Entries(used, old)'
      BY <1>2, <1>4, <2>3, <2>4, <2>5, <2>6, <2>7 DEF Entries
    <2> QED BY <1>4, <2>1, <2>3, <2>8, <2>9 DEF Ring
  <1>6. CASE ~pop
    <2>1. r => s_axi_rdata = 0
      BY <1>6 DEF s_axi_rvalid_i, s_axi_rdata
    <2>2. rfifo' = rfifo /\ seen' = seen
      BY <1>1, <1>6, <2>1
    <2>3. Gone(old)' = g
      BY <1>4, <2>2 DEF Gone
    <2>4. Entries(used, old)'
      BY <1>2, <1>4, <2>2, <2>3 DEF Entries
    <2> QED BY <1>4, <2>2, <2>4 DEF Ring
  <1> QED BY <1>5, <1>6
-----------------------------------------------------------------------------
(* The end of forwarding *)

\* What is over stays over.
LEMMA OverMAxi ==
    ASSUME WriteInv, Over,
           NEW aw \in BOOLEAN, NEW w \in BOOLEAN, NEW b \in BOOLEAN,
           NEW ar \in BOOLEAN, NEW r \in BOOLEAN, MAxi(aw, w, b, ar, r)
    PROVE  Over' /\ rfifo' = rfifo
  <1>1. ~aw /\ ~ar /\ ~b /\ ~r
    <2>1. ~m_axi_awvalid_i /\ ~m_axi_arvalid_i /\ arq = <<>> /\ bs = 0
      BY OverQuiet DEF Over, Drained
    <2> QED BY <2>1 DEF MAxi, MAxiClock
  <1>2. /\ emitted = N /\ Len(wfifo) < BURST_LEN /\ awq = <<>> /\ bs = 0 /\ arq = <<>>
        /\ m_axi_araddr_i = comp_awaddr /\ last_rd /\ Len(rfifo) = 0
    BY DEF Over, Drained, m_fifo_wch_pempty, mem_empty
  <1>3. /\ emitted' = emitted /\ N' = N /\ Len(wfifo') = Len(wfifo) - Beats(w)
        /\ wfifo' \in Seq(Nat)
    BY WriteShape DEF WriteEffect
  <1>4. Len(wfifo') < BURST_LEN
    <2>1. Len(wfifo) \in Nat /\ BURST_LEN \in Nat
      BY TcdAssumption, WriteTypes
    <2> QED BY <1>2, <1>3, <2>1 DEF Beats
  <1>5. awq' = <<>> /\ bs' = 0
    <2>1. MemoryWrite(aw, w, b)
      BY DEF MAxi, MAxiClock
    <2> QED BY <1>1, <1>2, <2>1 DEF MemoryWrite, Beats
  <1>6. arq' = <<>> /\ rfifo' = rfifo
    <2>1. MemoryRead(ar, r)
      BY DEF MAxi, MAxiClock
    <2>2. rfifo' = rfifo
      BY <1>1 DEF MAxi, MAxiClock
    <2> QED BY <1>1, <1>2, <2>1, <2>2 DEF MemoryRead
  <1>7. /\ m_axi_araddr_i' = m_axi_araddr_i /\ comp_awaddr' = comp_awaddr
        /\ last_rd' = (last_rd \/ FALSE)
    BY <1>1 DEF MAxi, MAxiClock, m_axi_ar, m_axi_b, m_axi_l
  <1>8. mem_empty'
    BY <1>2, <1>7 DEF mem_empty
  <1> QED BY <1>2, <1>3, <1>4, <1>5, <1>6, <1>8 DEF Over, Drained, m_fifo_wch_pempty

LEMMA OverUnchanged ==
    ASSUME Over, UNCHANGED <<wfifo, rfifo, wvars, rvars, emitted, memvars, N>>
    PROVE  Over'
  BY DEF Over, Drained, m_fifo_wch_pempty, mem_empty, wvars, rvars, memvars

LEMMA SoftMAxi ==
    ASSUME WriteInv, Quiet, SoftInv, rfifo \in Seq(Nat), arq \in Seq(0 .. BURSTS-1),
           NEW aw \in BOOLEAN, NEW w \in BOOLEAN, NEW b \in BOOLEAN,
           NEW ar \in BOOLEAN, NEW r \in BOOLEAN, MAxi(aw, w, b, ar, r)
    PROVE  Quiet' /\ SoftInv'
  <1>1. /\ forward_sync' \in {forward_sync, forward}
        /\ UNCHANGED <<svars, swvars>>
    BY DEF MAxi, ForwardSync
  <1>2. Over => Over'
    BY OverMAxi
  <1>3. Len(rfifo') = 0 => Len(rfifo) = 0
    <2>1. CASE r
      <3>1. rfifo' = Append(rfifo, mem[arq[1]][rbeat][1])
        BY <2>1 DEF MAxi, MAxiClock
      <3>2. Len(rfifo') = Len(rfifo) + 1 /\ Len(rfifo) \in Nat
        BY <3>1
      <3>3. \A x \in Nat : x + 1 # 0
        OBVIOUS
      <3> QED BY <3>2, <3>3
    <2>2. CASE ~r
      BY <2>2 DEF MAxi, MAxiClock
    <2> QED BY <2>1, <2>2
  <1>4. ~forward_sync => rfifo' = rfifo /\ arq' = arq
    <2> SUFFICES ASSUME ~forward_sync PROVE rfifo' = rfifo /\ arq' = arq
      OBVIOUS
    <2>1. ~ar /\ ~r
      BY DEF Quiet, MAxi, MAxiClock, m_axi_arvalid_i
    <2> QED BY <2>1 DEF MAxi, MAxiClock, MemoryRead
  <1>5. Quiet'
    <2> SUFFICES ASSUME ~forward_sync'
                 PROVE  Len(rfifo') = 0 /\ Len(arq') = 0 /\ (seen' # 0 => Over')
      BY DEF Quiet
    <2>1. seen' = seen
      BY <1>1 DEF swvars
    <2>2. CASE ~forward_sync
      BY <1>2, <1>4, <2>1, <2>2 DEF Quiet
    <2>3. CASE forward_sync
      <3>1. ~forward
        BY <1>1, <2>3
      <3>2. Over
        BY <2>3, <3>1 DEF SoftInv
      <3>3. Over'
        BY <1>2, <3>2
      <3> QED BY <3>3 DEF Over, Drained
    <2> QED BY <2>2, <2>3
  <1>6. SoftInv'
    <2>1. forward_sync' \in BOOLEAN /\ (forward_sync' /\ ~forward => Over')
      BY <1>1, <1>2 DEF SoftInv
    <2> QED BY <1>1, <1>2, <1>3, <2>1 DEF SoftInv, svars, swvars
  <1> QED BY <1>5, <1>6

\* A program that does not run dry takes the last entry of the read FIFO only when
\* nothing follows it, so the edge that finds the FIFO drained ends forwarding for
\* good.
LEMMA SoftSAxi ==
    ASSUME ~dry', WriteInv, Quiet, SoftInv, NEW used, NEW old, Ring(used, old),
           NEW awvalid \in BOOLEAN, NEW wvalid \in BOOLEAN, NEW bready \in BOOLEAN,
           NEW arvalid \in BOOLEAN, NEW rready \in BOOLEAN,
           SAxi(awvalid, wvalid, bready, arvalid, rready)
    PROVE  Quiet' /\ SoftInv'
  <1> DEFINE b == s_axi_bvalid_i /\ bready
             r == s_axi_rvalid_i /\ rready
             pop == had_ar /\ rready /\ rfifo # <<>>
             total == BURSTS * BURST_LEN
  <1>1. /\ awvalid => sw = "store"
        /\ wvalid => sw = "store"
        /\ arvalid => sw = "load"
        /\ pop /\ Len(rfifo) = 1 => Drained
        /\ had_aw' = (~b /\ (had_aw \/ awvalid)) /\ had_w' = (~b /\ (had_w \/ wvalid))
        /\ had_ar' = (~r /\ (had_ar \/ arvalid))
        /\ m_fifo_rch_empty_d' = (rfifo = <<>>)
        /\ forward' = IF rfifo = <<>> /\ ~m_fifo_rch_empty_d THEN FALSE ELSE forward \/ b
        /\ rfifo' = IF pop THEN Tail(rfifo) ELSE rfifo
    BY DEF SAxi, SAxiClock, s_axi_b, s_axi_r, s_axi_e, s_axi_f, RunsDry
  <1>2. /\ sw' = CASE b -> "load"
                   [] r /\ (s_axi_rdata = 0 \/ tot + 1 = total) -> "idle"
                   [] OTHER -> sw
        /\ tot' = IF r THEN tot + 1 ELSE tot
        /\ seen' = IF r /\ s_axi_rdata # 0 THEN s_axi_rdata ELSE seen
        /\ UNCHANGED <<wfifo, wvars, rvars, forward_sync, emitted, memvars, N>>
    BY DEF SAxi, SAxiClock, trace_capture
  <1>3. /\ rfifo \in Seq(Nat) /\ Len(rfifo) \in Nat /\ seen \in Nat /\ total \in Nat
        /\ \A i \in 1 .. Len(rfifo) : rfifo[i] \in Nat \ {0}
    <2>1. /\ rfifo \in Seq(Nat) /\ seen \in Nat /\ Gone(old) >= 0 /\ old \in Nat
          /\ \A i \in 1 .. Len(rfifo) : rfifo[i] = Gone(old) + i
      BY DEF Ring, Entries
    <2>2. rbeat \in Nat /\ total \in Nat
      BY TcdAssumption DEF Ring, Reading
    <2>3. Gone(old) \in Nat
      BY <2>1, <2>2 DEF Gone
    <2>4. \A i \in 1 .. Len(rfifo) : rfifo[i] \in Nat \ {0}
      BY <2>1, <2>3
    <2> QED BY <2>1, <2>2, <2>4
  <1>4. /\ forward \in BOOLEAN /\ forward_sync \in BOOLEAN /\ m_fifo_rch_empty_d \in BOOLEAN
        /\ had_aw \in BOOLEAN /\ had_w \in BOOLEAN /\ had_ar \in BOOLEAN
        /\ sw \in {"idle", "store", "load"} /\ tot \in 0 .. total
        /\ (had_ar => sw = "load") /\ (had_aw \/ had_w => sw = "store")
        /\ (sw = "store" => tot = 0) /\ (sw = "load" => tot < total)
        /\ (sw = "load" /\ tot > 0 => seen # 0)
        /\ (forward_sync /\ ~forward => Over)
        /\ (~m_fifo_rch_empty_d /\ rfifo = <<>> => Over /\ seen # 0)
        /\ (sw = "load" /\ ~forward => Over /\ seen # 0)
    BY DEF SoftInv
  <1>5. (b => had_aw /\ had_w) /\ (r => had_ar) /\ (pop => r) /\ (r /\ ~pop => rfifo = <<>>)
    BY DEF s_axi_bvalid_i, s_axi_rvalid_i
  <1>6. /\ pop => s_axi_rdata # 0 /\ s_axi_rdata \in Nat
        /\ r /\ ~pop => s_axi_rdata = 0
    BY <1>3, <1>5 DEF s_axi_rdata
  <1>7. Over => Over' /\ rfifo = <<>>
    <2>1. Over => rfifo = <<>>
      BY <1>3 DEF Over
    <2>2. rfifo = <<>> => rfifo' = rfifo
      BY <1>1
    <2> QED BY <1>2, <2>1, <2>2, OverUnchanged
  <1>8. /\ pop => forward_sync /\ seen' # 0
        /\ seen # 0 => seen' # 0
        /\ seen' # 0 => seen # 0 \/ pop
    <2>1. pop => forward_sync
      BY <1>3 DEF Quiet
    <2> QED BY <1>2, <1>5, <1>6, <2>1
  <1>9. pop /\ Len(rfifo') = 0 => Over'
    <2> SUFFICES ASSUME pop, Len(rfifo') = 0 PROVE Over'
      OBVIOUS
    <2>1. Len(rfifo') = Len(rfifo) - 1
      BY <1>1, <1>3, HeadTailProperties
    <2>2. Drained
      BY <1>1, <1>3, <2>1
    <2> QED BY <1>2, <2>2 DEF Over, Drained, m_fifo_wch_pempty, mem_empty, wvars, rvars, memvars
  <1>10. ~pop => rfifo' = rfifo
    BY <1>1
  <1>11. (b => ~r) /\ b \in BOOLEAN /\ r \in BOOLEAN /\ pop \in BOOLEAN
    BY <1>4, <1>5 DEF s_axi_bvalid_i, s_axi_rvalid_i
  <1> HIDE DEF b, r, pop, total
  <1>12. Quiet'
    <2> SUFFICES ASSUME ~forward_sync
                 PROVE  Len(rfifo') = 0 /\ Len(arq') = 0 /\ (seen' # 0 => Over')
      BY <1>2 DEF Quiet
    <2>1. ~pop
      BY <1>8
    <2>2. arq' = arq
      BY <1>2 DEF memvars
    <2> QED BY <1>7, <1>8, <1>10, <2>1, <2>2 DEF Quiet
  <1>13. /\ forward' \in BOOLEAN /\ forward_sync' \in BOOLEAN /\ m_fifo_rch_empty_d' \in BOOLEAN
         /\ had_aw' \in BOOLEAN /\ had_w' \in BOOLEAN /\ had_ar' \in BOOLEAN
         /\ sw' \in {"idle", "store", "load"} /\ tot' \in 0 .. total
    <2>1. tot' \in 0 .. total
      BY <1>2, <1>3, <1>4, <1>5
    <2>2. sw' \in {"idle", "store", "load"}
      BY <1>2, <1>4, <1>11
    <2>3. forward' \in BOOLEAN /\ forward_sync' \in BOOLEAN /\ m_fifo_rch_empty_d' \in BOOLEAN
      BY <1>1, <1>2, <1>4, <1>11
    <2>4. had_aw' \in BOOLEAN /\ had_w' \in BOOLEAN /\ had_ar' \in BOOLEAN
      BY <1>1
    <2> QED BY <2>1, <2>2, <2>3, <2>4
  <1>14. /\ (had_ar' => sw' = "load") /\ (had_aw' \/ had_w' => sw' = "store")
    <2>1. CASE b
      BY <1>1, <1>2, <1>4, <1>5, <1>11, <2>1
    <2>2. CASE r
      BY <1>1, <1>2, <1>4, <1>5, <1>11, <2>2
    <2>3. CASE ~b /\ ~r
      BY <1>1, <1>2, <1>4, <1>11, <2>3
    <2> QED BY <1>11, <2>1, <2>2, <2>3
  <1>15. /\ (sw' = "store" => tot' = 0) /\ (sw' = "load" => tot' < total)
         /\ (sw' = "load" /\ tot' > 0 => seen' # 0)
    <2>1. CASE b
      <3>1. sw = "store" /\ tot = 0 /\ tot' = tot /\ sw' = "load"
        BY <1>2, <1>4, <1>5, <1>11, <2>1
      <3>2. total > 0
        <4>1. \A x, y \in Nat : x > 0 /\ y > 0 => x * y > 0
          OBVIOUS
        <4> QED BY <4>1, TcdAssumption DEF total
      <3>3. ~(0 > 0)
        OBVIOUS
      <3> QED BY <3>1, <3>2, <3>3
    <2>2. CASE r
      <3>1. sw = "load" /\ ~b /\ tot' = tot + 1 /\ tot < total
        BY <1>2, <1>4, <1>5, <1>11, <2>2
      <3>2. sw' = IF s_axi_rdata = 0 \/ tot + 1 = total THEN "idle" ELSE sw
        BY <1>2, <2>2, <3>1
      <3>3. sw' # "idle" => seen' # 0
        BY <1>2, <2>2, <3>1, <3>2
      <3> QED BY <1>3, <1>4, <3>1, <3>2, <3>3
    <2>3. CASE ~b /\ ~r
      <3>1. sw' = sw /\ tot' = tot /\ seen' = seen
        BY <1>2, <2>3
      <3> QED BY <1>4, <3>1
    <2> QED BY <1>11, <2>1, <2>2, <2>3
  <1>16. (forward_sync' /\ ~forward' => Over')
    BY <1>1, <1>2, <1>4, <1>7
  <1>17. (~m_fifo_rch_empty_d' /\ Len(rfifo') = 0 => Over' /\ seen' # 0)
    <2>1. ~pop /\ Len(rfifo') = 0 => rfifo = <<>>
      BY <1>3, <1>10
    <2> QED BY <1>1, <1>8, <1>9, <2>1
  <1>18. (sw' = "load" /\ ~forward' => Over' /\ seen' # 0)
    <2>1. CASE rfifo = <<>> /\ ~m_fifo_rch_empty_d
      BY <1>4, <1>7, <1>8, <2>1
    <2>2. CASE ~(rfifo = <<>> /\ ~m_fifo_rch_empty_d)
      <3>1. forward' <=> forward \/ b
        BY <1>1, <2>2
      <3>2. ~b /\ sw' = "load" => sw = "load"
        BY <1>2
      <3> QED BY <1>4, <1>7, <1>8, <3>1, <3>2
    <2> QED BY <2>1, <2>2
  <1> QED BY <1>12, <1>13, <1>14, <1>15, <1>16, <1>17, <1>18 DEF SoftInv, total
-----------------------------------------------------------------------------
(* What is read back *)

LEMMA RingInit == Init => Quiet /\ SoftInv /\ Ring(0, 0)
  <1> SUFFICES ASSUME Init PROVE Quiet /\ SoftInv /\ Ring(0, 0)
    OBVIOUS
  <1>1. /\ BURSTS \in Nat /\ BURSTS > 0 /\ BURST_LEN \in Nat /\ BURST_LEN > 2
        /\ DEPTH \in Nat /\ Outstanding \in Nat /\ BURSTS * BURST_LEN \in Nat
    BY TcdAssumption
  <1>2. /\ Len(wfifo) = 0 /\ Len(rfifo) = 0 /\ Len(wbuf) = 0 /\ Len(awq) = 0 /\ Len(arq) = 0
        /\ bs = 0 /\ rbeat = 1 /\ emitted = 0 /\ seen = 0 /\ rch_dbeats = 0
    BY DEF Init
  <1>3. Slot(0, 0) = 0
    BY <1>1 DEF Slot
  <1>4. Places(0)
    <2>1. /\ comp_araddr = 0 /\ comp_awaddr = 0 /\ m_axi_awaddr_i = 0 /\ m_axi_araddr_i = 0
          /\ last_wr = FALSE /\ last_rd = TRUE /\ arq = <<>>
      BY DEF Init
    <2>2. At(0) = 0 /\ Ready(0) = 0 /\ 0 - Len(awq) - bs = 0
      BY <1>2, <1>3, <2>1 DEF At, Ready
    <2>3. arq \in Seq(0 .. BURSTS-1)
      BY <2>1
    <2>4. /\ 0 \in 0 .. BURSTS /\ comp_araddr \in 0 .. BURSTS-1
          /\ last_wr \in BOOLEAN /\ last_rd \in BOOLEAN /\ Len(awq) + bs <= Outstanding
          /\ (0 = BURSTS => last_wr) /\ (Ready(0) = BURSTS => ~last_rd) /\ Ready(0) >= 0
      <3>1. last_wr \in BOOLEAN /\ last_rd \in BOOLEAN
        BY <2>1
      <3>2. 0 \in 0 .. BURSTS /\ comp_araddr \in 0 .. BURSTS-1 /\ 0 # BURSTS
        BY <1>1, <2>1
      <3>3. Len(awq) + bs <= Outstanding
        BY <1>1, <1>2
      <3>4. Ready(0) # BURSTS /\ Ready(0) >= 0
        BY <1>1, <2>2
      <3> QED BY <3>1, <3>2, <3>3, <3>4
    <2>5. /\ \A k \in 1 .. Len(awq) : awq[k] = At(0 - Len(awq) + k - 1)
          /\ \A k \in 1 .. Len(arq) : arq[k] = At(k - 1)
      BY <1>2
    <2>6. /\ m_axi_awaddr_i = At(0) /\ comp_awaddr = At(0 - Len(awq) - bs)
          /\ m_axi_araddr_i = At(Len(arq)) /\ ~last_wr /\ last_rd
      BY <1>2, <2>1, <2>2
    <2> QED BY <2>3, <2>4, <2>5, <2>6 DEF Places
  <1>5. Reading
    <2>1. BURST_LEN * Len(arq) = 0
      BY <1>1, <1>2
    <2> QED BY <1>1, <1>2, <2>1 DEF Reading
  <1>6. Entries(0, 0)
    <2>1. Gone(0) = 0 /\ Stored = 0 /\ BURST_LEN * (0 - Len(awq)) = 0
      BY <1>1, <1>2 DEF Gone, Stored
    <2>2. rfifo \in Seq(Nat)
      BY DEF Init
    <2>3. 0 - Len(awq) - 1 = -1
      BY <1>2
    <2> QED BY <1>1, <1>2, <2>1, <2>2, <2>3 DEF Entries
  <1>7. Quiet
    BY <1>2 DEF Quiet
  <1>8. SoftInv
    BY <1>1 DEF Init, SoftInv
  <1> QED BY <1>4, <1>5, <1>6, <1>7, <1>8 DEF Ring

\* Once dry, the program stays dry.
LEMMA StaysDry == ASSUME dry, [Next]_vars PROVE dry'
  BY DEF Next, SAxisEdge, MAxiEdge, MAxi, SAxiEdge, SAxi, SAxiClock, Call, swvars, vars

LEMMA ReadNext == ASSUME Spacious, WriteInv, ReadInv, ~dry', [Next]_vars PROVE ReadInv'
  <1> PICK used \in Nat, old \in Nat : Ring(used, old)
    BY DEF ReadInv
  <1>1. WriteInv /\ Quiet /\ SoftInv
    BY DEF ReadInv
  <1>3. ASSUME UNCHANGED <<wfifo, rfifo, wvars, rvars, forward_sync, emitted, memvars,
                           svars, seen, N>>
        PROVE  Quiet' /\ Ring(used, old)' /\ (Over => Over')
    <2>1. Over => Over'
      BY <1>3, OverUnchanged
    <2>2. Quiet'
      BY <1>1, <1>3, <2>1 DEF Quiet, memvars
    <2>3. Stored' = Stored
      BY <1>3 DEF Stored, memvars
    <2>4. Ring(used, old)'
      BY <1>3, <2>3 DEF Ring, Places, Reading, Entries, At, Ready, Gone, wvars, rvars, memvars
    <2> QED BY <2>1, <2>2, <2>4
  <1>4. CASE SAxisEdge
    <2>1. /\ emitted < N /\ UNCHANGED <<rfifo, rvars, forward_sync, memvars, svars, swvars>>
      BY <1>4 DEF SAxisEdge
    <2>2. ~Over
      <3>1. emitted \in Nat /\ N \in Nat
        BY <1>1, WriteTypes, Zenon
      <3> QED BY <2>1, <3>1 DEF Over, Drained
    <2>3. Quiet'
      BY <1>1, <2>1, <2>2 DEF Quiet, memvars, swvars
    <2>4. SoftInv'
      BY <1>1, <2>1, <2>2 DEF SoftInv, svars, swvars
    <2>5. Ring(used, old)'
      BY <1>1, <1>4, RingSAxis
    <2> QED BY <2>3, <2>4, <2>5 DEF ReadInv
  <1>5. CASE MAxiEdge
    <2> PICK aw \in BOOLEAN, w \in BOOLEAN, b \in BOOLEAN, ar \in BOOLEAN, r \in BOOLEAN :
                MAxi(aw, w, b, ar, r)
      BY <1>5 DEF MAxiEdge
    <2>1. Quiet' /\ SoftInv'
      <3>1. rfifo \in Seq(Nat) /\ arq \in Seq(0 .. BURSTS-1)
        BY DEF Ring, Places, Entries
      <3> QED BY <1>1, <3>1, SoftMAxi
    <2>2. (\E u, o \in Nat : Ring(u, o))'
      BY <1>1, RingMAxi DEF Spacious
    <2> QED BY <2>1, <2>2 DEF ReadInv
  <1>6. CASE SAxiEdge
    <2> PICK awvalid \in BOOLEAN, wvalid \in BOOLEAN, bready \in BOOLEAN,
             arvalid \in BOOLEAN, rready \in BOOLEAN :
                SAxi(awvalid, wvalid, bready, arvalid, rready)
      BY <1>6 DEF SAxiEdge
    <2>1. Quiet' /\ SoftInv'
      BY <1>1, SoftSAxi
    <2>2. Ring(used, old)'
      BY <1>1, RingSAxi
    <2> QED BY <2>1, <2>2 DEF ReadInv
  <1>7. CASE Call
    <2>1. /\ sw = "idle" /\ sw' = "store" /\ tot' = 0
          /\ UNCHANGED <<wfifo, rfifo, wvars, rvars, forward_sync, emitted, memvars,
                         svars, seen, N>>
      BY <1>7 DEF Call
    <2>2. Quiet' /\ Ring(used, old)' /\ (Over => Over')
      BY <1>3, <2>1
    <2>3. SoftInv'
      <3>1. 0 \in 0 .. BURSTS * BURST_LEN
        BY TcdAssumption
      <3> QED BY <1>1, <2>1, <2>2, <3>1 DEF SoftInv, svars
    <2> QED BY <2>2, <2>3 DEF ReadInv
  <1>8. CASE UNCHANGED vars
    <2>1. UNCHANGED <<wfifo, rfifo, wvars, rvars, forward_sync, emitted, memvars,
                      svars, seen, N>> /\ UNCHANGED <<sw, tot>>
      BY <1>8 DEF vars, swvars
    <2>2. Quiet' /\ Ring(used, old)' /\ (Over => Over')
      BY <1>3, <2>1
    <2>3. SoftInv'
      BY <1>1, <2>1, <2>2 DEF SoftInv, svars
    <2> QED BY <2>2, <2>3 DEF ReadInv
  <1> QED BY <1>4, <1>5, <1>6, <1>7, <1>8 DEF Next

LEMMA IInvNext == ASSUME Spacious, IInv, [Next]_vars PROVE IInv'
  BY WriteNext, StaysDry, ReadNext, Zenon DEF IInv

\* The ring in memory holds consecutive entries from the oldest burst held to the
\* write address, and its four addresses and two flags agree with the queues of
\* the memory, until the program runs dry.
THEOREM RingOrder == ASSUME Spacious PROVE Spec => []IInv
  <1>1. Init => IInv
    BY WriteInit, RingInit DEF IInv, ReadInv
  <1>2. IInv /\ [Next]_vars => IInv'
    BY IInvNext
  <1> QED BY <1>1, <1>2, PTL DEF Spec

\* The program gets the entries of the trace one after the other (ReadInOrder)
\* until it runs dry: seen is the entry before the first one in the read FIFO.
THEOREM InOrder == ASSUME Spacious PROVE Spec => ReadInOrder
  <1>1. ASSUME IInv, ~dry, [Next]_vars, seen' # seen
        PROVE  seen' > seen /\ (tot > 0 => seen' = seen + 1)
    <2> PICK used \in Nat, old \in Nat : Ring(used, old)
      BY <1>1 DEF IInv, ReadInv
    <2>1. SAxiEdge
      BY <1>1 DEF Next, SAxisEdge, MAxiEdge, MAxi, Call, swvars, vars
    <2> PICK awvalid \in BOOLEAN, wvalid \in BOOLEAN, bready \in BOOLEAN,
             arvalid \in BOOLEAN, rready \in BOOLEAN :
                SAxi(awvalid, wvalid, bready, arvalid, rready)
      BY <2>1 DEF SAxiEdge
    <2>2. had_ar /\ seen' = Gone(old) + 1
      BY <1>1, RingSAxi DEF IInv
    <2>3. seen \in Nat /\ Gone(old) >= 0 /\ (seen # 0 => seen = Gone(old)) /\ old \in Nat
      BY DEF Ring, Entries
    <2>4. Gone(old) \in Int
      <3>1. rbeat \in Int /\ Len(rfifo) \in Int
        BY TcdAssumption DEF Ring, Reading, Entries
      <3> QED BY <2>3, <3>1 DEF Gone
    <2>5. tot > 0 => seen # 0
      BY <1>1, <2>2 DEF IInv, ReadInv, SoftInv
    <2> QED BY <2>2, <2>3, <2>4, <2>5
  <1>2. IInv /\ [Next]_vars
          => [seen' # seen => dry \/ (seen' > seen /\ (tot > 0 => seen' = seen + 1))]_vars
    BY <1>1
  <1> QED BY <1>2, RingOrder, PTL DEF Spec, ReadInOrder

\* A call that ends on an empty reading has read all the flush reaches, unless the
\* program ran dry (EmptyMeansDone): otherwise forward is low only when everything
\* is over, and then the entry seen last is the last one that got an address.
THEOREM Complete == ASSUME Spacious PROVE Spec => EmptyMeansDone
  <1>1. ASSUME IInv, ~dry, [Next]_vars, sw = "load", sw' = "idle", seen' = seen
        PROVE  seen >= Real - Unflushed
    <2> PICK used \in Nat, old \in Nat : Ring(used, old)
      BY <1>1 DEF IInv, ReadInv
    <2>1. SAxiEdge
      BY <1>1 DEF Next, SAxisEdge, MAxiEdge, MAxi, Call, swvars, vars
    <2> PICK awvalid \in BOOLEAN, wvalid \in BOOLEAN, bready \in BOOLEAN,
             arvalid \in BOOLEAN, rready \in BOOLEAN :
                SAxi(awvalid, wvalid, bready, arvalid, rready)
      BY <2>1 DEF SAxiEdge
    <2>2. /\ WriteInv /\ SoftInv /\ Places(used) /\ Reading /\ Entries(used, old)
      BY <1>1 DEF IInv, ReadInv, Ring
    <2>3. s_axi_rvalid_i /\ rready
      <3>1. /\ sw' = CASE s_axi_bvalid_i /\ bready -> "load"
                       [] s_axi_rvalid_i /\ rready
                             /\ (s_axi_rdata = 0 \/ tot + 1 = BURSTS * BURST_LEN) -> "idle"
                       [] OTHER -> sw
        BY DEF SAxi, SAxiClock, trace_capture
      <3>2. ~s_axi_bvalid_i
        BY <1>1, <2>2 DEF SoftInv, s_axi_bvalid_i
      <3> QED BY <1>1, <3>1, <3>2
    <2>4. rfifo = <<>>
      <3>1. rfifo # <<>> => s_axi_rdata = rfifo[1] /\ rfifo[1] = Gone(old) + 1 /\ Gone(old) \in Nat
        <4>1. rbeat \in Int /\ Len(rfifo) \in Int /\ old \in Nat
          BY TcdAssumption, <2>2, SMTT(20) DEF Reading, Entries
        <4>2. Gone(old) \in Nat
          BY <2>2, <4>1, SMTT(20) DEF Gone, Entries
        <4>3. rfifo # <<>> => rfifo[1] = Gone(old) + 1
          BY <2>2, SMTT(20) DEF Entries
        <4> QED BY <4>2, <4>3 DEF s_axi_rdata
      <3>2. seen' = IF s_axi_rdata # 0 THEN s_axi_rdata ELSE seen
        BY <2>3 DEF SAxi, SAxiClock, trace_capture
      <3>3. seen # 0 => seen = Gone(old)
        BY <2>2 DEF Entries
      <3> QED BY <1>1, <3>1, <3>2, <3>3
    <2>5. Over /\ seen # 0
      BY <1>1, <2>2, <2>3, <2>4 DEF SoftInv, s_axi_rvalid_i
    <2>6. /\ emitted = N /\ Len(wfifo) < BURST_LEN /\ awq = <<>> /\ bs = 0 /\ arq = <<>>
          /\ mem_empty /\ Len(rfifo) = 0
      BY <2>5 DEF Over, Drained, m_fifo_wch_pempty
    <2>7. used - Len(awq) = 0
      BY <2>2, <2>6, FullEmpty DEF Ready
    <2>8. seen = Stored
      <3>1. /\ Stored = old + BURST_LEN * 0 /\ seen = old + rbeat - 1 - Len(rfifo) /\ rbeat = 1
            /\ old \in Nat
        BY <2>2, <2>5, <2>6, <2>7 DEF Entries, Reading, Gone
      <3> QED BY <2>6, <3>1, TcdAssumption
    <2>9. /\ Len(wbuf) <= BURST_LEN * Len(awq) + Early /\ Len(wbuf) \in Nat /\ N \in Nat
          /\ Len(wfifo) \in Nat
      BY <2>2, WriteTypes, Zenon
    <2>10. Len(wbuf) <= Unflushed + 1 /\ Unflushed \in Nat /\ BURST_LEN \in Nat
      <3>1. BURST_LEN * Len(awq) = 0 /\ Early \in Nat /\ BURST_LEN \in Nat
        BY <2>6, TcdAssumption
      <3> QED BY <2>9, <3>1 DEF Unflushed
    <2> QED BY <2>6, <2>8, <2>9, <2>10 DEF Stored, Real
  <1>2. IInv /\ [Next]_vars
          => [sw = "load" /\ sw' = "idle" /\ seen' = seen
                => dry \/ seen >= Real - Unflushed]_vars
    BY <1>1
  <1> QED BY <1>2, RingOrder, PTL DEF Spec, EmptyMeansDone

LEMMA SeqIn ==
    ASSUME NEW S, NEW s \in Seq(Nat), \A i \in 1 .. Len(s) : s[i] \in S
    PROVE  s \in Seq(S)
  BY LenProperties, SeqDef

\* The last beat of every burst in memory, and no other, carries m_axi_wlast, and
\* every counter, FIFO and address keeps the range its declaration gives it
\* (BurstsWellFormed) until the program runs dry.
THEOREM WellFormed == ASSUME Spacious PROVE Spec => [](dry \/ BurstsWellFormed)
  <1>1. ASSUME IInv, ~dry PROVE BurstsWellFormed
    <2> PICK used \in Nat, old \in Nat : Ring(used, old)
      BY <1>1 DEF IInv, ReadInv
    <2>1. /\ WriteInv /\ SoftInv /\ Places(used) /\ Reading /\ Entries(used, old)
      BY <1>1 DEF IInv, ReadInv, Ring
    <2>2. /\ BURST_LEN \in Nat /\ BURST_LEN > 2 /\ BURSTS \in Nat /\ BURSTS > 0 /\ Early \in Nat
      BY TcdAssumption
    <2>20. /\ Len(wfifo) \in Nat /\ Len(wbuf) \in Nat /\ Len(awq) \in Nat /\ bs \in Nat
          /\ N \in Nat /\ emitted \in 0 .. N /\ Stored >= 0
      BY <2>1, WriteTypes, Zenon
    <2>21. /\ Len(rfifo) \in Nat /\ Len(arq) \in Nat /\ rbeat \in 1 .. BURST_LEN /\ old \in Nat
      BY <2>1, ReadTypes, Zenon
    <2>3. wfifo \in Seq(1 .. N) /\ Len(wfifo) <= DEPTH
      <3>1. /\ wfifo \in Seq(Nat) /\ Len(wfifo) <= DEPTH
            /\ \A i \in 1 .. Len(wfifo) : wfifo[i] = emitted - Len(wfifo) + i
        BY <2>1 DEF WriteInv
      <3>2. emitted - Len(wfifo) >= 0
        BY <2>20 DEF Stored
      <3>3. \A i \in 1 .. Len(wfifo) : wfifo[i] \in 1 .. N
        BY <2>20, <3>1, <3>2
      <3> QED BY <3>1, <3>3, SeqIn
    <2>4. rfifo \in Seq(1 .. N) /\ Len(rfifo) <= DEPTH
      <3>1. /\ rfifo \in Seq(Nat) /\ Len(rfifo) <= DEPTH /\ Gone(old) >= 0
            /\ \A i \in 1 .. Len(rfifo) : rfifo[i] = Gone(old) + i
            /\ Stored = old + BURST_LEN * (used - Len(awq))
        BY <2>1 DEF Entries
      <3>2. old + rbeat - 1 <= Stored
        <4>1. used - Len(awq) >= Len(arq)
          BY <2>1, <2>20, <2>21, SMTT(20) DEF Places, Ready
        <4>2. CASE Len(arq) = 0
          <5>1. rbeat = 1
            BY <2>1, <4>2 DEF Reading
          <5>2. \A x \in Nat : BURST_LEN * x >= 0
            BY <2>2
          <5>3. used - Len(awq) \in Nat /\ BURST_LEN * (used - Len(awq)) \in Int
            BY <2>2, <2>20, <4>1, <4>2
          <5> QED BY <2>21, <3>1, <5>1, <5>2, <5>3
        <4>3. CASE Len(arq) > 0
          <5>1. used - Len(awq) \in Nat \ {0} /\ BURST_LEN * (used - Len(awq)) \in Int
            BY <2>2, <2>20, <2>21, <4>1, <4>3
          <5>2. \A x \in Nat \ {0} : BURST_LEN * x >= BURST_LEN
            BY <2>2
          <5> DEFINE p == BURST_LEN * (used - Len(awq))
          <5>3. p >= BURST_LEN /\ p \in Int /\ Stored = old + p
            BY <3>1, <5>1, <5>2
          <5> HIDE DEF p
          <5> QED BY <2>2, <2>21, <5>3
        <4> QED BY <2>21, <4>2, <4>3
      <3>3. Gone(old) \in Nat /\ Gone(old) + Len(rfifo) <= N
        BY <2>20, <2>21, <3>1, <3>2 DEF Gone, Stored
      <3>4. \A i \in 1 .. Len(rfifo) : rfifo[i] \in 1 .. N
        <4> DEFINE n == Len(rfifo)
                   g == Gone(old)
        <4>1. n \in Nat /\ g \in Nat /\ N \in Nat /\ g + n <= N
          BY <2>20, <2>21, <3>3
        <4>2. \A i \in 1 .. n : rfifo[i] = g + i
          BY <3>1
        <4> HIDE DEF n, g
        <4>3. \A i \in 1 .. n : rfifo[i] \in 1 .. N
          BY <4>1, <4>2
        <4> QED BY <4>3 DEF n
      <3> QED BY <3>1, <3>4, SeqIn
    <2>5. wch_burstc \in 0 .. BURST_LEN-1
      <3>1. Len(wbuf) % BURST_LEN \in 0 .. BURST_LEN-1
        BY <2>2, <2>20, DivMod
      <3>2. wch_burstc = BURST_LEN-1 - (Len(wbuf) % BURST_LEN)
        BY <2>1 DEF WriteInv
      <3> QED BY <2>2, <3>1, <3>2
    <2>6. wch_dbeats \in -Early .. BURST_LEN*2-1
      <3> DEFINE a == Len(awq)
                 d == Len(wbuf)
      <3>1. /\ a \in Nat /\ d \in Nat /\ a <= 2 /\ (a > 0 => d < BURST_LEN) /\ (a = 2 => d > 0)
            /\ d <= BURST_LEN * a + Early /\ wch_dbeats = BURST_LEN * a - d
        BY <2>1, <2>20 DEF WriteInv
      <3> HIDE DEF a, d
      <3>2. CASE a = 0
        BY <2>2, <3>1, <3>2
      <3>3. CASE a = 1
        BY <2>2, <3>1, <3>3
      <3>4. CASE a = 2
        BY <2>2, <3>1, <3>4
      <3> QED BY <3>1, <3>2, <3>3, <3>4
    <2>7. rch_dbeats \in 0 .. BURST_LEN*2-1
      <3> DEFINE m == Len(arq)
      <3>1. /\ m \in Nat /\ m <= 2 /\ rbeat \in 1 .. BURST_LEN
            /\ (m = 0 => rbeat = 1) /\ (m = 2 => rbeat > 1)
            /\ rch_dbeats = BURST_LEN * m - (rbeat - 1)
        BY <2>1, <2>21 DEF Reading
      <3> HIDE DEF m
      <3>2. CASE m = 0
        BY <2>2, <3>1, <3>2
      <3>3. CASE m = 1
        BY <2>2, <3>1, <3>3
      <3>4. CASE m = 2
        BY <2>2, <3>1, <3>4
      <3> QED BY <3>1, <3>2, <3>3, <3>4
    <2>8. {m_axi_awaddr_i, comp_awaddr, m_axi_araddr_i, comp_araddr} \subseteq 0 .. BURSTS-1
      <3>1. /\ comp_araddr \in 0 .. BURSTS-1 /\ m_axi_awaddr_i = Slot(comp_araddr, used)
            /\ comp_awaddr = Slot(comp_araddr, used - Len(awq) - bs)
            /\ m_axi_araddr_i = Slot(comp_araddr, Len(arq))
            /\ used \in 0 .. BURSTS /\ Ready(used) >= 0
        BY <2>1 DEF Places, At
      <3>2. used - Len(awq) - bs \in 0 .. BURSTS /\ Len(arq) \in 0 .. BURSTS
        BY <2>2, <2>20, <2>21, <3>1 DEF Ready
      <3> QED BY <3>1, <3>2, SlotRange
    <2>9. /\ {last_wr, last_rd, forward, forward_sync, m_fifo_rch_empty_d, had_aw,
              had_w, had_ar} \subseteq BOOLEAN
          /\ sw \in {"idle", "store", "load"} /\ tot \in 0 .. BURSTS * BURST_LEN
      BY <2>1 DEF SoftInv, Places
    <2>10. \A a \in 0 .. BURSTS-1 : \A i \in 1 .. BURST_LEN :
               mem[a][i][2] <=> i = BURST_LEN \/ mem[a][i][1] = -1
      BY <2>1 DEF WriteInv
    <2> QED BY <2>3, <2>4, <2>5, <2>6, <2>7, <2>8, <2>9, <2>10 DEF BurstsWellFormed, TypeOK
  <1> QED BY <1>1, RingOrder, PTL
=============================================================================
