--------------------------- MODULE ChanDelayProofs ---------------------------
(***************************************************************************)
(* ChanDelay for every counter width, FIFO depth and set of delays: types, *)
(* the stability of an offered transfer, and that no transfer leaves early *)
(* as long as the delay does not exceed half the counter range.            *)
(***************************************************************************)
EXTENDS ChanDelay, SequenceTheorems, TLAPS

\* Modular arithmetic on the counter, without the modulus.
LEMMA Wraps ==
    ASSUME NEW x \in Time, NEW y \in Time
    PROVE  /\ (x + y) % Period = IF x + y < Period THEN x + y ELSE x + y - Period
           /\ (x + 1) % Period = IF x = Period - 1 THEN 0 ELSE x + 1
           /\ (x - y) % Period = IF x >= y THEN x - y ELSE x - y + Period
  BY PeriodAssumption, SMT DEF Time

LEMMA HalfFact == Half \in Nat /\ Period = Half + Half /\ Half > 0
  BY PeriodAssumption, SMT DEF Half

\* Growing older changes nothing but the age.
LEMMA AgedShape ==
    ASSUME NEW q \in Seq(Entry)
    PROVE  /\ Aged(q) \in Seq(Entry) /\ Len(Aged(q)) = Len(q)
           /\ \A k \in 1 .. Len(q) :
                 /\ Aged(q)[k].tm = q[k].tm /\ Aged(q)[k].want = q[k].want
                 /\ Aged(q)[k].age = IF q[k].age < q[k].want THEN q[k].age + 1 ELSE q[k].age
  <1>1. \A k \in 1 .. Len(q) : q[k] \in Entry
    BY ElementOfSeq
  <1>2. DOMAIN q = 1 .. Len(q)
    OBVIOUS
  <1>3. ASSUME NEW k \in 1 .. Len(q)
        PROVE  LET e == [q[k] EXCEPT !.age = IF @ < q[k].want THEN @ + 1 ELSE @]
               IN  /\ e \in Entry /\ e.tm = q[k].tm /\ e.want = q[k].want
                   /\ e.age = IF q[k].age < q[k].want THEN q[k].age + 1 ELSE q[k].age
    <2> DEFINE older == IF q[k].age < q[k].want THEN q[k].age + 1 ELSE q[k].age
    <2>1. q[k] \in Entry /\ q[k].age \in 0 .. Period /\ q[k].want \in 0 .. Period-1
      BY <1>1 DEF Entry, Time
    <2>2. older \in 0 .. Period
      BY <2>1, PeriodAssumption
    <2> HIDE DEF older
    <2>3. LET e == [q[k] EXCEPT !.age = older]
          IN  e \in Entry /\ e.tm = q[k].tm /\ e.want = q[k].want /\ e.age = older
      BY <2>1, <2>2 DEF Entry
    <2> QED BY <2>3 DEF older
  <1>4. Aged(q) \in [1 .. Len(q) -> Entry]
    BY <1>2, <1>3 DEF Aged
  <1>5. Aged(q) \in Seq(Entry) /\ Len(Aged(q)) = Len(q)
    BY <1>4
  <1> QED BY <1>2, <1>3, <1>5 DEF Aged

\* What is inside after an edge: the remaining entries, one edge older, and
\* possibly a new one at the end.
LEMMA FifoShape ==
    ASSUME ChanTypeOK, NEW s_valid \in BOOLEAN, NEW m_ready \in BOOLEAN, NEW see \in BOOLEAN,
           Fifo(s_valid, m_ready, see)
    PROVE  LET pop == m_ready /\ m_valid_i
               push == s_valid /\ s_ready
               left == IF pop THEN Tail(fifo) ELSE fifo
           IN  /\ left \in Seq(Entry)
               /\ Len(left) = IF pop THEN Len(fifo) - 1 ELSE Len(fifo)
               /\ \A k \in 1 .. Len(left) : left[k] = IF pop THEN fifo[k + 1] ELSE fifo[k]
               /\ fifo' \in Seq(Entry)
               /\ Len(fifo') = IF push THEN Len(left) + 1 ELSE Len(left)
               /\ \A k \in 1 .. Len(left) :
                     /\ fifo'[k].tm = left[k].tm /\ fifo'[k].want = left[k].want
                     /\ fifo'[k].age = IF left[k].age < left[k].want THEN left[k].age + 1
                                       ELSE left[k].age
               /\ push => fifo'[Len(left) + 1] =
                             [tm |-> s_time, want |-> delay_sync, age |-> 0]
  <1> DEFINE pop == m_ready /\ m_valid_i
             push == s_valid /\ s_ready
             left == IF pop THEN Tail(fifo) ELSE fifo
             new == [tm |-> s_time, want |-> delay_sync, age |-> 0]
  <1>1. fifo \in Seq(Entry) /\ (pop => fifo # <<>>)
    BY DEF ChanTypeOK, m_valid_i
  <1>2. /\ left \in Seq(Entry)
        /\ Len(left) = IF pop THEN Len(fifo) - 1 ELSE Len(fifo)
        /\ \A k \in 1 .. Len(left) : left[k] = IF pop THEN fifo[k + 1] ELSE fifo[k]
    BY <1>1, HeadTailProperties
  <1>3. new \in Entry
    <2>1. s_time \in Time
      BY Wraps, PeriodAssumption DEF s_time, ChanTypeOK, Time
    <2> QED BY <2>1, PeriodAssumption DEF Entry, ChanTypeOK
  <1> HIDE DEF left, new
  <1>4. fifo' = IF push THEN Append(Aged(left), new) ELSE Aged(left)
    BY DEF Fifo, left, new
  <1>5. /\ Aged(left) \in Seq(Entry) /\ Len(Aged(left)) = Len(left)
        /\ \A k \in 1 .. Len(left) :
              /\ Aged(left)[k].tm = left[k].tm /\ Aged(left)[k].want = left[k].want
              /\ Aged(left)[k].age = IF left[k].age < left[k].want THEN left[k].age + 1
                                     ELSE left[k].age
    BY <1>2, AgedShape
  <1>6. CASE push
    <2>1. /\ fifo' \in Seq(Entry) /\ Len(fifo') = Len(left) + 1
          /\ \A k \in 1 .. Len(left) : fifo'[k] = Aged(left)[k]
          /\ fifo'[Len(left) + 1] = new
      BY <1>3, <1>4, <1>5, <1>6, AppendProperties
    <2> QED BY <1>2, <1>5, <1>6, <2>1 DEF left, new
  <1>7. CASE ~push
    BY <1>2, <1>4, <1>5, <1>7 DEF left, new
  <1> QED BY <1>6, <1>7
-----------------------------------------------------------------------------
LEMMA InitType == ChanInit => ChanTypeOK
  <1> SUFFICES ASSUME ChanInit PROVE ChanTypeOK
    OBVIOUS
  <1>1. counter \in Time /\ delay \in Delays /\ delay_sync \in Time /\ waited \in Nat
    BY PeriodAssumption, DelayAssumption DEF ChanInit, Time
  <1>2. fifo \in Seq(Entry) /\ Len(fifo) <= C_FIFO_DEPTH
    BY DelayAssumption DEF ChanInit
  <1>3. shown \in BOOLEAN /\ (shown => fifo # <<>>) /\ vhold \in BOOLEAN /\ taken \in BOOLEAN
    BY Zenon DEF ChanInit
  <1> QED BY <1>1, <1>2, <1>3 DEF ChanTypeOK

LEMMA EdgeType ==
    ASSUME ChanTypeOK, NEW s_valid \in BOOLEAN, NEW m_ready \in BOOLEAN, NEW see \in BOOLEAN,
           Edge(s_valid, m_ready, see)
    PROVE  ChanTypeOK'
  <1>0. Fifo(s_valid, m_ready, see)
    BY DEF Edge
  <1>1. counter' \in Time
    BY Wraps, PeriodAssumption DEF Edge, ChanTypeOK, Time
  <1>2. delay' \in Delays /\ delay_sync' \in Time
    BY DEF Edge, ChanTypeOK, Crossing
  <1>3. fifo' \in Seq(Entry) /\ Len(fifo') <= C_FIFO_DEPTH
    <2>1. Len(fifo) \in Nat /\ Len(fifo) <= C_FIFO_DEPTH
      BY DEF ChanTypeOK
    <2> QED BY <1>0, <2>1, FifoShape, DelayAssumption DEF s_ready, ChanTypeOK
  <1>4. shown' \in BOOLEAN /\ (shown' => fifo' # <<>>) /\ taken' \in BOOLEAN
    BY <1>0, Zenon DEF Fifo, m_valid_i
  <1>5. vhold' \in BOOLEAN
    BY Zenon DEF Edge, VHold
  <1>6. waited' \in Nat
    BY DEF Edge, ChanTypeOK
  <1> QED BY <1>1, <1>2, <1>3, <1>4, <1>5, <1>6 DEF ChanTypeOK

LEMMA StepType == ChanTypeOK /\ [ChanNext]_chanVars => ChanTypeOK'
  <1> SUFFICES ASSUME ChanTypeOK, [ChanNext]_chanVars PROVE ChanTypeOK'
    OBVIOUS
  <1>1. CASE \E s_valid, m_ready, see \in BOOLEAN : Edge(s_valid, m_ready, see)
    BY <1>1, EdgeType
  <1>2. CASE \E d \in Delays : SetDelay(d)
    BY <1>2 DEF SetDelay, ChanTypeOK
  <1>3. CASE UNCHANGED chanVars
    BY <1>3 DEF chanVars, ChanTypeOK
  <1> QED BY <1>1, <1>2, <1>3 DEF ChanNext

\* Type correctness of the channel: stamps and counter stay inside the counter
\* range and the FIFO is never asked to hold more than its depth.
THEOREM TypeCorrect == ChanSpec => []ChanTypeOK
  BY InitType, StepType, PTL DEF ChanSpec
-----------------------------------------------------------------------------
LEMMA EdgeStable ==
    ASSUME ChanTypeOK, NEW s_valid \in BOOLEAN, NEW m_ready \in BOOLEAN, NEW see \in BOOLEAN,
           Edge(s_valid, m_ready, see), m_valid_i, ~taken'
    PROVE  m_valid_i' /\ fifo'[1].tm = fifo[1].tm
  <1>1. Fifo(s_valid, m_ready, see) /\ VHold(m_ready)
    BY DEF Edge
  <1>2. ~m_ready
    BY <1>1, Zenon DEF Fifo
  <1>3. shown /\ fifo \in Seq(Entry) /\ Len(fifo) >= 1
    BY DEF ChanTypeOK, m_valid_i
  <1>4. fifo' \in Seq(Entry) /\ Len(fifo') >= 1 /\ fifo'[1].tm = fifo[1].tm
    BY <1>1, <1>2, <1>3, FifoShape
  <1>5. fifo' # <<>>
    BY <1>4
  <1>6. shown' /\ vhold'
    BY <1>1, <1>2, <1>3, <1>5, Zenon DEF Fifo, VHold
  <1> QED BY <1>4, <1>6 DEF m_valid_i

\* The AXI rule quoted in axi_delay.vhd, for every depth and counter width: a
\* transfer on offer stays on offer, unchanged, until it is taken, although the
\* counter runs on and wraps.
THEOREM OfferHeld == ChanSpec => ValidStable
  <1>1. ChanTypeOK /\ [ChanNext]_chanVars =>
           [m_valid_i /\ ~taken' => m_valid_i' /\ fifo'[1].tm = fifo[1].tm]_chanVars
    <2> SUFFICES ASSUME ChanTypeOK, [ChanNext]_chanVars, m_valid_i, ~taken'
                 PROVE  (m_valid_i' /\ fifo'[1].tm = fifo[1].tm) \/ UNCHANGED chanVars
      OBVIOUS
    <2>1. CASE \E s_valid, m_ready, see \in BOOLEAN : Edge(s_valid, m_ready, see)
      BY <2>1, EdgeStable
    <2>2. CASE \E d \in Delays : SetDelay(d)
      BY <2>2 DEF SetDelay, m_valid_i, Passed, tdiff
    <2>3. CASE UNCHANGED chanVars
      BY <2>3
    <2> QED BY <2>1, <2>2, <2>3 DEF ChanNext
  <1> QED BY <1>1, TypeCorrect, PTL DEF ChanSpec, ValidStable
-----------------------------------------------------------------------------
\* While an entry is younger than its delay, its stamp lies want-1-age counts
\* ahead of the counter, on this turn of the counter or on the next.
Ahead(e, c) ==
    e.age < e.want => \/ e.tm = c + (e.want - 1 - e.age)
                      \/ e.tm = c + (e.want - 1 - e.age) - Period

\* The strengthening: every stamp is where its age says, and vhold only holds a
\* transfer whose delay is over.
EarlyInv ==
    /\ \A k \in 1 .. Len(fifo) : fifo[k].want <= Half /\ Ahead(fifo[k], counter)
    /\ vhold => fifo # <<>> /\ fifo[1].age >= fifo[1].want

LEMMA EarlyInvImplies == ChanTypeOK /\ EarlyInv => NeverEarly
  <1> SUFFICES ASSUME ChanTypeOK, EarlyInv, m_valid_i, ~(fifo[1].age >= fifo[1].want)
               PROVE  FALSE
    BY Zenon DEF NeverEarly
  <1>1. fifo # <<>> /\ fifo \in Seq(Entry) /\ Len(fifo) >= 1
    BY DEF m_valid_i, ChanTypeOK
  <1>2. fifo[1] \in Entry
    BY <1>1, ElementOfSeq
  <1>3. /\ fifo[1].tm \in Time /\ fifo[1].want \in Time /\ fifo[1].age \in 0 .. Period
        /\ counter \in Time
    BY <1>2 DEF Entry, ChanTypeOK
  <1>4. fifo[1].want <= Half /\ Ahead(fifo[1], counter)
    BY <1>1 DEF EarlyInv
  <1>5. tdiff = IF fifo[1].tm >= counter THEN fifo[1].tm - counter
                ELSE fifo[1].tm - counter + Period
    BY <1>3, Wraps DEF tdiff
  <1>6. tdiff < Half
    <2>1. fifo[1].age < fifo[1].want
      BY <1>3 DEF Time
    <2> QED BY <2>1, <1>3, <1>4, <1>5, HalfFact DEF Ahead, Time
  <1>7. tdiff >= Half
    <2>1. ~vhold
      BY Zenon DEF EarlyInv
    <2> QED BY <2>1, Zenon DEF m_valid_i, Passed
  <1>8. tdiff \in Int /\ Half \in Int
    BY <1>3, <1>5, PeriodAssumption, HalfFact DEF Time
  <1> QED BY <1>6, <1>7, <1>8

\* One count on, an entry one edge older is still where its age says.
LEMMA AheadOlder ==
    ASSUME NEW e \in Entry, NEW f \in Entry, NEW c \in Time, Ahead(e, c),
           f.tm = e.tm, f.want = e.want,
           f.age = IF e.age < e.want THEN e.age + 1 ELSE e.age
    PROVE  Ahead(f, (c + 1) % Period)
  <1>1. (c + 1) % Period = IF c = Period - 1 THEN 0 ELSE c + 1
    BY Wraps
  <1>2. /\ e.tm \in Time /\ e.want \in Time /\ e.age \in 0 .. Period
    BY DEF Entry
  <1>3. CASE ~(e.age < e.want)
    BY <1>2, <1>3 DEF Ahead, Time
  <1>4. CASE e.age < e.want
    <2>1. f.age = e.age + 1
      BY <1>4
    <2>2. \/ e.tm = c + (e.want - 1 - e.age)
          \/ e.tm = c + (e.want - 1 - e.age) - Period
      BY <1>4 DEF Ahead
    <2> QED BY <1>1, <1>2, <2>1, <2>2, PeriodAssumption DEF Ahead, Time
  <1> QED BY <1>3, <1>4

\* A fresh stamp (s_time) is where it should be after the edge that takes it.
LEMMA AheadNew ==
    ASSUME ChanTypeOK, NEW e \in Entry, e.tm = s_time, e.want = delay_sync, e.age = 0
    PROVE  Ahead(e, (counter + 1) % Period)
  <1>1. /\ (counter + 1) % Period = IF counter = Period - 1 THEN 0 ELSE counter + 1
        /\ s_time = IF counter + delay_sync < Period THEN counter + delay_sync
                    ELSE counter + delay_sync - Period
        /\ counter \in Time /\ delay_sync \in Time
    BY Wraps DEF ChanTypeOK, s_time
  <1> QED BY <1>1, PeriodAssumption DEF Ahead, Time

LEMMA EdgeEarly ==
    ASSUME ChanTypeOK, EarlyInv, delay_sync <= Half,
           NEW s_valid \in BOOLEAN, NEW m_ready \in BOOLEAN, NEW see \in BOOLEAN,
           Edge(s_valid, m_ready, see)
    PROVE  EarlyInv'
  <1> DEFINE pop == m_ready /\ m_valid_i
             push == s_valid /\ s_ready
             left == IF pop THEN Tail(fifo) ELSE fifo
  <1>0. Fifo(s_valid, m_ready, see) /\ VHold(m_ready) /\ counter' = (counter + 1) % Period
    BY DEF Edge
  <1>1. /\ left \in Seq(Entry)
        /\ Len(left) = IF pop THEN Len(fifo) - 1 ELSE Len(fifo)
        /\ \A k \in 1 .. Len(left) : left[k] = IF pop THEN fifo[k + 1] ELSE fifo[k]
        /\ fifo' \in Seq(Entry)
        /\ Len(fifo') = IF push THEN Len(left) + 1 ELSE Len(left)
        /\ \A k \in 1 .. Len(left) :
              /\ fifo'[k].tm = left[k].tm /\ fifo'[k].want = left[k].want
              /\ fifo'[k].age = IF left[k].age < left[k].want THEN left[k].age + 1 ELSE left[k].age
        /\ push => fifo'[Len(left) + 1] = [tm |-> s_time, want |-> delay_sync, age |-> 0]
    BY <1>0, FifoShape
  <1>2. fifo \in Seq(Entry) /\ Len(fifo) \in Nat /\ counter \in Time
    BY DEF ChanTypeOK
  <1> HIDE DEF left
  <1>3. ASSUME NEW k \in 1 .. Len(left)
        PROVE  fifo'[k].want <= Half /\ Ahead(fifo'[k], counter')
    <2>1. left[k].want <= Half /\ Ahead(left[k], counter)
      BY <1>1, <1>2, SMTT(20) DEF EarlyInv
    <2>2. left[k] \in Entry /\ fifo'[k] \in Entry
      BY <1>1, ElementOfSeq
    <2> QED BY <2>1, <2>2, <1>0, <1>1, <1>2, AheadOlder
  <1>4. ASSUME push
        PROVE  LET e == fifo'[Len(left) + 1]
               IN  e.want <= Half /\ Ahead(e, counter')
    <2> DEFINE e == fifo'[Len(left) + 1]
    <2>1. e \in Entry
      BY <1>1, <1>4, ElementOfSeq
    <2>2. e.tm = s_time /\ e.want = delay_sync /\ e.age = 0
      BY <1>1, <1>4
    <2> HIDE DEF e
    <2>3. e.want <= Half /\ Ahead(e, counter')
      BY <2>1, <2>2, <1>0, AheadNew
    <2> QED BY <2>3 DEF e
  <1>5. \A k \in 1 .. Len(fifo') : fifo'[k].want <= Half /\ Ahead(fifo'[k], counter')
    BY <1>1, <1>3, <1>4
  <1>6. ASSUME vhold' PROVE fifo' # <<>> /\ fifo'[1].age >= fifo'[1].want
    <2>1. ~m_ready /\ m_valid_i
      BY <1>0, <1>6, Zenon DEF VHold
    <2>2. fifo[1].age >= fifo[1].want
      BY <2>1, EarlyInvImplies DEF NeverEarly
    <2>3. Len(fifo) >= 1 /\ left = fifo
      BY <2>1, <1>2 DEF ChanTypeOK, m_valid_i, left
    <2>4. /\ fifo'[1].want = fifo[1].want
          /\ fifo'[1].age = IF fifo[1].age < fifo[1].want THEN fifo[1].age + 1 ELSE fifo[1].age
          /\ fifo' \in Seq(Entry) /\ Len(fifo') >= 1
      BY <2>3, <1>1, <1>2
    <2>5. fifo[1] \in Entry
      BY <2>3, <1>2, ElementOfSeq
    <2>6. fifo[1].age \in 0 .. Period /\ fifo[1].want \in 0 .. Period-1
      BY <2>5 DEF Entry, Time
    <2>7. fifo' # <<>>
      BY <2>4
    <2> QED BY <2>2, <2>4, <2>6, <2>7, PeriodAssumption
  <1> QED BY <1>5, <1>6 DEF EarlyInv, Ahead

\* As long as the delay the channel sees does not exceed half the counter range,
\* no transfer is offered before its delay is over, however the counter wraps.
\* Beyond that bound the sign bit is wrong from the start and it fails.
THEOREM NotEarly == ChanSpec /\ [](delay_sync <= Half) => []NeverEarly
  <1>1. ChanInit => EarlyInv
    <2> SUFFICES ASSUME ChanInit PROVE EarlyInv
      OBVIOUS
    <2>1. ~vhold /\ Len(fifo) = 0
      BY DEF ChanInit
    <2> QED BY <2>1 DEF EarlyInv
  <1>2. ChanTypeOK /\ EarlyInv /\ delay_sync <= Half /\ [ChanNext]_chanVars => EarlyInv'
    <2> SUFFICES ASSUME ChanTypeOK, EarlyInv, delay_sync <= Half, [ChanNext]_chanVars PROVE EarlyInv'
      OBVIOUS
    <2>1. CASE \E s_valid, m_ready, see \in BOOLEAN : Edge(s_valid, m_ready, see)
      BY <2>1, EdgeEarly
    <2>2. CASE \E d \in Delays : SetDelay(d)
      BY <2>2 DEF SetDelay, EarlyInv, Ahead
    <2>3. CASE UNCHANGED chanVars
      BY <2>3 DEF chanVars, EarlyInv, Ahead
    <2> QED BY <2>1, <2>2, <2>3 DEF ChanNext
  <1> QED BY <1>1, <1>2, TypeCorrect, EarlyInvImplies, PTL DEF ChanSpec
-----------------------------------------------------------------------------
\* The strengthening: an entry that is held although its delay is over has, of
\* the half period it may be held, at least as much left as the counter needs
\* to pass its stamp.
LateInv == waited > 0 => /\ Len(fifo) >= 1 /\ waited <= Half
                         /\ tdiff < Half => waited + tdiff < Half

\* The distance of the first stamp from the counter shrinks by one on an edge
\* that leaves the entry in front, and starts over from the far end.
LEMMA Closer ==
    ASSUME ChanTypeOK, NEW s_valid \in BOOLEAN, NEW m_ready \in BOOLEAN, NEW see \in BOOLEAN,
           Edge(s_valid, m_ready, see), Len(fifo) >= 1, ~(m_ready /\ m_valid_i)
    PROVE  /\ tdiff \in Time /\ tdiff' = IF tdiff = 0 THEN Period-1 ELSE tdiff - 1
           /\ Len(fifo') >= 1
  <1>1. Fifo(s_valid, m_ready, see) /\ counter' = (counter + 1) % Period
    BY DEF Edge
  <1>2. fifo \in Seq(Entry) /\ counter \in Time /\ fifo[1] \in Entry
    BY ElementOfSeq DEF ChanTypeOK
  <1>3. fifo' \in Seq(Entry) /\ Len(fifo') >= 1 /\ fifo'[1].tm = fifo[1].tm
    BY <1>1, <1>2, FifoShape
  <1>4. fifo[1].tm \in Time
    BY <1>2 DEF Entry
  <1>5. counter' = IF counter = Period-1 THEN 0 ELSE counter + 1
    BY <1>1, <1>2, Wraps
  <1>6. counter' \in Time
    BY <1>2, <1>5, PeriodAssumption DEF Time
  <1>7. tdiff = IF fifo[1].tm >= counter THEN fifo[1].tm - counter
                ELSE fifo[1].tm - counter + Period
    BY <1>2, <1>4, Wraps DEF tdiff
  <1>8. tdiff' = IF fifo[1].tm >= counter' THEN fifo[1].tm - counter'
                 ELSE fifo[1].tm - counter' + Period
    BY <1>3, <1>4, <1>6, Wraps DEF tdiff
  <1>9. ASSUME NEW t \in Time, NEW c \in Time, NEW x, NEW y, NEW n,
               n = IF c = Period-1 THEN 0 ELSE c + 1,
               x = IF t >= c THEN t - c ELSE t - c + Period,
               y = IF t >= n THEN t - n ELSE t - n + Period
        PROVE  x \in Time /\ y = IF x = 0 THEN Period-1 ELSE x - 1
    BY <1>9, PeriodAssumption DEF Time
  <1> QED BY <1>2, <1>3, <1>4, <1>5, <1>7, <1>8, <1>9

LEMMA EdgeLate ==
    ASSUME ChanTypeOK, LateInv, NEW s_valid \in BOOLEAN, NEW m_ready \in BOOLEAN,
           NEW see \in BOOLEAN, Edge(s_valid, m_ready, see)
    PROVE  LateInv'
  <1> DEFINE held == shown /\ ~m_valid_i /\ fifo[1].age >= fifo[1].want
  <1>1. waited' = IF held THEN waited + 1 ELSE 0
    BY DEF Edge
  <1>2. CASE ~held
    BY <1>1, <1>2 DEF LateInv
  <1>3. CASE held
    <2>1. Len(fifo) >= 1 /\ ~(m_ready /\ m_valid_i) /\ waited \in Nat
      BY <1>3 DEF ChanTypeOK
    <2>2. /\ tdiff \in Time /\ tdiff' = IF tdiff = 0 THEN Period-1 ELSE tdiff - 1
          /\ Len(fifo') >= 1
      BY <2>1, Closer
    <2>3. ~(tdiff >= Half)
      BY <1>3, Zenon DEF m_valid_i, Passed
    <2>4. waited' = waited + 1
      BY <1>1, <1>3
    <2>5. waited + tdiff < Half
      BY <2>1, <2>2, <2>3, HalfFact DEF LateInv, Time
    <2> HIDE DEF held
    <2> QED BY <2>1, <2>2, <2>3, <2>4, <2>5, HalfFact DEF LateInv, Time
  <1> QED BY <1>2, <1>3

\* A transfer whose delay is over is held back for no more than half a turn of
\* the counter (LateBounded), for every delay, depth and counter width: the
\* comparison with the counter cannot go wrong for longer.
THEOREM LateHalf == ChanSpec => []LateBounded
  <1>1. ChanInit => LateInv
    BY DEF ChanInit, LateInv
  <1>2. ChanTypeOK /\ LateInv /\ [ChanNext]_chanVars => LateInv'
    <2> SUFFICES ASSUME ChanTypeOK, LateInv, [ChanNext]_chanVars PROVE LateInv'
      OBVIOUS
    <2>1. CASE \E s_valid, m_ready, see \in BOOLEAN : Edge(s_valid, m_ready, see)
      BY <2>1, EdgeLate
    <2>2. CASE \E d \in Delays : SetDelay(d)
      BY <2>2 DEF SetDelay, LateInv, tdiff
    <2>3. CASE UNCHANGED chanVars
      BY <2>3 DEF chanVars, LateInv, tdiff
    <2> QED BY <2>1, <2>2, <2>3 DEF ChanNext
  <1>3. ChanTypeOK /\ LateInv => LateBounded
    BY HalfFact DEF ChanTypeOK, LateInv, LateBounded
  <1> QED BY <1>1, <1>2, <1>3, TypeCorrect, PTL DEF ChanSpec
=============================================================================
