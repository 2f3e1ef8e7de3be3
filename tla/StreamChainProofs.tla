------------------------- MODULE StreamChainProofs --------------------------
(***************************************************************************)
(* StreamChain for every depth of its FIFOs and every set of words: five   *)
(* registers and rings with a combinational ready path are one queue.      *)
(***************************************************************************)
EXTENDS StreamChain, SequenceTheorems, TLAPS

Item == Word \cup {Zero}
Idx(depth) == 0 .. depth - 1
RingType(depth) == [data : [Idx(depth) -> Item], rd : Idx(depth), wr : Idx(depth),
                    full : BOOLEAN, empty : BOOLEAN]

\* A ring out of reset: its flags tell apart what equal indices leave open, and
\* what it holds are words that were written.
RingOK(f, depth) ==
    /\ f \in RingType(depth)
    /\ f.rd = f.wr <=> (f.full \/ f.empty)
    /\ ~(f.full /\ f.empty)
    /\ \A k \in 1 .. Size(f, depth) : f.data[Wrap(f.rd + (k - 1), depth)] \in Word

\* What an edge moves out of a sequence and what it leaves.
Moved(s, b) == IF b THEN <<Head(s)>> ELSE <<>>
Left(s, b) == IF b THEN Tail(s) ELSE s

Front == IF fwd.valid THEN <<fwd.data>> ELSE <<>>

PoweredUp == /\ fwd = [valid |-> FALSE, data |-> Zero]
             /\ fifo = PowerUp(Depth) /\ rev = PowerUp(2) /\ rv = PowerUp(Depth)

Running == /\ fwd \in [valid : BOOLEAN, data : Item]
           /\ fwd.valid => fwd.data \in Word
           /\ RingOK(fifo, Depth) /\ RingOK(rev, 2) /\ RingOK(rv, Depth)

\* The inductive invariant: a chain before its reset, or one with exact flags.
IInv == /\ wval \in BOOLEAN /\ rrdy \in BOOLEAN /\ wdata \in Item
        /\ wval => wdata \in Word
        /\ PoweredUp \/ Running
-----------------------------------------------------------------------------
(* One ring *)

LEMMA RingShape ==
    ASSUME NEW depth \in Nat \ {0}, NEW f, RingOK(f, depth)
    PROVE  /\ Size(f, depth) \in 0 .. depth
           /\ f.full <=> Size(f, depth) = depth
           /\ f.empty <=> Size(f, depth) = 0
           /\ Words(f, depth) \in Seq(Word) /\ Len(Words(f, depth)) = Size(f, depth)
           /\ ~f.empty => Words(f, depth) # <<>> /\ Head(Words(f, depth)) = Out(f)
  <1>1. /\ f.rd \in Idx(depth) /\ f.wr \in Idx(depth)
        /\ f.full \in BOOLEAN /\ f.empty \in BOOLEAN
    BY DEF RingOK, RingType
  <1>2. /\ Size(f, depth) \in 0 .. depth
        /\ f.full <=> Size(f, depth) = depth
        /\ f.empty <=> Size(f, depth) = 0
    BY <1>1 DEF RingOK, Size, Wrap, Idx
  <1>3. Words(f, depth) \in [1 .. Size(f, depth) -> Word]
    BY DEF RingOK, Words
  <1>4. Words(f, depth) \in Seq(Word) /\ Len(Words(f, depth)) = Size(f, depth)
    BY <1>2, <1>3
  <1>5. ASSUME ~f.empty PROVE Words(f, depth) # <<>> /\ Head(Words(f, depth)) = Out(f)
    <2>1. Size(f, depth) > 0
      BY <1>2, <1>5
    <2>2. Words(f, depth)[1] = f.data[Wrap(f.rd, depth)]
      BY <1>1, <1>2, <2>1 DEF Words, Idx
    <2>3. Wrap(f.rd, depth) = f.rd
      BY <1>1 DEF Wrap, Idx
    <2> QED BY <1>4, <2>1, <2>2, <2>3 DEF Out
  <1> QED BY <1>2, <1>4, <1>5

\* A ring after one edge: it lost its oldest word if it had one and the next stage
\* was ready, and gained the word offered if it was not full.
Stepped(f, depth, din, w, r) ==
    LET g == ms_ring(f, depth, din, w, r)
    IN  /\ RingOK(g, depth)
        /\ Words(g, depth) = Left(Words(f, depth), r /\ ~f.empty)
                             \o (IF w /\ ~f.full THEN <<din>> ELSE <<>>)

\* ms_proc: one edge with any combination of an accepted and a delivered word.
LEMMA RingStep ==
    ASSUME NEW depth \in Nat \ {0}, NEW f, RingOK(f, depth), NEW din \in Item,
           NEW w \in BOOLEAN, NEW r \in BOOLEAN, w /\ ~f.full => din \in Word
    PROVE  Stepped(f, depth, din, w, r)
  <1> SUFFICES ASSUME NEW g, g = ms_ring(f, depth, din, w, r)
               PROVE  /\ RingOK(g, depth)
                      /\ Words(g, depth) = Left(Words(f, depth), r /\ ~f.empty)
                                           \o (IF w /\ ~f.full THEN <<din>> ELSE <<>>)
    BY DEF Stepped
  <1> DEFINE we == w /\ ~f.full
             re == r /\ ~f.empty
             n == Size(f, depth)
             m == n - (IF re THEN 1 ELSE 0)
             from == IF re THEN 1 ELSE 0
             s == Words(f, depth)
             t == Words(g, depth)
  <1>1. /\ f.rd \in Idx(depth) /\ f.wr \in Idx(depth) /\ f.data \in [Idx(depth) -> Item]
        /\ f.full \in BOOLEAN /\ f.empty \in BOOLEAN
    BY DEF RingOK, RingType
  <1>2. /\ n \in 0 .. depth /\ (f.full <=> n = depth) /\ (f.empty <=> n = 0)
        /\ s \in Seq(Word) /\ Len(s) = n
    BY RingShape
  <1>3. ASSUME NEW i \in Idx(depth)
        PROVE  (i + 1) % depth = IF i = depth - 1 THEN 0 ELSE i + 1
    BY <1>3, SMT DEF Idx
  <1>4. /\ g.data = IF we THEN [f.data EXCEPT ![f.wr] = din] ELSE f.data
        /\ g.wr = IF we THEN (IF f.wr = depth - 1 THEN 0 ELSE f.wr + 1) ELSE f.wr
        /\ g.rd = IF re THEN (IF f.rd = depth - 1 THEN 0 ELSE f.rd + 1) ELSE f.rd
    BY <1>1, <1>3 DEF ms_ring
  <1>5. /\ g.full \in BOOLEAN /\ g.empty \in BOOLEAN
        /\ we = re => (g.full <=> f.full) /\ (g.empty <=> f.empty)
        /\ we /\ ~re => (g.full <=> f.full \/ g.wr = f.rd) /\ ~g.empty
        /\ re /\ ~we => (g.empty <=> f.empty \/ g.rd = f.wr) /\ ~g.full
    BY <1>1, <1>3, <1>4 DEF ms_ring
  <1>6. g \in RingType(depth)
    <2>1. g = [data |-> g.data, wr |-> g.wr, rd |-> g.rd, full |-> g.full, empty |-> g.empty]
      BY DEF ms_ring
    <2>2. /\ g.data \in [Idx(depth) -> Item] /\ g.wr \in Idx(depth) /\ g.rd \in Idx(depth)
      BY <1>1, <1>4 DEF Idx
    <2> QED BY <2>1, <2>2, <1>5 DEF RingType
  <1>7. (g.rd = g.wr <=> (g.full \/ g.empty)) /\ ~(g.full /\ g.empty)
    BY <1>1, <1>4, <1>5 DEF RingOK, Idx
  <1>8. Size(g, depth) = m + (IF we THEN 1 ELSE 0) /\ m \in 0 .. depth /\ m + (IF we THEN 1 ELSE 0) \in 0 .. depth
    <2>1. /\ f.rd \in 0 .. depth-1 /\ f.wr \in 0 .. depth-1
          /\ g.rd \in 0 .. depth-1 /\ g.wr \in 0 .. depth-1
      BY <1>1, <1>6 DEF Idx, RingType
    <2>2. (f.rd = f.wr <=> (f.full \/ f.empty)) /\ ~(f.full /\ f.empty)
      BY DEF RingOK
    <2>3. n = IF f.full THEN depth ELSE Wrap(f.wr - f.rd + depth, depth)
      BY DEF Size
    <2>4. Size(g, depth) = IF g.full THEN depth ELSE Wrap(g.wr - g.rd + depth, depth)
      BY DEF Size
    <2> HIDE DEF n
    <2> DEFINE frd == f.rd  fwr == f.wr  grd == g.rd  gwr == g.wr  z == Size(g, depth)
    <2> HIDE DEF frd, fwr, grd, gwr, z
    <2>5. CASE we /\ re
      <3>1. ~f.full /\ ~f.empty /\ ~g.full /\ ~g.empty /\ frd # fwr
        BY <2>2, <2>5, <1>5 DEF frd, fwr
      <3>2. n = Wrap(fwr - frd + depth, depth) /\ z = Wrap(gwr - grd + depth, depth)
        BY <2>3, <2>4, <3>1 DEF frd, fwr, grd, gwr, z
      <3>3. /\ gwr = IF fwr = depth-1 THEN 0 ELSE fwr + 1
            /\ grd = IF frd = depth-1 THEN 0 ELSE frd + 1
        BY <2>5, <1>4 DEF frd, fwr, grd, gwr
      <3>4. frd \in 0 .. depth-1 /\ fwr \in 0 .. depth-1
        BY <2>1 DEF frd, fwr
      <3>5. z = n /\ n \in 1 .. depth-1
        BY <3>1, <3>2, <3>3, <3>4 DEF Wrap
      <3> HIDE DEF we, re
      <3> QED BY <2>5, <3>5 DEF z
    <2>6. CASE we /\ ~re
      <3>1. ~f.full /\ (g.full <=> gwr = frd) /\ (frd = fwr <=> f.empty) /\ grd = frd
        BY <2>2, <2>6, <1>4, <1>5 DEF frd, fwr, grd, gwr
      <3>2. /\ n = Wrap(fwr - frd + depth, depth)
            /\ z = IF gwr = frd THEN depth ELSE Wrap(gwr - grd + depth, depth)
        BY <2>3, <2>4, <3>1 DEF frd, fwr, grd, gwr, z
      <3>3. gwr = IF fwr = depth-1 THEN 0 ELSE fwr + 1
        BY <2>6, <1>4 DEF frd, fwr, grd, gwr
      <3>4. frd \in 0 .. depth-1 /\ fwr \in 0 .. depth-1
        BY <2>1 DEF frd, fwr
      <3>5. z = n + 1 /\ n \in 0 .. depth-1
        BY <3>1, <3>2, <3>3, <3>4 DEF Wrap
      <3> HIDE DEF we, re
      <3> QED BY <2>6, <3>5 DEF z
    <2>7. CASE ~we /\ re
      <3>1. ~g.full /\ ~f.empty /\ (frd = fwr <=> f.full) /\ gwr = fwr
        BY <2>2, <2>7, <1>4, <1>5 DEF frd, fwr, grd, gwr
      <3>2. /\ n = IF frd = fwr THEN depth ELSE Wrap(fwr - frd + depth, depth)
            /\ z = Wrap(gwr - grd + depth, depth)
        BY <2>3, <2>4, <3>1 DEF frd, fwr, grd, gwr, z
      <3>3. grd = IF frd = depth-1 THEN 0 ELSE frd + 1
        BY <2>7, <1>4 DEF frd, fwr, grd, gwr
      <3>4. frd \in 0 .. depth-1 /\ fwr \in 0 .. depth-1
        BY <2>1 DEF frd, fwr
      <3>5. z = n - 1 /\ n \in 1 .. depth
        BY <3>1, <3>2, <3>3, <3>4 DEF Wrap
      <3> HIDE DEF we, re
      <3> QED BY <2>7, <3>5 DEF z
    <2>8. CASE ~we /\ ~re
      BY <2>1, <2>2, <2>3, <2>4, <2>8, <1>4, <1>5 DEF Wrap
    <2> QED BY <2>5, <2>6, <2>7, <2>8
  <1>9. ASSUME NEW k \in 1 .. m
        PROVE  g.data[Wrap(g.rd + (k - 1), depth)] = s[k + from]
    <2>1. k + from \in 1 .. n
      BY <1>2, <1>8
    <2>2. Wrap(g.rd + (k - 1), depth) = Wrap(f.rd + (k + from - 1), depth)
      BY <1>1, <1>2, <1>4, <2>1 DEF Wrap, Idx
    <2>3. Wrap(f.rd + (k + from - 1), depth) \in Idx(depth)
      BY <1>1, <1>2, <2>1 DEF Wrap, Idx
    <2>4. we => Wrap(f.rd + (k + from - 1), depth) # f.wr
      BY <1>1, <1>2, <2>1, SMTT(20) DEF Wrap, Idx, Size, RingOK
    <2>5. s[k + from] = f.data[Wrap(f.rd + (k + from - 1), depth)]
      BY <2>1 DEF Words
    <2> QED BY <1>1, <1>4, <2>2, <2>3, <2>4, <2>5
  <1>10. ASSUME we PROVE g.data[Wrap(g.rd + m, depth)] = din
    <2>1. Wrap(g.rd + m, depth) = f.wr
      BY <1>1, <1>2, <1>4, <1>8, <1>10, SMTT(20) DEF Wrap, Idx, Size, RingOK
    <2> QED BY <1>1, <1>4, <1>10, <2>1
  <1>11. \A k \in 1 .. m : s[k + from] \in Word
    BY <1>2, <1>8
  <1> DEFINE size == Size(g, depth)
  <1>12. \A k \in 1 .. size : k \in 1 .. m \/ (we /\ k = m + 1)
    BY <1>8
  <1>13. \A k \in 1 .. size : g.data[Wrap(g.rd + (k - 1), depth)] \in Word
    <2> SUFFICES ASSUME NEW k \in 1 .. size PROVE g.data[Wrap(g.rd + (k - 1), depth)] \in Word
      OBVIOUS
    <2>1. CASE k \in 1 .. m
      BY <2>1, <1>9, <1>11
    <2>2. CASE we /\ k = m + 1
      <3>1. k - 1 = m
        BY <2>2, <1>8
      <3> QED BY <2>2, <3>1, <1>10
    <2> QED BY <2>1, <2>2, <1>12
  <1>14. RingOK(g, depth)
    BY <1>6, <1>7, <1>13 DEF RingOK
  <1>15. /\ t \in Seq(Word) /\ Len(t) = size
         /\ \A k \in 1 .. size : t[k] = g.data[Wrap(g.rd + (k - 1), depth)]
    <2>1. t \in Seq(Word) /\ Len(t) = size
      BY <1>14, RingShape
    <2>2. \A k \in 1 .. size : t[k] = g.data[Wrap(g.rd + (k - 1), depth)]
      BY DEF Words
    <2> QED BY <2>1, <2>2
  <1> DEFINE left == Left(s, re)
             in == IF we THEN <<din>> ELSE <<>>
             joined == left \o in
  <1>16. /\ left \in Seq(Word) /\ Len(left) = m /\ \A k \in 1 .. m : left[k] = s[k + from]
    <2>1. CASE re
      <3>1. s # <<>>
        BY <1>2, <2>1
      <3> QED BY <1>2, <2>1, <3>1, HeadTailProperties DEF Left
    <2>2. CASE ~re
      BY <1>2, <2>2 DEF Left
    <2> QED BY <2>1, <2>2
  <1>17. in \in Seq(Word) /\ Len(in) = (IF we THEN 1 ELSE 0) /\ (we => in[1] = din)
    OBVIOUS
  <1> HIDE DEF left, in, size
  <1>18. /\ joined \in Seq(Word) /\ Len(joined) = size
         /\ \A k \in 1 .. m : joined[k] = left[k]
         /\ we => joined[m + 1] = din
    <2> DEFINE l == Len(left)
    <2>1. /\ joined \in Seq(Word) /\ Len(joined) = l + Len(in)
          /\ \A k \in 1 .. l + Len(in) : joined[k] = IF k <= l THEN left[k] ELSE in[k - l]
      BY <1>16, <1>17, ConcatProperties
    <2>2. l = m /\ m \in Nat /\ Len(in) \in Nat /\ size = m + Len(in)
      BY <1>8, <1>16, <1>17 DEF size
    <2> HIDE DEF m, joined, l
    <2>3. \A k \in 1 .. m : joined[k] = left[k]
      BY <2>1, <2>2
    <2>4. ASSUME we PROVE joined[m + 1] = din
      <3>1. Len(in) = 1 /\ in[1] = din
        BY <2>4, <1>17
      <3> QED BY <2>1, <2>2, <3>1
    <2> QED BY <2>1, <2>2, <2>3, <2>4
  <1> HIDE DEF joined
  <1>19. ASSUME NEW k \in 1 .. size PROVE t[k] = joined[k]
    <2>1. CASE k \in 1 .. m
      BY <2>1, <1>9, <1>15, <1>16, <1>18, SMTT(20)
    <2>2. CASE we /\ k = m + 1
      <3>1. k - 1 = m
        BY <2>2, <1>8
      <3> QED BY <2>2, <3>1, <1>10, <1>15, <1>18
    <2> QED BY <2>1, <2>2, <1>12
  <1>20. t = joined
    BY <1>15, <1>18, <1>19, SeqEqual
  <1> QED BY <1>14, <1>20 DEF joined, left, in
-----------------------------------------------------------------------------
(* Sequences *)

LEMMA Split ==
    ASSUME NEW s \in Seq(Word), NEW b \in BOOLEAN, b => s # <<>>
    PROVE  /\ Moved(s, b) \in Seq(Word) /\ Left(s, b) \in Seq(Word)
           /\ Moved(s, b) \o Left(s, b) = s
  <1>1. CASE b
    <2>1. Head(s) \in Word /\ Tail(s) \in Seq(Word) /\ s = <<Head(s)>> \o Tail(s)
      BY <1>1, HeadTailProperties
    <2> QED BY <1>1, <2>1 DEF Moved, Left
  <1>2. CASE ~b
    <2>1. <<>> \in Seq(Word) /\ <<>> \o s = s
      BY ConcatEmptySeq
    <2> QED BY <1>2, <2>1 DEF Moved, Left
  <1> QED BY <1>1, <1>2

Regrouped(a, m, b, c) == (a \o m) \o (b \o c) = (a \o (m \o b)) \o c

\* What one stage hands over and the next takes stays where it was.
LEMMA Regroup ==
    ASSUME NEW a \in Seq(Word), NEW m \in Seq(Word), NEW b \in Seq(Word), NEW c \in Seq(Word)
    PROVE  Regrouped(a, m, b, c)
  <1>1. (a \o m) \in Seq(Word) /\ (m \o b) \in Seq(Word)
    BY ConcatProperties
  <1>2. ((a \o m) \o b) \o c = (a \o m) \o (b \o c)
    BY <1>1, ConcatAssociative, SMTT(20)
  <1>3. (a \o m) \o b = a \o (m \o b)
    BY ConcatAssociative
  <1> QED BY <1>2, <1>3 DEF Regrouped

LEMMA TakeFirst ==
    ASSUME NEW s \in Seq(Word), NEW t \in Seq(Word), NEW b \in BOOLEAN, b => s # <<>>
    PROVE  /\ Left(s \o t, b) = Left(s, b) \o t
           /\ b => s \o t # <<>> /\ Head(s \o t) = Head(s)
  <1>1. CASE b
    <2>1. Head(s) \in Word /\ Tail(s) \in Seq(Word) /\ s = <<Head(s)>> \o Tail(s)
      BY <1>1, HeadTailProperties
    <2>2. <<Head(s)>> \in Seq(Word)
      BY <2>1
    <2>3. s \o t = <<Head(s)>> \o (Tail(s) \o t)
      BY <2>1, <2>2, ConcatAssociative
    <2>4. Tail(s) \o t \in Seq(Word)
      BY <2>1, ConcatProperties
    <2>5. Head(<<Head(s)>> \o (Tail(s) \o t)) = Head(s) /\ Tail(<<Head(s)>> \o (Tail(s) \o t)) = Tail(s) \o t
      BY <2>1, <2>4
    <2>6. s \o t # <<>>
      BY <1>1, ConcatProperties
    <2> QED BY <1>1, <2>3, <2>5, <2>6 DEF Left
  <1>2. CASE ~b
    BY <1>2 DEF Left
  <1> QED BY <1>1, <1>2
-----------------------------------------------------------------------------
(* The chain *)

LEMMA Initially == Init => IInv
  BY DEF Init, IInv, PoweredUp, Item

\* A ring that was just reset is empty, as is one that has just powered up.
LEMMA NewRing ==
    ASSUME NEW depth \in Nat \ {0}
    PROVE  /\ RingOK(Cleared(depth), depth) /\ Words(Cleared(depth), depth) = <<>>
           /\ Words(PowerUp(depth), depth) = <<>>
  <1>1. PowerUp(depth) = [data |-> [i \in 0 .. depth-1 |-> Zero], rd |-> 0, wr |-> 0,
                          full |-> FALSE, empty |-> FALSE]
    BY DEF PowerUp, Zeroed
  <1>2. Cleared(depth) = [data |-> [i \in 0 .. depth-1 |-> Zero], rd |-> 0, wr |-> 0,
                          full |-> FALSE, empty |-> TRUE]
    BY DEF Cleared, Zeroed
  <1>3. Size(PowerUp(depth), depth) = 0 /\ Size(Cleared(depth), depth) = 0
    BY <1>1, <1>2 DEF Size, Wrap
  <1>4. /\ 1 .. Size(PowerUp(depth), depth) = {} /\ 1 .. Size(Cleared(depth), depth) = {}
    BY <1>3
  <1>5. Words(Cleared(depth), depth) = <<>> /\ Words(PowerUp(depth), depth) = <<>>
    BY <1>4 DEF Words
  <1>6. Cleared(depth) \in RingType(depth)
    <2>1. 0 \in Idx(depth) /\ [i \in 0 .. depth-1 |-> Zero] \in [Idx(depth) -> Item]
      BY DEF Idx, Item
    <2> QED BY <2>1, <1>2 DEF RingType
  <1>7. Cleared(depth).rd = Cleared(depth).wr /\ Cleared(depth).empty /\ ~Cleared(depth).full
    BY <1>2
  <1>8. RingOK(Cleared(depth), depth)
    BY <1>4, <1>6, <1>7 DEF RingOK
  <1> QED BY <1>5, <1>8

LEMMA EmptyChain ==
    ASSUME PoweredUp
    PROVE  Contents = <<>>
  <1>1. Words(rv, Depth) = <<>> /\ Words(rev, 2) = <<>> /\ Words(fifo, Depth) = <<>> /\ ~fwd.valid
    BY NewRing, ChainAssumption DEF PoweredUp
  <1> QED BY <1>1 DEF Contents

\* Before the first reset no ring works: Unreset, the guard of Edge, tells it apart.
LEMMA Guards ==
    ASSUME IInv
    PROVE  PoweredUp <=> Unreset
  <1>1. ASSUME PoweredUp
        PROVE  Unreset
    BY <1>1 DEF PoweredUp, PowerUp, Zeroed, Unreset
  <1>2. ASSUME Running
        PROVE  ~Unreset
    BY <1>2 DEF Running, RingOK, Unreset
  <1> QED BY <1>1, <1>2 DEF IInv

LEMMA ResetStep ==
    ASSUME IInv, Reset
    PROVE  IInv' /\ Contents' = <<>> /\ put' = NoWord /\ got' = NoWord
  <1>1. fwd' = [valid |-> FALSE, data |-> Zero] /\ UNCHANGED <<wval, wdata, rrdy>>
    BY DEF Reset
  <1>2. /\ RingOK(fifo', Depth) /\ RingOK(rev', 2) /\ RingOK(rv', Depth)
        /\ Words(fifo', Depth) = <<>> /\ Words(rev', 2) = <<>> /\ Words(rv', Depth) = <<>>
    BY NewRing, ChainAssumption DEF Reset
  <1>3. Running'
    BY <1>1, <1>2 DEF Running, Item
  <1>4. IInv'
    BY <1>1, <1>3 DEF IInv
  <1>5. Contents' = <<>>
    BY <1>1, <1>2 DEF Contents
  <1> QED BY <1>4, <1>5 DEF Reset

\* One edge: each stage moves at most one word on, so what is inside only loses
\* its oldest word to the reader and gains the writer's at the end.
LEMMA EdgeStep ==
    ASSUME IInv, NEW d \in Word \cup {NoWord}, NEW more \in BOOLEAN, Edge(d, more)
    PROVE  IInv' /\ Q!Next
  <1> DEFINE A == Words(rv, Depth)
             B == Words(rev, 2)
             C == Words(fifo, Depth)
             out == rrdy /\ ~rv.empty
             r2 == ~rev.empty /\ ~rv.full
             r3 == ~fifo.empty /\ ~rev.full
             r4 == fwd.valid /\ ~fifo.full
             new == wval /\ FwdReady
             in == IF new THEN <<wdata>> ELSE <<>>
  <1>1. Running
    BY Guards DEF IInv, Edge
  <1>2. /\ fwd.valid \in BOOLEAN /\ fwd.data \in Item /\ (fwd.valid => fwd.data \in Word)
        /\ RingOK(fifo, Depth) /\ RingOK(rev, 2) /\ RingOK(rv, Depth)
        /\ Depth \in Nat \ {0} /\ 2 \in Nat \ {0}
    BY <1>1, ChainAssumption DEF Running
  <1>3. /\ fifo.full \in BOOLEAN /\ fifo.empty \in BOOLEAN /\ rev.full \in BOOLEAN
        /\ rev.empty \in BOOLEAN /\ rv.full \in BOOLEAN /\ rv.empty \in BOOLEAN
        /\ Out(fifo) \in Item /\ Out(rev) \in Item /\ Out(rv) \in Item
    BY <1>2 DEF RingOK, RingType, Out
  <1>4. /\ A \in Seq(Word) /\ Len(A) \in 0 .. Depth /\ (rv.full <=> Len(A) = Depth)
        /\ ~rv.empty => A # <<>> /\ Head(A) = Out(rv)
    BY <1>2, RingShape
  <1>5. /\ B \in Seq(Word) /\ Len(B) \in 0 .. 2
        /\ ~rev.empty => B # <<>> /\ Head(B) = Out(rev)
    <2> DEFINE two == 2
    <2>1. two \in Nat \ {0} /\ RingOK(rev, two)
      BY <1>2
    <2> HIDE DEF two
    <2>2. /\ Words(rev, two) \in Seq(Word) /\ Len(Words(rev, two)) \in 0 .. two
          /\ ~rev.empty => Words(rev, two) # <<>> /\ Head(Words(rev, two)) = Out(rev)
      BY <2>1, RingShape
    <2> QED BY <2>2 DEF two
  <1>6. /\ C \in Seq(Word) /\ Len(C) \in 0 .. Depth /\ (fifo.full <=> Len(C) = Depth)
        /\ ~fifo.empty => C # <<>> /\ Head(C) = Out(fifo)
    BY <1>2, RingShape
  <1>7. /\ Front \in Seq(Word) /\ Len(Front) = (IF fwd.valid THEN 1 ELSE 0)
        /\ fwd.valid => Front # <<>> /\ Head(Front) = fwd.data
    BY <1>2 DEF Front
  <1>8. /\ RingOK(rv', Depth)
        /\ Words(rv', Depth) = Left(A, out) \o Moved(B, r2)
    <2> DEFINE w == Bypass.valid
               din == Bypass.data
               g == rv'
    <2>1. g = ms_ring(rv, Depth, din, w, rrdy) /\ rrdy \in BOOLEAN
      BY DEF Edge, IInv
    <2>2. din = Out(rev) /\ w = ~rev.empty /\ w \in BOOLEAN
      BY Zenon DEF Bypass, mc_io
    <2> HIDE DEF g, w, din
    <2>3. din \in Item /\ (w => din \in Word /\ din = Head(B))
      BY <1>3, <1>5, <2>2, HeadTailProperties
    <2>4. /\ RingOK(g, Depth)
          /\ Words(g, Depth) = Left(A, rrdy /\ ~rv.empty) \o (IF w /\ ~rv.full THEN <<din>> ELSE <<>>)
      <3>1. /\ Depth \in Nat \ {0} /\ RingOK(rv, Depth) /\ rrdy \in BOOLEAN
            /\ w \in BOOLEAN /\ din \in Item /\ (w /\ ~rv.full => din \in Word)
        BY <1>2, <2>1, <2>2, <2>3
      <3>2. Stepped(rv, Depth, din, w, rrdy)
        BY <3>1, RingStep
      <3> QED BY <2>1, <3>2 DEF Stepped
    <2>5. (IF w /\ ~rv.full THEN <<din>> ELSE <<>>) = Moved(B, r2)
      BY <2>2, <2>3 DEF Moved
    <2> QED BY <2>4, <2>5 DEF g
  <1>9. /\ RingOK(rev', 2)
        /\ Words(rev', 2) = Left(B, r2) \o Moved(C, r3)
    <2> DEFINE w == ~fifo.empty
               din == Out(fifo)
               r == Bypass.ready
               two == 2
               g == rev'
    <2>1. g = ms_ring(rev, two, din, w, r) /\ w \in BOOLEAN
      BY <1>3 DEF Edge
    <2>2. (r <=> ~rv.full) /\ r \in BOOLEAN /\ two \in Nat \ {0} /\ RingOK(rev, two)
      BY <1>2, Zenon DEF Bypass, mc_io
    <2>3. din \in Item /\ (w => din \in Word /\ din = Head(C))
      BY <1>3, <1>6, HeadTailProperties
    <2>4. w /\ ~rev.full => din \in Word
      BY <2>3
    <2> HIDE DEF g, w, din, r, two
    <2>5. Stepped(rev, two, din, w, r)
      BY <2>1, <2>2, <2>3, <2>4, RingStep
    <2>6. (IF w /\ ~rev.full THEN <<din>> ELSE <<>>) = Moved(C, r3)
      BY <2>3 DEF Moved, w
    <2>7. Left(Words(rev, two), r /\ ~rev.empty) = Left(B, r2)
      BY <2>2 DEF two, Left
    <2> QED BY <2>1, <2>5, <2>6, <2>7 DEF g, two, Stepped
  <1>10. /\ RingOK(fifo', Depth)
         /\ Words(fifo', Depth) = Left(C, r3) \o Moved(Front, r4)
    <2> DEFINE w == fwd.valid
               din == fwd.data
               r == ~rev.full
               g == fifo'
    <2>1. g = ms_ring(fifo, Depth, din, w, r) /\ r \in BOOLEAN
      BY <1>3 DEF Edge
    <2>2. /\ w \in BOOLEAN /\ din \in Item /\ (w /\ ~fifo.full => din \in Word)
          /\ (w => din = Head(Front))
      BY <1>2, <1>7
    <2> HIDE DEF g, w, din, r
    <2>5. Stepped(fifo, Depth, din, w, r)
      BY <1>2, <2>1, <2>2, RingStep
    <2>6. (IF w /\ ~fifo.full THEN <<din>> ELSE <<>>) = Moved(Front, r4)
      BY <2>2 DEF Moved, w
    <2>7. Left(Words(fifo, Depth), r /\ ~fifo.empty) = Left(C, r3)
      BY DEF r, Left
    <2> QED BY <2>1, <2>5, <2>6, <2>7 DEF g, Stepped
  <1>11. /\ fwd' \in [valid : BOOLEAN, data : Item] /\ (fwd'.valid => fwd'.data \in Word)
         /\ Front' = Left(Front, r4) \o in
    <2>1. fwd' = IF FwdReady THEN [valid |-> wval, data |-> wdata] ELSE fwd
      BY DEF Edge, ms_fwd
    <2>2. CASE FwdReady
      <3>1. fwd'.valid = wval /\ fwd'.data = wdata /\ fwd' \in [valid : BOOLEAN, data : Item]
        BY <2>1, <2>2 DEF IInv
      <3>2. Left(Front, r4) = <<>>
        BY <2>2, <1>2 DEF FwdReady, Front, Left
      <3>3. Front' = in
        BY <3>1, <2>2 DEF Front
      <3>4. in \in Seq(Word) /\ <<>> \o in = in
        BY ConcatEmptySeq DEF IInv
      <3> QED BY <3>1, <3>2, <3>3, <3>4 DEF IInv
    <2>3. CASE ~FwdReady
      <3>1. fwd' = fwd /\ ~r4 /\ in = <<>>
        BY <2>1, <2>3, <1>2, <1>3 DEF FwdReady
      <3>2. Front \o <<>> = Front
        BY <1>7, ConcatEmptySeq
      <3> QED BY <1>1, <3>1, <3>2 DEF Running, Front, Left
    <2> QED BY <2>2, <2>3
  <1>12. IInv'
    <2>1. wval' \in BOOLEAN /\ wdata' \in Item /\ (wval' => wdata' \in Word)
      BY DEF Edge, Write, IInv, Item
    <2>2. rrdy' \in BOOLEAN
      BY DEF Edge, Read, IInv
    <2>3. Running'
      BY <1>8, <1>9, <1>10, <1>11 DEF Running
    <2> QED BY <2>1, <2>2, <2>3 DEF IInv
  <1>13. /\ out \in BOOLEAN /\ r2 \in BOOLEAN /\ r3 \in BOOLEAN /\ r4 \in BOOLEAN
         /\ out => A # <<>>
         /\ r2 => B # <<>>
         /\ r3 => C # <<>>
         /\ r4 => Front # <<>>
         /\ in \in Seq(Word) /\ new \in BOOLEAN
    BY <1>2, <1>4, <1>5, <1>6, <1>7, SMTT(20) DEF IInv
  <1>14. Contents' = Left(Contents, out) \o in
    <2> DEFINE LA == Left(A, out)    AB == LA \o B    ABC == AB \o C
               MB == Moved(B, r2)    LB == Left(B, r2)
               MC == Moved(C, r3)    LC == Left(C, r3)
               MF == Moved(Front, r4)  LF == Left(Front, r4)
    <2>1. /\ LA \in Seq(Word) /\ MB \in Seq(Word) /\ LB \in Seq(Word) /\ MB \o LB = B
          /\ MC \in Seq(Word) /\ LC \in Seq(Word) /\ MC \o LC = C
          /\ MF \in Seq(Word) /\ LF \in Seq(Word) /\ MF \o LF = Front
      BY <1>4, <1>5, <1>6, <1>7, <1>13, Split
    <2>2. Contents = ((A \o B) \o C) \o Front
      BY DEF Contents, Front
    <2>3. Contents' = ((Words(rv', Depth) \o Words(rev', 2)) \o Words(fifo', Depth)) \o Front'
      BY DEF Contents, Front
    <2>4. Contents' = (((LA \o MB) \o (LB \o MC)) \o (LC \o MF)) \o (LF \o in)
      BY <1>8, <1>9, <1>10, <1>11, <2>3
    <2>5. Left(Contents, out) = ABC \o Front
      <3>0. A \in Seq(Word) /\ B \in Seq(Word) /\ C \in Seq(Word) /\ Front \in Seq(Word)
        BY <1>4, <1>5, <1>6, <1>7
      <3>b. out \in BOOLEAN /\ (out => A # <<>>)
        BY <1>13
      <3>1. A \o B \in Seq(Word) /\ (A \o B) \o C \in Seq(Word)
        BY <3>0, ConcatProperties
      <3> HIDE DEF A, B, C, out, in
      <3> DEFINE s == A \o B   u == s \o C
      <3>2. Left(s, out) = AB /\ (out => s # <<>>)
        BY <3>0, <3>b, TakeFirst, ZenonT(20)
      <3>c. s \in Seq(Word) /\ C \in Seq(Word) /\ out \in BOOLEAN /\ (out => s # <<>>)
        BY <3>0, <3>b, <3>1, <3>2
      <3> HIDE DEF AB, s
      <3>3. Left(u, out) = Left(s, out) \o C /\ (out => u # <<>>)
        BY <3>c, TakeFirst, Zenon
      <3>d. u \in Seq(Word) /\ Front \in Seq(Word) /\ out \in BOOLEAN /\ (out => u # <<>>)
        BY <3>0, <3>b, <3>1, <3>3 DEF s
      <3> HIDE DEF u
      <3>4. Left(u \o Front, out) = Left(u, out) \o Front
        BY <3>d, TakeFirst, Zenon
      <3>5. Left(u, out) = ABC
        BY <3>2, <3>3, Zenon
      <3>6. Contents = u \o Front
        BY <2>2, Zenon DEF u, s
      <3> QED BY <3>4, <3>5, <3>6, Zenon
    <2> HIDE DEF LA, MB, LB, MC, LC, MF, LF, A, B, C, in, out
    <2>6. AB \in Seq(Word) /\ ABC \in Seq(Word)
      BY <1>5, <1>6, <2>1, ConcatProperties
    <2>7. (LA \o MB) \o (LB \o MC) = AB \o MC
      <3>1. (LA \o MB) \o (LB \o MC) = (LA \o (MB \o LB)) \o MC
        <4>1. LA \in Seq(Word) /\ MB \in Seq(Word) /\ LB \in Seq(Word) /\ MC \in Seq(Word)
          BY <2>1
        <4>2. Regrouped(LA, MB, LB, MC)
          BY <4>1, Regroup
        <4> QED BY <4>2, Zenon DEF Regrouped
      <3> QED BY <2>1, <3>1, Zenon
    <2> HIDE DEF AB
    <2>8. (AB \o MC) \o (LC \o MF) = ABC \o MF
      <3>1. (AB \o MC) \o (LC \o MF) = (AB \o (MC \o LC)) \o MF
        <4>1. AB \in Seq(Word) /\ MC \in Seq(Word) /\ LC \in Seq(Word) /\ MF \in Seq(Word)
          BY <2>1, <2>6
        <4>2. Regrouped(AB, MC, LC, MF)
          BY <4>1, Regroup
        <4> QED BY <4>2, Zenon DEF Regrouped
      <3> QED BY <2>1, <3>1, Zenon
    <2> HIDE DEF ABC
    <2>9. (ABC \o MF) \o (LF \o in) = (ABC \o Front) \o in
      <3>1. (ABC \o MF) \o (LF \o in) = (ABC \o (MF \o LF)) \o in
        <4>1. ABC \in Seq(Word) /\ MF \in Seq(Word) /\ LF \in Seq(Word) /\ in \in Seq(Word)
          BY <1>13, <2>1, <2>6
        <4>2. Regrouped(ABC, MF, LF, in)
          BY <4>1, Regroup
        <4> QED BY <4>2, Zenon DEF Regrouped
      <3> QED BY <2>1, <3>1, Zenon
    <2> QED BY <2>4, <2>5, <2>7, <2>8, <2>9
  <1>15. out => Contents # <<>> /\ Head(Contents) = Out(rv)
    <2>1. A \o B \in Seq(Word) /\ (A \o B) \o C \in Seq(Word)
      BY <1>4, <1>5, <1>6, ConcatProperties
    <2>2. out => A \o B # <<>> /\ Head(A \o B) = Out(rv)
      BY <1>4, <1>5, <1>13, TakeFirst
    <2>3. out => (A \o B) \o C # <<>> /\ Head((A \o B) \o C) = Out(rv)
      BY <1>6, <1>13, <2>1, <2>2, TakeFirst
    <2>4. out => ((A \o B) \o C) \o Front # <<>> /\ Head(((A \o B) \o C) \o Front) = Out(rv)
      BY <1>7, <1>13, <2>1, <2>3, TakeFirst
    <2> QED BY <2>4 DEF Contents, Front
  <1>16. Contents \in Seq(Word) /\ (new => Len(Contents) < Room)
    <2>1. A \o B \in Seq(Word) /\ (A \o B) \o C \in Seq(Word)
      BY <1>4, <1>5, <1>6, ConcatProperties
    <2>2. /\ Contents \in Seq(Word)
          /\ Len(Contents) = Len(A) + Len(B) + Len(C) + Len(Front)
      BY <1>4, <1>5, <1>6, <1>7, <2>1, ConcatProperties DEF Contents, Front
    <2>3. new => (Len(C) # Depth \/ Len(Front) = 0)
      BY <1>6, <1>7 DEF FwdReady
    <2>4. Len(Front) \in 0 .. 1
      BY <1>7
    <2>5. Len(A) \in 0 .. Depth /\ Len(B) \in 0 .. 2 /\ Len(C) \in 0 .. Depth
      BY <1>4, <1>5, <1>6
    <2> DEFINE a == Len(A)  b == Len(B)  c == Len(C)  f == Len(Front)  n == Len(Contents)
    <2>6. /\ a \in 0 .. Depth /\ b \in 0 .. 2 /\ c \in 0 .. Depth /\ f \in 0 .. 1
          /\ n = a + b + c + f
      BY <2>2, <2>4, <2>5
    <2>7. new => (c # Depth \/ f = 0)
      BY <2>3
    <2> HIDE DEF a, b, c, f, n, new
    <2>8. new => n < Room
      BY <2>6, <2>7, ChainAssumption DEF Room
    <2>9. new => Len(Contents) < Room
      BY <2>8 DEF n
    <2> QED BY <2>2, <2>9
  <1>17. Q!Next
    <2> DEFINE a == IF new THEN wdata ELSE NoWord
               e == IF out THEN Out(rv) ELSE NoWord
    <2>1. /\ put' = a /\ got' = e
          /\ a \in Q!OptWord /\ (a # NoWord <=> new)
      BY ChainAssumption DEF Edge, IInv, Q!OptWord
    <2>2. e \in Q!OptWord /\ (e # NoWord <=> out)
      BY <1>15, <1>16, ChainAssumption, HeadTailProperties DEF Q!OptWord
    <2>3. Contents' = LET rest == IF e # NoWord THEN Tail(Contents) ELSE Contents
                      IN  IF a # NoWord THEN Append(rest, a) ELSE rest
      <3>1. Left(Contents, out) = IF e # NoWord THEN Tail(Contents) ELSE Contents
        BY <2>2 DEF Left
      <3>2. Left(Contents, out) \in Seq(Word)
        BY <1>13, <1>15, <1>16, Split
      <3>3. CASE new
        <4>1. in = <<wdata>> /\ wdata \in Word /\ a = wdata
          BY <3>3 DEF IInv
        <4>2. Left(Contents, out) \o in = Append(Left(Contents, out), a)
          BY <3>2, <4>1, AppendIsConcat
        <4> QED BY <1>14, <2>1, <3>1, <3>3, <4>2
      <3>4. CASE ~new
        <4>1. Left(Contents, out) \o in = Left(Contents, out)
          BY <3>2, <3>4, ConcatEmptySeq
        <4> QED BY <1>14, <2>1, <3>1, <3>4, <4>1
      <3> QED BY <3>3, <3>4
    <2> HIDE DEF a, e
    <2>4. /\ a # NoWord => Len(Contents) < Room
          /\ e # NoWord => Contents # <<>> /\ e = Head(Contents)
      BY <1>15, <1>16, <2>1, <2>2 DEF e
    <2>5. Q!Edge(a, e)
      BY <2>1, <2>3, <2>4 DEF Q!Edge
    <2> QED BY <2>1, <2>2, <2>5 DEF Q!Next
  <1> QED BY <1>12, <1>17

\* For every depth and every set of words, the chain of slices and FIFOs
\* (sreg FWD, sfifo_cc, sreg FWD_REV, BYPASS, rvfifo_cc) implements the bounded
\* queue between the writing and the reading thread, with resets at any time.
THEOREM ChainImplementsQueue == Spec => ChainIsQueue
  <1>1. Init => Q!Init
    <2> SUFFICES ASSUME Init PROVE Q!Init
      OBVIOUS
    <2>1. PoweredUp /\ put = NoWord /\ got = NoWord
      BY DEF Init, PoweredUp
    <2> QED BY <2>1, EmptyChain DEF Q!Init
  <1>2. IInv /\ [Next]_vars => IInv' /\ [Q!Next]_(Q!qvars)
    <2> SUFFICES ASSUME IInv, [Next]_vars PROVE IInv' /\ (Q!Next \/ UNCHANGED Q!qvars)
      OBVIOUS
    <2>1. CASE Reset
      BY <2>1, ResetStep DEF Q!Next, Q!Reset
    <2>2. CASE \E d \in Word \cup {NoWord}, more \in BOOLEAN : Edge(d, more)
      BY <2>2, EdgeStep
    <2>3. CASE UNCHANGED vars
      BY <2>3 DEF vars, IInv, PoweredUp, Running, Q!qvars, Contents
    <2> QED BY <2>1, <2>2, <2>3 DEF Next
  <1> QED BY <1>1, <1>2, Initially, PTL DEF Spec, ChainIsQueue, Q!Spec
=============================================================================
