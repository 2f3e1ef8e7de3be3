---------------------------- MODULE LsuCtlProofs ----------------------------
(***************************************************************************)
(* The load-store channel for every register file, field width, DataMover *)
(* depth and set of packets the library may send (Careful).                *)
(***************************************************************************)
EXTENDS LsuCtl, TLAPS

\* What the theorems assume of the constants
Setting == Widths /\ Careful(Packets)

Tids == 0 .. DestMod-1
Command == [valid : {TRUE}, tid : Tids, tdest : {LSU}]
Entry == [req : BOOLEAN, dest : Tids, saddr : Nat, btt : Nat]

\* Beats j+1 to the end of p are still to come; the port knows its place in the
\* packet, and the words before are in the registers.
Sending(p, j) ==
    /\ Len(beats) = Len(p) - j /\ \A k \in 1 .. Len(p) - j : beats[k] = p[k + j]
    /\ IF j = 0 THEN alen_r = 0
       ELSE alen_r = Len(p) - j /\ asel_r = p[1].sel + j /\ awe_r = TRUE /\ p[1].wr
    /\ Len(p) > 1 => Idle
    /\ \A k \in 1 .. j : shadow[p[1].sel + k - 1] = p[k].data

HostInv ==
    /\ offered \in BOOLEAN /\ beats \in Seq(ControlBeat)
    /\ IF beats = <<>> THEN alen_r = 0 /\ offered = FALSE
       ELSE \E p \in Packets : \E j \in 0 .. Len(p) - 1 : Sending(p, j)

\* The registers hold what remains of the program: the commands still owed, and the
\* registers it will leave.
Core ==
    /\ reg \in [Registers -> Nat] /\ shadow \in [Registers -> Nat]
    /\ command \in {Invalid} \cup Command
    /\ owed = IF command.valid THEN Program(command.tid, reg) ELSE <<>>
    /\ \A i \in Registers \ {0} :
          shadow[i] = IF command.valid THEN Settled(reg)[i] ELSE reg[i]
    /\ command.valid /\ cmd(reg) = CMD_smove => rep(reg) # 0
    /\ shadow[3] < SizeMod /\ shadow[3] < BttMod /\ shadow[5] < BttMod
    /\ cmd(shadow) = CMD_smove => \E s \in Packets : Strided(s)

Status == [valid : {TRUE}, req : BOOLEAN, dest : Tids, flags : 0 .. 3]
Tag == [req : BOOLEAN, dest : Tids]
StatusInv ==
    /\ sts \in {Invalid} \cup Status /\ moverQ \in Seq(Tag)
    /\ reg[0] \in 0 .. 3 /\ result \in 0 .. 3 /\ BitOr(reg[0], result) = reg[0]

ProgramInv == HostInv /\ Core /\ StatusInv

-----------------------------------------------------------------------------
(* Sequences *)

LEMMA EmptySeq == ASSUME NEW S, NEW s \in Seq(S) PROVE (s # <<>> <=> Len(s) \in Nat \ {0})
  OBVIOUS

LEMMA HeadTailProperties ==
    ASSUME NEW S, NEW s \in Seq(S), s # <<>>
    PROVE  /\ Tail(s) \in Seq(S) /\ Len(Tail(s)) = Len(s) - 1
           /\ \A k \in 1 .. Len(s) - 1 : Tail(s)[k] = s[k + 1]
  OBVIOUS

LEMMA AppendProperties ==
    ASSUME NEW S, NEW s \in Seq(S), NEW e \in S
    PROVE  /\ Len(Append(s, e)) = Len(s) + 1 /\ Append(s, e)[Len(s) + 1] = e
           /\ \A k \in 1 .. Len(s) : Append(s, e)[k] = s[k]
  OBVIOUS

LEMMA ConcatEmptySeq ==
    ASSUME NEW S, NEW s \in Seq(S)
    PROVE  s \o <<>> = s /\ <<>> \o s = s
  OBVIOUS

LEMMA LenProperties == ASSUME NEW S, NEW s \in Seq(S) PROVE DOMAIN s = 1 .. Len(s)
  OBVIOUS

LEMMA SeqEqual ==
    ASSUME NEW S, NEW s \in Seq(S), NEW t \in Seq(S), Len(s) = Len(t), \A i \in 1 .. Len(s) : s[i] = t[i]
    PROVE  s = t
  OBVIOUS
-----------------------------------------------------------------------------
(* Remainders *)

LEMMA DivMod ==
    ASSUME NEW x \in Int, NEW b \in Nat \ {0}
    PROVE  x = b * (x \div b) + (x % b) /\ x % b \in 0 .. b-1 /\ x \div b \in Int
  OBVIOUS

LEMMA DivNat == ASSUME NEW x \in Nat, NEW b \in Nat \ {0} PROVE x \div b \in Nat
  <1> DEFINE q == x \div b
             r == x % b
  <1>1. x = b * q + r /\ r \in 0 .. b-1 /\ q \in Int
    BY DivMod
  <1> HIDE DEF q, r
  <1>2. CASE q < 0
    <2>1. b * (-q) >= b
      BY <1>1, <1>2
    <2>2. b * q <= -b
      BY <1>1, <2>1
    <2> QED BY <1>1, <2>2
  <1>3. q \in Nat
    BY <1>1, <1>2
  <1> QED BY <1>3 DEF q

\* Quotient and remainder are unique.
LEMMA DivModIs ==
    ASSUME NEW x \in Int, NEW b \in Nat \ {0}, NEW q \in Int, NEW r \in 0 .. b-1, x = b * q + r
    PROVE  x % b = r /\ x \div b = q
  <1> DEFINE p == x \div b
             s == x % b
  <1>1. x = b * p + s /\ s \in 0 .. b-1 /\ p \in Int
    BY DivMod
  <1> HIDE DEF p, s
  <1>2. CASE q > p
    <2>1. b * (q - p) >= b
      BY <1>1, <1>2
    <2>2. b * q - b * p >= b
      BY <1>1, <2>1
    <2> QED BY <1>1, <2>2
  <1>3. CASE q < p
    <2>1. b * (p - q) >= b
      BY <1>1, <1>3
    <2>2. b * p - b * q >= b
      BY <1>1, <2>1
    <2> QED BY <1>1, <2>2
  <1>4. CASE q = p
    <2>1. s = r
      BY <1>1, <1>4
    <2> QED BY <1>4, <2>1 DEF s, p
  <1> QED BY <1>1, <1>2, <1>3, <1>4

LEMMA ModSmall ==
    ASSUME NEW b \in Nat \ {0}, NEW x \in 0 .. b-1
    PROVE  x % b = x
  <1>1. x = b * 0 + x /\ x \in Int /\ 0 \in Int
    OBVIOUS
  <1> QED BY <1>1, DivModIs

LEMMA ModShift ==
    ASSUME NEW x \in Int, NEW b \in Nat \ {0}, NEW k \in Int
    PROVE  (x + b * k) % b = x % b
  <1> DEFINE q == x \div b
             r == x % b
             y == x + b * k
  <1>1. x = b * q + r /\ r \in 0 .. b-1 /\ q \in Int
    BY DivMod
  <1> HIDE DEF q, r
  <1>2. y = b * (q + k) + r /\ q + k \in Int /\ y \in Int
    BY <1>1
  <1> HIDE DEF y
  <1>3. y % b = r
    BY <1>1, <1>2, DivModIs
  <1> QED BY <1>3 DEF r, y

\* The address register after a step, seen by the DataMover and by later steps
LEMMA Wrapped ==
    ASSUME NEW a \in Int, NEW i \in Int, NEW m \in Nat \ {0}
    PROVE  ((a % m) + i) % m = (a + i) % m
  <1> DEFINE q == a \div m
             r == a % m
             x == a + i
  <1>1. a = m * q + r /\ r \in Int /\ q \in Int
    BY DivMod
  <1> HIDE DEF q, r
  <1>2. r + i = x + m * (-q) /\ x \in Int /\ -q \in Int
    BY <1>1
  <1> HIDE DEF x
  <1>3. (x + m * (-q)) % m = x % m
    BY <1>2, ModShift
  <1> QED BY <1>2, <1>3 DEF r, x

LEMMA ModDiffers ==
    ASSUME NEW a \in Int, NEW m \in Nat \ {0}
    PROVE  \E c \in Int : a % m = a + m * c
  <1> DEFINE q == a \div m
             r == a % m
  <1>1. a = m * q + r /\ r \in Int /\ q \in Int
    BY DivMod
  <1> HIDE DEF q, r
  <1>2. r = a + m * (-q) /\ -q \in Int
    BY <1>1
  <1> QED BY <1>2 DEF r

LEMMA Multiple ==
    ASSUME NEW x \in Nat, NEW b \in Nat \ {0}, x % b = 0
    PROVE  \E m \in Nat : x = m * b
  <1> DEFINE m == x \div b
  <1>1. x \in Int /\ m \in Nat
    BY DivNat
  <1>2. x = b * m + (x % b)
    BY <1>1, DivMod
  <1> HIDE DEF m
  <1>3. x = m * b
    BY <1>1, <1>2
  <1> QED BY <1>1, <1>3

LEMMA WrappedPart ==
    ASSUME NEW a \in Int, NEW i \in Int, NEW m \in Nat \ {0}, NEW s \in Nat \ {0}, NEW k \in Nat, m = k * s
    PROVE  ((a % m) + i) % s = (a + i) % s
  <1> PICK c \in Int : a % m = a + m * c
    BY ModDiffers
  <1> DEFINE x == a + i
             n == k * c
  <1>1. m * c = s * n /\ n \in Int
    OBVIOUS
  <1>2. (a % m) + i = x + m * c /\ x \in Int
    OBVIOUS
  <1> HIDE DEF x, n
  <1>3. (x + s * n) % s = x % s
    BY <1>1, <1>2, ModShift
  <1> QED BY <1>1, <1>2, <1>3 DEF x
-----------------------------------------------------------------------------
(* The fields of the registers *)

LEMMA SixRegisters ==
    ASSUME Widths
    PROVE  {0, 1, 2, 3, 4, 5} \subseteq Registers /\ AddrMod \in Nat \ {0}
  <1>1. {0, 1, 2, 3, 4, 5} \subseteq Registers
    BY PortAssumption DEF Widths, Registers
  <1>2. AddrLo \in Nat \ {0} /\ AddrHi \in Nat \ {0}
    BY DEF Widths
  <1>3. AddrHi * AddrLo \in Nat \ {0}
    BY <1>2
  <1> QED BY <1>1, <1>3 DEF AddrMod

LEMMA Fields ==
    ASSUME Widths, NEW r \in [Registers -> Nat]
    PROVE  /\ cmd(r) \in 0 .. 7 /\ reqstat(r) \in BOOLEAN /\ addr(r) \in Nat /\ size(r) \in Nat
           /\ inc(r) \in Nat /\ index(r) \in Nat /\ trans(r) \in Nat /\ rep(r) \in 0 .. RepMod-1
  <1>1. r[1] \in Nat /\ r[2] \in Nat /\ r[3] \in Nat /\ r[4] \in Nat /\ r[5] \in Nat
    BY SixRegisters
  <1>2. cmd(r) \in 0 .. 7 /\ reqstat(r) \in BOOLEAN
    BY <1>1 DEF cmd, reqstat
  <1>3. addr(r) \in Nat
    <2> DEFINE h == r[1] \div 16
    <2>1. h \in Nat /\ AddrLo \in Nat
      BY <1>1 DEF Widths
    <2> HIDE DEF h
    <2>2. h * AddrLo \in Nat
      BY <2>1
    <2> QED BY <1>1, <2>2 DEF addr, h
  <1>4. rep(r) \in 0 .. RepMod-1
    <2> DEFINE w == r[5]
    <2>1. RepMod \in Nat \ {0} /\ w \in Int
      BY <1>1 DEF Widths
    <2> HIDE DEF w
    <2>2. w % RepMod \in 0 .. RepMod-1
      BY <2>1, DivMod
    <2> QED BY <2>2 DEF rep, w
  <1> QED BY <1>1, <1>2, <1>3, <1>4 DEF size, inc, index, trans

\* Register 1 with another high address: command and request stay.
LEMMA PackedFields ==
    ASSUME NEW w \in Nat, NEW h \in Nat, NEW v, v = h * 16 + (w % 16)
    PROVE  /\ v \in Nat /\ v % 8 = w % 8 /\ (v \div 8) % 2 = (w \div 8) % 2
           /\ v \div 16 = h /\ v % 16 = w % 16
  OBVIOUS

\* One block of a strided move leaves the registers of the move that remains.
LEMMA StrideFields ==
    ASSUME Widths, NEW r \in [Registers -> Nat], NEW q \in [Registers -> Nat], NEW a \in Nat,
           q[1] = Packed(r, a), q[2] = a % AddrLo, q[3] = r[3], q[4] = r[4],
           rep(r) # 0, q[5] = (rep(r) - 1) % RepMod
    PROVE  /\ cmd(q) = cmd(r) /\ (reqstat(q) <=> reqstat(r)) /\ addr(q) = a
           /\ size(q) = size(r) /\ inc(q) = inc(r) /\ rep(q) = rep(r) - 1 /\ q[5] = rep(r) - 1
           /\ \A b \in Nat : Packed(q, b) = Packed(r, b)
  <1> DEFINE h == a \div AddrLo
             l == a % AddrLo
  <1>1. r[1] \in Nat /\ AddrLo \in Nat \ {0} /\ RepMod \in Nat \ {0}
    BY SixRegisters DEF Widths
  <1>2. h \in Nat /\ l \in Nat /\ a = AddrLo * h + l
    <2>1. h \in Nat
      BY <1>1, DivNat
    <2>2. a = AddrLo * h + l /\ l \in 0 .. AddrLo-1
      <3>1. a \in Int
        OBVIOUS
      <3> QED BY <1>1, <3>1, DivMod, Zenon
    <2> QED BY <1>1, <2>1, <2>2
  <1>3. q[1] = h * 16 + (r[1] % 16) /\ q[2] = l
    BY DEF Packed
  <1> HIDE DEF h, l
  <1>4. /\ q[1] % 8 = r[1] % 8 /\ (q[1] \div 8) % 2 = (r[1] \div 8) % 2
        /\ q[1] \div 16 = h /\ q[1] % 16 = r[1] % 16
    BY <1>1, <1>2, <1>3, PackedFields
  <1>5. cmd(q) = cmd(r) /\ (reqstat(q) <=> reqstat(r))
    BY <1>4 DEF cmd, reqstat
  <1>6. addr(q) = a
    <2>1. addr(q) = h * AddrLo + l
      BY <1>3, <1>4 DEF addr
    <2> QED BY <1>1, <1>2, <2>1
  <1>7. \A b \in Nat : Packed(q, b) = Packed(r, b)
    BY <1>4 DEF Packed
  <1>8. rep(q) = rep(r) - 1 /\ q[5] = rep(r) - 1
    <2> DEFINE n == rep(r) - 1
    <2>1. n \in 0 .. RepMod-1
      BY <1>1, Fields
    <2> HIDE DEF n
    <2>2. n % RepMod = n
      BY <1>1, <2>1, ModSmall
    <2>3. q[5] = n
      BY <2>2 DEF n
    <2> QED BY <2>2, <2>3 DEF rep, n
  <1> QED BY <1>5, <1>6, <1>7, <1>8 DEF size, inc
-----------------------------------------------------------------------------
(* Programs *)

\* Block k of a strided move, and the one command of any other
Block(tid, r, k) ==
    [req |-> reqstat(r) /\ k = rep(r), dest |-> tid,
     saddr |-> (addr(r) + (k-1) * inc(r)) % SAddrMod, btt |-> size(r)]
Single(tid, r) ==
    [req |-> reqstat(r), dest |-> tid,
     saddr |-> (IF cmd(r) = CMD_move THEN addr(r) ELSE addr(r) + index(r) * size(r)) % SAddrMod,
     btt |-> IF cmd(r) = CMD_index2 THEN trans(r) ELSE size(r)]

LEMMA Blocks ==
    ASSUME Widths, NEW r \in [Registers -> Nat], NEW tid \in Tids, cmd(r) = CMD_smove
    PROVE  /\ Program(tid, r) \in Seq(Entry) /\ Len(Program(tid, r)) = rep(r)
           /\ \A k \in 1 .. rep(r) : Program(tid, r)[k] = Block(tid, r, k)
  <1> DEFINE s == [k \in 1 .. rep(r) |-> Block(tid, r, k)]
  <1>1. Program(tid, r) = s
    BY DEF Program, Block, CMD_move, CMD_smove, CMD_index, CMD_index2
  <1>2. rep(r) \in Nat /\ reqstat(r) \in BOOLEAN /\ addr(r) \in Nat /\ inc(r) \in Nat /\ size(r) \in Nat
    <2>1. RepMod \in Nat
      BY DEF Widths
    <2> QED BY <2>1, Fields
  <1>3. ASSUME NEW k \in 1 .. rep(r) PROVE Block(tid, r, k) \in Entry
    <2> DEFINE a == addr(r) + (k-1) * inc(r)
    <2>1. k - 1 \in Nat
      BY <1>2
    <2>2. (k-1) * inc(r) \in Nat
      BY <1>2, <2>1
    <2>3. a \in Int /\ SAddrMod \in Nat \ {0}
      BY <1>2, <2>2 DEF Widths
    <2> HIDE DEF a
    <2>4. a % SAddrMod \in Nat
      BY <2>3, DivMod
    <2>5. Block(tid, r, k) = [req |-> reqstat(r) /\ k = rep(r), dest |-> tid,
                              saddr |-> a % SAddrMod, btt |-> size(r)]
      BY DEF Block, a
    <2> QED BY <1>2, <2>4, <2>5 DEF Entry
  <1>4. s \in Seq(Entry) /\ Len(s) = rep(r)
    BY <1>2, <1>3
  <1> QED BY <1>1, <1>4

LEMMA OneCommand ==
    ASSUME Widths, NEW r \in [Registers -> Nat], NEW tid \in Tids,
           cmd(r) \in {CMD_move, CMD_index, CMD_index2}
    PROVE  Program(tid, r) = <<Single(tid, r)>> /\ Single(tid, r) \in Entry
  <1>1. Program(tid, r) = <<Single(tid, r)>>
    BY DEF Program, Single, CMD_move, CMD_smove, CMD_index, CMD_index2
  <1> DEFINE a == IF cmd(r) = CMD_move THEN addr(r) ELSE addr(r) + index(r) * size(r)
  <1>2. /\ reqstat(r) \in BOOLEAN /\ addr(r) \in Nat /\ index(r) \in Nat /\ size(r) \in Nat
        /\ trans(r) \in Nat /\ SAddrMod \in Nat \ {0}
    BY Fields DEF Widths
  <1>3. index(r) * size(r) \in Nat
    BY <1>2
  <1>4. a \in Int
    BY <1>2, <1>3
  <1>5. Single(tid, r) = [req |-> reqstat(r), dest |-> tid, saddr |-> a % SAddrMod,
                          btt |-> IF cmd(r) = CMD_index2 THEN trans(r) ELSE size(r)]
    BY DEF Single
  <1> HIDE DEF a
  <1>6. a % SAddrMod \in Nat
    BY <1>2, <1>4, DivMod
  <1> QED BY <1>1, <1>2, <1>5, <1>6 DEF Entry

LEMMA NoCommand ==
    ASSUME NEW r, NEW tid, cmd(r) \notin {CMD_move, CMD_smove, CMD_index, CMD_index2}
    PROVE  Program(tid, r) = <<>>
  BY DEF Program

\* Only the last command of a program asks for a status, and all name the sender.
LEMMA ProgramShape ==
    ASSUME Widths, NEW r \in [Registers -> Nat], NEW tid \in Tids,
           cmd(r) = CMD_smove => rep(r) # 0
    PROVE  /\ Program(tid, r) \in Seq(Entry)
           /\ Program(tid, r) # <<>> <=> cmd(r) \in {CMD_move, CMD_smove, CMD_index, CMD_index2}
           /\ \A k \in 1 .. Len(Program(tid, r)) :
                 /\ Program(tid, r)[k].dest = tid
                 /\ Program(tid, r)[k].req => k = Len(Program(tid, r))
  <1>1. CASE cmd(r) = CMD_smove
    <2>1. rep(r) \in Nat
      BY Fields DEF Widths
    <2>2. /\ Program(tid, r) \in Seq(Entry) /\ Len(Program(tid, r)) = rep(r)
          /\ \A k \in 1 .. rep(r) : Program(tid, r)[k] = Block(tid, r, k)
      BY <1>1, Blocks
    <2>3. Program(tid, r) # <<>>
      BY <1>1, <2>1, <2>2
    <2>4. ASSUME NEW k \in 1 .. rep(r)
          PROVE  Block(tid, r, k).dest = tid /\ (Block(tid, r, k).req => k = rep(r))
      BY DEF Block
    <2> QED BY <1>1, <2>2, <2>3, <2>4
  <1>2. CASE cmd(r) \in {CMD_move, CMD_index, CMD_index2}
    <2>1. Program(tid, r) = <<Single(tid, r)>> /\ Single(tid, r) \in Entry
      BY <1>2, OneCommand
    <2>2. Single(tid, r).dest = tid
      BY DEF Single
    <2> QED BY <1>2, <2>1, <2>2
  <1>3. CASE cmd(r) \notin {CMD_move, CMD_smove, CMD_index, CMD_index2}
    <2>1. Program(tid, r) = <<>>
      BY <1>3, NoCommand
    <2> HIDE DEF Program
    <2> QED BY <1>3, <2>1
  <1> QED BY <1>1, <1>2, <1>3

\* What the unit puts on m_axis_cmd is the first command of its program.
LEMMA IssuesFirst ==
    ASSUME Widths, NEW r \in [Registers -> Nat], NEW c \in Command,
           cmd(r) \in {CMD_move, CMD_smove, CMD_index, CMD_index2},
           cmd(r) = CMD_smove => rep(r) # 0, r[3] < SizeMod, r[3] < BttMod,
           cmd(r) = CMD_index2 => r[5] < BttMod
    PROVE  m_axis_cmd(c, r) = Head(Program(c.tid, r))
  <1>1. /\ c.tid \in Tids /\ reqstat(r) \in BOOLEAN /\ addr(r) \in Nat /\ size(r) \in Nat
        /\ index(r) \in Nat /\ trans(r) \in Nat /\ rep(r) \in Nat /\ inc(r) \in Nat
    BY Fields DEF Command, Widths
  <1>2. c.tid % DestMod = c.tid
    <2> DEFINE i == c.tid
    <2>1. i \in 0 .. DestMod-1 /\ DestMod \in Nat \ {0}
      BY <1>1 DEF Tids, Widths
    <2> HIDE DEF i
    <2>2. i % DestMod = i
      BY <2>1, ModSmall
    <2> QED BY <2>2 DEF i
  <1>3. size(r) % SizeMod = size(r) /\ size(r) % BttMod = size(r)
    <2> DEFINE n == size(r)
    <2>1. n \in 0 .. SizeMod-1 /\ n \in 0 .. BttMod-1 /\ SizeMod \in Nat \ {0} /\ BttMod \in Nat \ {0}
      BY <1>1 DEF Widths, size
    <2> HIDE DEF n
    <2>2. n % SizeMod = n /\ n % BttMod = n
      BY <2>1, ModSmall
    <2> QED BY <2>2 DEF n
  <1>4. cmd(r) = CMD_index2 => trans(r) % BttMod = trans(r)
    <2> DEFINE n == trans(r)
    <2> SUFFICES ASSUME cmd(r) = CMD_index2 PROVE n % BttMod = n
      OBVIOUS
    <2>1. n \in 0 .. BttMod-1 /\ BttMod \in Nat \ {0}
      BY <1>1 DEF Widths, trans
    <2> HIDE DEF n
    <2> QED BY <2>1, ModSmall
  <1>5. CASE cmd(r) = CMD_smove
    <2>1. /\ Program(c.tid, r) \in Seq(Entry) /\ Len(Program(c.tid, r)) = rep(r)
          /\ \A k \in 1 .. rep(r) : Program(c.tid, r)[k] = Block(c.tid, r, k)
      BY <1>1, <1>5, Blocks
    <2>2. Head(Program(c.tid, r)) = Block(c.tid, r, 1)
      BY <1>1, <1>5, <2>1
    <2>3. (1-1) * inc(r) = 0 /\ addr(r) + 0 = addr(r)
      BY <1>1
    <2>4. Block(c.tid, r, 1) = [req |-> reqstat(r) /\ 1 = rep(r), dest |-> c.tid,
                                saddr |-> addr(r) % SAddrMod, btt |-> size(r)]
      BY <2>3 DEF Block
    <2>5. (reqstat(r) /\ ~Repeats(r)) = (reqstat(r) /\ 1 = rep(r))
      BY <1>1, <1>5 DEF Repeats
    <2>6. m_axis_cmd(c, r) = [req |-> reqstat(r) /\ ~Repeats(r), dest |-> c.tid,
                              saddr |-> addr(r) % SAddrMod, btt |-> size(r)]
      BY <1>2, <1>3, <1>5 DEF m_axis_cmd, CMD_smove, CMD_index, CMD_index2
    <2> QED BY <2>2, <2>4, <2>5, <2>6
  <1>6. CASE cmd(r) # CMD_smove
    <2>1. Program(c.tid, r) = <<Single(c.tid, r)>>
      BY <1>1, <1>6, OneCommand
    <2>2. Head(<<Single(c.tid, r)>>) = Single(c.tid, r)
      OBVIOUS
    <2>3. (reqstat(r) /\ ~Repeats(r)) = reqstat(r)
      BY <1>1, <1>6 DEF Repeats
    <2>4. index(r) * size(r) + addr(r) = addr(r) + index(r) * size(r)
      BY <1>1
    <2>5. m_axis_cmd(c, r) = Single(c.tid, r)
      BY <1>2, <1>3, <1>4, <1>6, <2>3, <2>4
      DEF m_axis_cmd, Single, CMD_move, CMD_smove, CMD_index, CMD_index2
    <2> QED BY <2>1, <2>2, <2>5
  <1> QED BY <1>5, <1>6

\* A strided move, one block further
LEMMA StrideProgram ==
    ASSUME Widths, NEW r \in [Registers -> Nat], NEW q \in [Registers -> Nat], NEW tid \in Tids,
           cmd(r) = CMD_smove, rep(r) # 0, NEW a, a = (addr(r) + inc(r)) % AddrMod,
           q[1] = Packed(r, a), q[2] = a % AddrLo, q[5] = (rep(r) - 1) % RepMod,
           \A i \in Registers \ {0, 1, 2, 5} : q[i] = r[i]
    PROVE  /\ Program(tid, q) = Tail(Program(tid, r))
           /\ \A i \in Registers \ {0} : Settled(q)[i] = Settled(r)[i]
           /\ rep(r) = 1 => \A i \in Registers \ {0} : q[i] = Settled(r)[i]
           /\ cmd(q) = CMD_smove /\ rep(q) = rep(r) - 1
  <1>1. /\ rep(r) \in Nat \ {0} /\ addr(r) \in Nat /\ inc(r) \in Nat /\ size(r) \in Nat
        /\ reqstat(r) \in BOOLEAN /\ reqstat(q) \in BOOLEAN
    BY Fields DEF Widths
  <1>2. AddrMod \in Nat \ {0} /\ {0, 1, 2, 3, 4, 5} \subseteq Registers
    BY SixRegisters
  <1> DEFINE b == addr(r) + inc(r)
  <1>3. b \in Nat /\ a = b % AddrMod
    BY <1>1
  <1> HIDE DEF b
  <1>4. a \in 0 .. AddrMod-1 /\ a \in Nat
    <2>1. b \in Int
      BY <1>3
    <2>2. b % AddrMod \in 0 .. AddrMod-1
      BY <1>2, <2>1, DivMod
    <2> QED BY <1>2, <1>3, <2>2
  <1>5. q[3] = r[3] /\ q[4] = r[4]
    BY <1>2
  <1>6. /\ cmd(q) = cmd(r) /\ (reqstat(q) <=> reqstat(r)) /\ addr(q) = a
        /\ size(q) = size(r) /\ inc(q) = inc(r) /\ rep(q) = rep(r) - 1 /\ q[5] = rep(r) - 1
        /\ \A x \in Nat : Packed(q, x) = Packed(r, x)
    BY <1>4, <1>5, StrideFields
  <1>7. Program(tid, q) = Tail(Program(tid, r))
    <2> DEFINE s == Program(tid, r)
               t == Program(tid, q)
    <2>1. /\ s \in Seq(Entry) /\ Len(s) = rep(r) /\ \A k \in 1 .. rep(r) : s[k] = Block(tid, r, k)
      BY Blocks
    <2>2. /\ t \in Seq(Entry) /\ Len(t) = rep(r) - 1 /\ \A k \in 1 .. rep(r) - 1 : t[k] = Block(tid, q, k)
      BY <1>6, Blocks
    <2>3. ASSUME NEW k \in 1 .. rep(r) - 1 PROVE Block(tid, q, k) = Block(tid, r, k + 1)
      <3> DEFINE x == (k-1) * inc(r)
                 y == (k+1-1) * inc(r)
      <3>1. k \in Nat /\ k - 1 \in Nat
        BY <1>1
      <3>2. x \in Int /\ y = inc(r) + x
        BY <1>1, <3>1
      <3>3. b + x = addr(r) + y
        BY <1>1, <3>2 DEF b
      <3> HIDE DEF x, y
      <3>4. (a + x) % SAddrMod = (b + x) % SAddrMod
        <4>1. PICK m \in Nat : AddrMod = m * SAddrMod
          BY SixRegisters, Multiple DEF Widths
        <4>2. SAddrMod \in Nat \ {0} /\ b \in Int
          BY <1>3 DEF Widths
        <4>3. ((b % AddrMod) + x) % SAddrMod = (b + x) % SAddrMod
          <5>1. /\ b \in Int /\ x \in Int /\ AddrMod \in Nat \ {0} /\ SAddrMod \in Nat \ {0}
                /\ m \in Nat /\ AddrMod = m * SAddrMod
            BY <1>2, <3>2, <4>1, <4>2
          <5> QED BY <5>1, WrappedPart, Zenon
        <4> QED BY <1>3, <4>3
      <3>5. (addr(q) + (k-1) * inc(q)) % SAddrMod = (addr(r) + (k+1-1) * inc(r)) % SAddrMod
        BY <1>6, <3>3, <3>4 DEF x, y
      <3>6. (reqstat(q) /\ k = rep(q)) = (reqstat(r) /\ k + 1 = rep(r))
        BY <1>1, <1>6
      <3> QED BY <1>6, <3>5, <3>6 DEF Block
    <2> HIDE DEF s, t
    <2>4. s # <<>>
      BY <1>1, <2>1
    <2>5. /\ Tail(s) \in Seq(Entry) /\ Len(Tail(s)) = Len(s) - 1
          /\ \A k \in 1 .. Len(Tail(s)) : Tail(s)[k] = s[k + 1]
      BY <2>1, <2>4, HeadTailProperties
    <2>6. \A k \in 1 .. rep(r) - 1 : t[k] = Tail(s)[k]
      BY <1>1, <2>1, <2>2, <2>3, <2>5
    <2>7. Len(t) = Len(Tail(s)) /\ \A k \in 1 .. Len(t) : t[k] = Tail(s)[k]
      BY <2>1, <2>2, <2>5, <2>6
    <2>8. t = Tail(s)
      BY <2>2, <2>5, <2>7, SeqEqual
    <2> QED BY <2>8 DEF s, t
  <1> DEFINE z == (addr(r) + rep(r) * inc(r)) % AddrMod
             n == (rep(r) - 1) * inc(r)
  <1>8. n \in Nat /\ addr(r) + rep(r) * inc(r) = b + n
    <2>1. rep(r) - 1 \in Nat
      BY <1>1
    <2>2. rep(r) * inc(r) = inc(r) + n
      BY <1>1, <2>1
    <2>3. n \in Nat
      BY <1>1, <2>1
    <2> QED BY <1>1, <2>2, <2>3 DEF b
  <1>9. z \in Nat /\ (a + n) % AddrMod = z
    <2> HIDE DEF n
    <2>1. b \in Int /\ n \in Int /\ b + n \in Int
      BY <1>3, <1>8
    <2>2. ((b % AddrMod) + n) % AddrMod = (b + n) % AddrMod
      BY <1>2, <2>1, Wrapped
    <2>3. z = (b + n) % AddrMod
      BY <1>8
    <2>4. (b + n) % AddrMod \in 0 .. AddrMod-1
      BY <1>2, <2>1, DivMod
    <2> QED BY <1>2, <1>3, <2>2, <2>3, <2>4
  <1>10. (addr(q) + rep(q) * inc(q)) % AddrMod = z
    BY <1>6, <1>9
  <1> HIDE DEF z
  <1>11. Settled(r) = [r EXCEPT ![1] = Packed(r, z), ![2] = z % AddrLo, ![5] = 0]
    BY DEF Settled, z
  <1>12. Settled(q) = [q EXCEPT ![1] = Packed(r, z), ![2] = z % AddrLo, ![5] = 0]
    BY <1>6, <1>9, <1>10 DEF Settled
  <1>13. \A i \in Registers \ {0} : Settled(q)[i] = Settled(r)[i]
    BY <1>2, <1>11, <1>12
  <1>14. ASSUME rep(r) = 1 PROVE \A i \in Registers \ {0} : q[i] = Settled(r)[i]
    <2>1. n = 0
      BY <1>1, <1>14
    <2>2. z = a
      <3>1. a % AddrMod = a
        BY <1>2, <1>4, ModSmall
      <3> QED BY <1>4, <1>9, <2>1, <3>1
    <2>3. q[5] = 0
      BY <1>6, <1>14
    <2> QED BY <1>2, <1>11, <2>2, <2>3
  <1> QED BY <1>6, <1>7, <1>13, <1>14
-----------------------------------------------------------------------------
(* Packets *)

\* Beat j + 1 of packet p is on the control stream.
OnBus(p, j) ==
    /\ Sending(p, j) /\ beats # <<>> /\ Bus = Head(beats) /\ Bus \in ControlBeat
    /\ Bus = Beat(p[1].go, p[1].wr, p[1].sel, p[1].len, p[1].tid, p[j+1].data, j + 1 = Len(p))
    /\ asel(Bus) = p[1].sel + j /\ alen(Bus) = Len(p) - j
    /\ Bus.sel + Bus.len - Len(beats) = p[1].sel + j /\ p[1].sel + j \in Registers
    /\ \A ready \in BOOLEAN : awe(Bus, ready) <=> c_advance(Bus, ready) /\ p[1].wr

LEMMA PacketFacts ==
    ASSUME Setting, NEW p \in Packets
    PROVE  /\ p \in Seq(ControlBeat) /\ p # <<>> /\ Len(p) \in Nat \ {0} /\ p[1] \in ControlBeat
           /\ \A k \in 1 .. Len(p) : p[k] \in ControlBeat /\
                 p[k] = Beat(p[1].go, p[1].wr, p[1].sel, p[1].len, p[1].tid, p[k].data, k = Len(p))
           /\ p[1].wr => p[1].len = Len(p) /\ p[1].sel + Len(p) <= NReg
           /\ ~p[1].wr => Len(p) = 1 /\ p[1].len = 1 /\ ~p[1].go
  <1>1. IsPacket(p)
    BY DEF Setting, Careful
  <1>2. p \in Seq(ControlBeat) /\ p # <<>>
    BY <1>1 DEF IsPacket
  <1>3. Len(p) \in Nat \ {0}
    BY <1>2
  <1>4. \A k \in 1 .. Len(p) : p[k] \in ControlBeat
    BY <1>2
  <1>5. p[1] \in ControlBeat
    BY <1>3, <1>4
  <1> QED BY <1>1, <1>2, <1>3, <1>4, <1>5 DEF IsPacket

LEMMA BusFacts ==
    ASSUME Setting, HostInv, offered
    PROVE  \E p \in Packets : \E j \in 0 .. Len(p) - 1 : OnBus(p, j)
  <1>1. beats # <<>> /\ beats \in Seq(ControlBeat)
    BY DEF HostInv
  <1>2. PICK p \in Packets : \E j \in 0 .. Len(p) - 1 : Sending(p, j)
    BY <1>1 DEF HostInv
  <1>3. PICK j \in 0 .. Len(p) - 1 : Sending(p, j)
    BY <1>2
  <1>4. /\ p \in Seq(ControlBeat) /\ Len(p) \in Nat \ {0} /\ p[1] \in ControlBeat
        /\ \A k \in 1 .. Len(p) : p[k] \in ControlBeat /\
              p[k] = Beat(p[1].go, p[1].wr, p[1].sel, p[1].len, p[1].tid, p[k].data, k = Len(p))
        /\ p[1].wr => p[1].len = Len(p) /\ p[1].sel + Len(p) <= NReg
        /\ ~p[1].wr => Len(p) = 1 /\ p[1].len = 1 /\ ~p[1].go
    BY PacketFacts
  <1> DEFINE h == p[1]
             b == p[j + 1]
             n == Len(p)
  <1>5. h.sel \in Nat /\ h.sel < NReg /\ h.wr \in BOOLEAN /\ h.len \in Nat /\ NReg \in Nat
    <2>1. h \in ControlBeat
      BY <1>4
    <2> HIDE DEF h
    <2>2. h.sel \in 0 .. NReg-1 /\ h.wr \in BOOLEAN /\ h.len \in 1 .. SelMod-1
      BY <2>1 DEF ControlBeat, Registers
    <2> QED BY <2>2, PortAssumption
  <1>6. j \in Nat /\ n \in Nat /\ j + 1 \in 1 .. n /\ j < n
    BY <1>4
  <1>7. Bus = Head(beats) /\ Head(beats) = b
    <2>1. Head(beats) = beats[1]
      BY <1>1
    <2>2. beats[1] = p[1 + j]
      BY <1>3, <1>6 DEF Sending
    <2> QED BY <1>6, <2>1, <2>2 DEF Bus
  <1>8. b \in ControlBeat /\ b = Beat(h.go, h.wr, h.sel, h.len, h.tid, b.data, j + 1 = n)
    BY <1>4, <1>6
  <1>9. /\ b.valid = TRUE /\ b.wr = h.wr /\ b.sel = h.sel /\ b.len = h.len
    BY <1>8 DEF Beat
  <1> HIDE DEF b, h, n
  <1>10. Bus.valid = TRUE /\ Bus.wr = h.wr /\ Bus.sel = h.sel /\ Bus.len = h.len
    BY <1>7, <1>9
  <1>11. Len(beats) = n - j
    BY <1>3 DEF Sending, n
  <1>12. h.wr => h.len = n /\ h.sel + n <= NReg
    BY <1>4 DEF n, h
  <1>13. ~h.wr => n = 1 /\ h.len = 1
    BY <1>4 DEF n, h
  <1>14. CASE j = 0
    <2>1. alen_r = 0
      BY <1>3, <1>14 DEF Sending
    <2>2. asel(Bus) = h.sel + j /\ alen(Bus) = n - j
      BY <1>5, <1>6, <1>10, <1>12, <1>13, <1>14, <2>1 DEF asel, alen, FirstWord
    <2>3. h.sel + h.len - (n - j) = h.sel + j /\ h.sel + j \in Registers
      BY <1>5, <1>6, <1>12, <1>13, <1>14 DEF Registers
    <2>4. \A ready \in BOOLEAN : awe(Bus, ready) <=> c_advance(Bus, ready) /\ h.wr
      BY <1>10, <2>1 DEF awe, FirstWord
    <2> QED BY <1>1, <1>3, <1>7, <1>8, <1>10, <1>11, <2>2, <2>3, <2>4 DEF OnBus, h, b, n
  <1>15. CASE j # 0
    <2>1. alen_r = n - j /\ asel_r = h.sel + j /\ awe_r = TRUE /\ h.wr
      BY <1>3, <1>15 DEF Sending, h, n
    <2>2. asel(Bus) = h.sel + j /\ alen(Bus) = n - j
      BY <1>6, <2>1 DEF asel, alen, FirstWord
    <2>3. h.sel + h.len - (n - j) = h.sel + j /\ h.sel + j \in Registers
      <3> DEFINE x == h.sel
                 y == h.len
      <3>1. x \in Nat /\ NReg \in Nat /\ y = n /\ x + n <= NReg
        BY <1>5, <1>12, <2>1
      <3> HIDE DEF x, y
      <3>2. x + y - (n - j) = x + j /\ x + j \in 0 .. NReg-1
        BY <1>6, <3>1
      <3> QED BY <3>2 DEF x, y, Registers
    <2>4. \A ready \in BOOLEAN : awe(Bus, ready) <=> c_advance(Bus, ready) /\ h.wr
      BY <1>6, <2>1 DEF awe, FirstWord
    <2> QED BY <1>1, <1>3, <1>7, <1>8, <1>10, <1>11, <2>2, <2>3, <2>4 DEF OnBus, h, b, n
  <1> QED BY <1>14, <1>15
-----------------------------------------------------------------------------
(* One edge of the unit *)

LEMMA BitFacts ==
    /\ \A a, b \in 0 .. 3 : BitOr(a, b) \in 0 .. 3 /\ BitOr(a, 0) = a
    /\ \A a, x, f \in 0 .. 3 : BitOr(a, x) = a => BitOr(BitOr(a, f), BitOr(x, f)) = BitOr(a, f)
    /\ \A a, f \in 0 .. 3 : BitOr(BitOr(a, f), BitOr(0, f)) = BitOr(a, f)
  BY DEF BitOr

\* Register 0 is the status; programs do not look at it.
LEMMA SameProgram ==
    ASSUME Widths, NEW r \in [Registers -> Nat], NEW q \in [Registers -> Nat],
           \A i \in Registers \ {0} : q[i] = r[i]
    PROVE  /\ \A tid \in Tids : Program(tid, q) = Program(tid, r)
           /\ cmd(q) = cmd(r) /\ rep(q) = rep(r)
           /\ \A i \in Registers \ {0} : Settled(q)[i] = Settled(r)[i]
  <1>1. {0, 1, 2, 3, 4, 5} \subseteq Registers
    BY SixRegisters
  <1>2. q[1] = r[1] /\ q[2] = r[2] /\ q[3] = r[3] /\ q[4] = r[4] /\ q[5] = r[5]
    BY <1>1
  <1>3. /\ cmd(q) = cmd(r) /\ reqstat(q) = reqstat(r) /\ addr(q) = addr(r) /\ size(q) = size(r)
        /\ inc(q) = inc(r) /\ index(q) = index(r) /\ rep(q) = rep(r) /\ trans(q) = trans(r)
        /\ \A a : Packed(q, a) = Packed(r, a)
    BY <1>2 DEF cmd, reqstat, addr, size, inc, index, rep, trans, Packed
  <1>4. \A tid \in Tids : Program(tid, q) = Program(tid, r)
    BY <1>3 DEF Program
  <1>5. \A i \in Registers \ {0} : Settled(q)[i] = Settled(r)[i]
    <2> DEFINE a == (addr(r) + rep(r) * inc(r)) % AddrMod
    <2>1. CASE cmd(r) # CMD_smove
      BY <1>3, <2>1 DEF Settled
    <2>2. CASE cmd(r) = CMD_smove
      <3>1. /\ Settled(q) = [q EXCEPT ![1] = Packed(r, a), ![2] = a % AddrLo, ![5] = 0]
            /\ Settled(r) = [r EXCEPT ![1] = Packed(r, a), ![2] = a % AddrLo, ![5] = 0]
        BY <1>3, <2>2 DEF Settled
      <3> HIDE DEF a
      <3> QED BY <1>1, <3>1
    <2> QED BY <2>1, <2>2
  <1> QED BY <1>3, <1>4, <1>5

\* The registers and the commands owed after what the unit itself does on an edge
UnitRegs(cr) == [i \in Registers |-> IF i \in vwe(command, reg, cr, sts) THEN vrsp(reg, sts)[i]
                                     ELSE reg[i]]
UnitRest(cr) == IF Issues(command, reg) /\ cr /\ owed # <<>> THEN Tail(owed) ELSE owed
UnitDone(cr) == command_ready_s(command_ready(command, reg, cr))

\* If the unit is done, nothing is owed and the registers are those the software believes
\* in; if not, they hold the rest of its program.
LEMMA UnitStep ==
    ASSUME Setting, Core, StatusInv, NEW cr \in BOOLEAN
    PROVE  /\ UnitRegs(cr) \in [Registers -> Nat]
           /\ UnitRegs(cr)[0] = IF sts.valid THEN BitOr(reg[0], sts.flags) ELSE reg[0]
           /\ UnitDone(cr) \in BOOLEAN
           /\ UnitDone(cr) => UnitRest(cr) = <<>> /\ \A i \in Registers \ {0} : UnitRegs(cr)[i] = shadow[i]
           /\ ~UnitDone(cr) =>
                /\ command \in Command /\ UnitRest(cr) = Program(command.tid, UnitRegs(cr))
                /\ \A i \in Registers \ {0} : shadow[i] = Settled(UnitRegs(cr))[i]
                /\ cmd(UnitRegs(cr)) = CMD_smove => rep(UnitRegs(cr)) # 0
  <1> DEFINE q == UnitRegs(cr)
             z == IF sts.valid THEN BitOr(reg[0], sts.flags) ELSE reg[0]
             iaddr == (addr(reg) + inc(reg)) % AddrMod
  <1>1. Widths /\ reg \in [Registers -> Nat] /\ shadow \in [Registers -> Nat]
    BY DEF Setting, Core
  <1>2. {0, 1, 2, 3, 4, 5} \subseteq Registers /\ AddrMod \in Nat \ {0}
    BY <1>1, SixRegisters
  <1>3. z \in Nat
    <2>1. reg[0] \in 0 .. 3
      BY DEF StatusInv
    <2>2. CASE sts = Invalid
      BY <2>1, <2>2 DEF Invalid
    <2>3. CASE sts \in Status
      <3>1. sts.flags \in 0 .. 3
        BY <2>3 DEF Status
      <3>2. BitOr(reg[0], sts.flags) \in 0 .. 3
        BY <2>1, <3>1, BitFacts
      <3> QED BY <2>1, <3>2
    <2> QED BY <2>2, <2>3 DEF StatusInv
  <1>4. vrsp(reg, sts)[0] = z
    BY <1>2 DEF vrsp
  <1>5. vrsp(reg, sts)[1] = Packed(reg, iaddr) /\ vrsp(reg, sts)[2] = iaddr % AddrLo
    BY <1>2 DEF vrsp
  <1>6. vrsp(reg, sts)[5] = (rep(reg) - 1) % RepMod
    BY <1>2 DEF vrsp
  <1> HIDE DEF z, iaddr
  <1>7. q[0] = z
    <2>1. CASE sts.valid
      BY <1>2, <1>4, <2>1 DEF UnitRegs, vwe
    <2>2. CASE ~sts.valid
      BY <1>2, <2>2 DEF UnitRegs, vwe, z
    <2> QED BY <2>1, <2>2
  <1>8. /\ command \in {Invalid} \cup Command /\ (command.valid <=> command \in Command)
        /\ command.valid \in BOOLEAN /\ (command.valid => command.tid \in Tids)
    <2>1. CASE command = Invalid
      BY <2>1 DEF Invalid, Command
    <2>2. CASE command \in Command
      BY <2>2 DEF Command
    <2> QED BY <2>1, <2>2 DEF Core
  <1>9. CASE ~Strides(command, reg, cr)
    <2>1. \A i \in Registers \ {0} : q[i] = reg[i]
      BY <1>2, <1>9 DEF UnitRegs, vwe
    <2>2. q \in [Registers -> Nat]
      BY <1>1, <1>2, <1>3, <1>7, <2>1 DEF UnitRegs
    <2> HIDE DEF q
    <2>3. /\ \A tid \in Tids : Program(tid, q) = Program(tid, reg)
          /\ cmd(q) = cmd(reg) /\ rep(q) = rep(reg)
          /\ \A i \in Registers \ {0} : Settled(q)[i] = Settled(reg)[i]
      BY <1>1, <2>1, <2>2, SameProgram
    <2>4. CASE ~command.valid
      <3>1. UnitDone(cr) = TRUE /\ UnitRest(cr) = <<>>
        BY <1>8, <2>4 DEF UnitDone, UnitRest, command_ready_s, Issues, Core
      <3>2. \A i \in Registers \ {0} : q[i] = shadow[i]
        BY <2>1, <2>4 DEF Core
      <3> QED BY <1>7, <2>2, <3>1, <3>2 DEF q, z
    <2>5. CASE command.valid /\ ~Issues(command, reg)
      <3>1. cmd(reg) \notin {CMD_move, CMD_smove, CMD_index, CMD_index2}
        BY <2>5 DEF Issues
      <3>2. owed = <<>>
        BY <2>5, <3>1, NoCommand DEF Core
      <3>3. UnitDone(cr) = TRUE /\ UnitRest(cr) = <<>>
        BY <1>8, <2>5, <3>2 DEF UnitDone, UnitRest, command_ready_s, command_ready
      <3>4. \A i \in Registers \ {0} : q[i] = shadow[i]
        BY <2>1, <2>5, <3>1 DEF Core, Settled
      <3> QED BY <1>7, <2>2, <3>3, <3>4 DEF q, z
    <2>6. CASE Issues(command, reg) /\ ~cr
      <3>1. command.valid /\ command \in Command
        BY <1>8, <2>6 DEF Issues
      <3>2. UnitDone(cr) = FALSE /\ UnitRest(cr) = owed
        BY <1>8, <2>6, <3>1 DEF UnitDone, UnitRest, command_ready_s, command_ready
      <3>3. owed = Program(command.tid, q)
        BY <1>8, <2>3, <3>1 DEF Core
      <3>4. \A i \in Registers \ {0} : shadow[i] = Settled(q)[i]
        BY <2>3, <3>1 DEF Core
      <3>5. cmd(q) = CMD_smove => rep(q) # 0
        BY <2>3, <3>1 DEF Core
      <3> QED BY <1>7, <2>2, <3>1, <3>2, <3>3, <3>4, <3>5 DEF q, z
    <2>7. CASE Issues(command, reg) /\ cr
      <3>1. command.valid /\ cmd(reg) \in {CMD_move, CMD_index, CMD_index2} /\ cmd(reg) # CMD_smove
        BY <1>9, <2>7 DEF Issues, Strides
      <3>2. owed = <<Single(command.tid, reg)>>
        <4>1. Program(command.tid, reg) = <<Single(command.tid, reg)>>
          BY <1>1, <1>8, <3>1, OneCommand
        <4> QED BY <3>1, <4>1 DEF Core
      <3>3. UnitDone(cr) = TRUE
        BY <1>8, <2>7, <3>1 DEF UnitDone, command_ready_s, command_ready, Repeats
      <3>4. UnitRest(cr) = <<>>
        <4>1. owed # <<>> /\ Tail(owed) = <<>>
          BY <3>2
        <4> QED BY <2>7, <4>1 DEF UnitRest
      <3>5. \A i \in Registers \ {0} : q[i] = shadow[i]
        BY <2>1, <3>1 DEF Core, Settled
      <3> QED BY <1>7, <2>2, <3>3, <3>4, <3>5 DEF q, z
    <2> QED BY <2>4, <2>5, <2>6, <2>7
  <1>10. CASE Strides(command, reg, cr)
    <2>1. Issues(command, reg) /\ cmd(reg) = CMD_smove /\ cr /\ command.valid
      BY <1>10 DEF Strides, Issues
    <2>2. rep(reg) # 0 /\ owed = Program(command.tid, reg)
      BY <2>1 DEF Core
    <2>3. /\ q[1] = Packed(reg, iaddr) /\ q[2] = iaddr % AddrLo /\ q[5] = (rep(reg) - 1) % RepMod
          /\ \A i \in Registers \ {0, 1, 2, 5} : q[i] = reg[i]
      BY <1>2, <1>5, <1>6, <1>10 DEF UnitRegs, vwe
    <2>4. q[1] \in Nat /\ q[2] \in Nat /\ q[5] \in Nat
      <3>1. /\ addr(reg) \in Nat /\ inc(reg) \in Nat /\ rep(reg) \in 0 .. RepMod-1
            /\ AddrLo \in Nat \ {0} /\ RepMod \in Nat \ {0} /\ reg[1] \in Nat
        BY <1>1, <1>2, Fields DEF Widths
      <3> DEFINE a == addr(reg) + inc(reg)
      <3>2. a \in Int /\ iaddr = a % AddrMod
        BY <3>1 DEF iaddr
      <3> HIDE DEF a
      <3>3. iaddr \in Nat
        BY <1>2, <3>2, DivMod
      <3>4. iaddr \in Int /\ iaddr \div AddrLo \in Nat
        BY <3>1, <3>3, DivNat
      <3>5. iaddr % AddrLo \in Nat
        BY <3>1, <3>4, DivMod
      <3>6. Packed(reg, iaddr) \in Nat
        <4> DEFINE h == iaddr \div AddrLo
        <4> HIDE DEF h
        <4>1. h * 16 + (reg[1] % 16) \in Nat
          BY <3>1, <3>4 DEF h
        <4> QED BY <4>1 DEF Packed, h
      <3> DEFINE n == rep(reg) - 1
      <3>7. n \in Int
        BY <3>1
      <3> HIDE DEF n
      <3>8. n % RepMod \in Nat
        BY <3>1, <3>7, DivMod
      <3> QED BY <2>3, <3>5, <3>6, <3>8 DEF n
    <2>5. q \in [Registers -> Nat]
      <3>1. \A i \in Registers : q[i] \in Nat
        BY <1>1, <1>3, <1>7, <2>3, <2>4
      <3> QED BY <3>1 DEF UnitRegs
    <2> HIDE DEF q
    <2>6. /\ Program(command.tid, q) = Tail(Program(command.tid, reg))
          /\ \A i \in Registers \ {0} : Settled(q)[i] = Settled(reg)[i]
          /\ rep(reg) = 1 => \A i \in Registers \ {0} : q[i] = Settled(reg)[i]
          /\ cmd(q) = CMD_smove /\ rep(q) = rep(reg) - 1
      BY <1>1, <1>8, <2>1, <2>2, <2>3, <2>5, StrideProgram DEF iaddr
    <2>7. owed # <<>> /\ UnitRest(cr) = Program(command.tid, q) /\ (rep(reg) = 1 => Tail(owed) = <<>>)
      <3>1. /\ Program(command.tid, reg) \in Seq(Entry) /\ Len(Program(command.tid, reg)) = rep(reg)
        BY <1>1, <1>8, <2>1, Blocks
      <3>2. rep(reg) \in Nat
        BY <1>1, Fields DEF Widths
      <3>3. owed \in Seq(Entry) /\ Len(owed) = rep(reg) /\ owed # <<>>
        BY <2>2, <3>1, <3>2
      <3>4. Tail(owed) \in Seq(Entry) /\ Len(Tail(owed)) = rep(reg) - 1
        BY <3>3, HeadTailProperties
      <3>5. rep(reg) = 1 => Tail(owed) = <<>>
        <4> DEFINE t == Tail(owed)
        <4>1. t \in Seq(Entry) /\ Len(t) = rep(reg) - 1
          BY <3>4
        <4> HIDE DEF t
        <4>2. rep(reg) = 1 => t = <<>>
          BY <4>1, EmptySeq
        <4> QED BY <4>2 DEF t
      <3> QED BY <2>1, <2>2, <2>6, <3>3, <3>5 DEF UnitRest
    <2>8. UnitDone(cr) <=> rep(reg) = 1
      BY <2>1 DEF UnitDone, command_ready_s, command_ready, Repeats
    <2>9. UnitDone(cr) \in BOOLEAN
      BY <1>8 DEF UnitDone, command_ready_s, command_ready
    <2>10. ASSUME rep(reg) = 1
           PROVE  UnitRest(cr) = <<>> /\ \A i \in Registers \ {0} : q[i] = shadow[i]
      BY <2>1, <2>6, <2>7, <2>10 DEF UnitRest, Core
    <2>11. ASSUME rep(reg) # 1
           PROVE  /\ command \in Command /\ UnitRest(cr) = Program(command.tid, q)
                  /\ \A i \in Registers \ {0} : shadow[i] = Settled(q)[i]
                  /\ cmd(q) = CMD_smove => rep(q) # 0
      <3>1. rep(reg) \in Int
        BY <1>1, Fields DEF Widths
      <3>2. rep(q) # 0
        BY <2>6, <2>11, <3>1
      <3>3. \A i \in Registers \ {0} : shadow[i] = Settled(q)[i]
        BY <2>1, <2>6 DEF Core
      <3> QED BY <1>8, <2>1, <2>7, <3>2, <3>3
    <2> QED BY <1>7, <2>5, <2>8, <2>9, <2>10, <2>11 DEF q, z
  <1> QED BY <1>9, <1>10
-----------------------------------------------------------------------------
(* One edge of the channel *)

\* The DataMover takes a command; the port takes the beat on the control stream
Room(accept) == accept /\ Len(moverQ) < MoverDepth
Taken(cr) == c_advance(Bus, command_ready(command, reg, cr))

\* The parts of an edge
EdgeParts(gap, tready, cr) ==
    /\ RegisterFile(Bus, command_ready(command, reg, cr), vwe(command, reg, cr, sts), vrsp(reg, sts))
    /\ CommandBeats(Bus, command_ready(command, reg, cr))
    /\ CommandRegister(Bus, command_ready(command, reg, cr))
    /\ HostEdge(Taken(cr), gap)
    /\ GhostEdge(Taken(cr), Issues(command, reg) /\ cr, r_advance(tready))

LEMMA EdgeFacts ==
    ASSUME NEW gap, NEW tready, NEW accept, NEW finish, NEW f, Edge(gap, tready, accept, finish, f)
    PROVE  EdgeParts(gap, tready, Room(accept))
  BY DEF Edge, PortClock, Room, Taken, EdgeParts

LEMMA RestSeq ==
    ASSUME Setting, Core, StatusInv, NEW cr \in BOOLEAN
    PROVE  UnitRest(cr) \in Seq(Entry)
  <1>1. CASE UnitDone(cr)
    <2>1. UnitRest(cr) = <<>>
      BY <1>1, UnitStep
    <2> QED BY <2>1
  <1>2. CASE ~UnitDone(cr)
    <2> DEFINE q == UnitRegs(cr)
    <2>1. /\ Widths /\ q \in [Registers -> Nat] /\ command \in Command
          /\ UnitRest(cr) = Program(command.tid, q) /\ (cmd(q) = CMD_smove => rep(q) # 0)
      BY <1>2, UnitStep DEF Setting
    <2> HIDE DEF q
    <2>2. command.tid \in Tids
      BY <2>1 DEF Command
    <2> QED BY <2>1, <2>2, ProgramShape
  <1> QED BY <1>1, <1>2

\* The beat on the bus: its packet, and when it is taken
LEMMA BeatTaken ==
    ASSUME Setting, HostInv, NEW cr \in BOOLEAN
    PROVE  /\ Taken(cr) => offered
           /\ offered /\ Bus.last /\ Bus.wr => (Taken(cr) <=> UnitDone(cr))
           /\ offered => Bus \in ControlBeat /\ (Bus.go => Bus.wr) /\ (~Bus.wr => Bus.last)
           /\ ~offered => Bus = Invalid
           /\ command_s(Bus) # Invalid => offered /\ Bus.last /\ Bus.wr
  <1>1. ~offered => Bus = Invalid /\ ~Bus.valid
    BY DEF Bus, Invalid
  <1>2. ASSUME offered PROVE Bus \in ControlBeat /\ (Bus.go => Bus.wr) /\ (~Bus.wr => Bus.last)
    <2>0. PICK p \in Packets : \E j \in 0 .. Len(p) - 1 : OnBus(p, j)
      BY <1>2, BusFacts
    <2>1. PICK j \in 0 .. Len(p) - 1 : OnBus(p, j)
      BY <2>0
    <2>2. /\ ~p[1].wr => Len(p) = 1 /\ ~p[1].go
          /\ Len(p) \in Nat
      BY PacketFacts
    <2> DEFINE w == p[j+1].data
    <2>3. /\ Bus \in ControlBeat
          /\ Bus = Beat(p[1].go, p[1].wr, p[1].sel, p[1].len, p[1].tid, w, j + 1 = Len(p))
      BY <2>1 DEF OnBus
    <2> HIDE DEF w
    <2>4. Bus.go = p[1].go /\ Bus.wr = p[1].wr /\ Bus.last = (j + 1 = Len(p))
      BY <2>3 DEF Beat
    <2>5. ASSUME ~p[1].wr PROVE j + 1 = Len(p)
      <3>1. Len(p) = 1
        BY <2>2, <2>5
      <3>2. j \in 0 .. Len(p) - 1
        OBVIOUS
      <3> QED BY <3>1, <3>2
    <2>6. ~Bus.wr => Bus.last
      BY <2>4, <2>5
    <2>7. Bus.go => Bus.wr
      BY <2>2, <2>4
    <2> QED BY <2>3, <2>6, <2>7
  <1>3. HostInv => offered \in BOOLEAN
    BY DEF HostInv
  <1>4. offered => Bus.valid = TRUE
    BY <1>2 DEF ControlBeat
  <1>5. offered /\ Bus.last /\ Bus.wr => (Taken(cr) <=> UnitDone(cr))
    BY <1>4 DEF Taken, UnitDone, c_advance
  <1>6. Taken(cr) => offered
    BY <1>1 DEF Taken, c_advance
  <1>7. command_s(Bus) # Invalid => offered /\ Bus.last /\ Bus.wr
    BY <1>1, <1>2 DEF command_s
  <1> QED BY <1>1, <1>2, <1>5, <1>6, <1>7

\* An edge on which no word is written
LEMMA QuietEdge ==
    ASSUME Setting, ProgramInv, NEW gap, NEW tready, NEW cr \in BOOLEAN, EdgeParts(gap, tready, cr),
           ~(Taken(cr) /\ Bus.wr)
    PROVE  /\ reg' = UnitRegs(cr) /\ shadow' = shadow /\ owed' = UnitRest(cr)
           /\ command' = IF UnitDone(cr) THEN Invalid ELSE command
           /\ result' = BitOr(result, IF sts.valid THEN sts.flags ELSE 0)
  <1> DEFINE ready == command_ready(command, reg, cr)
  <1>1. HostInv /\ Core /\ StatusInv
    BY DEF ProgramInv
  <1>2. ~awe(Bus, ready)
    <2>1. CASE ~Taken(cr)
      BY <2>1 DEF Taken, awe
    <2>2. CASE Taken(cr)
      <3>1. offered /\ ~Bus.wr
        BY <1>1, <2>2, BeatTaken
      <3>0. PICK p \in Packets : \E j \in 0 .. Len(p) - 1 : OnBus(p, j)
        BY <1>1, <3>1, BusFacts
      <3>2. PICK j \in 0 .. Len(p) - 1 : OnBus(p, j)
        BY <3>0
      <3>3. ~p[1].wr
        <4> DEFINE w == p[j+1].data
        <4>1. Bus = Beat(p[1].go, p[1].wr, p[1].sel, p[1].len, p[1].tid, w, j + 1 = Len(p))
          BY <3>2 DEF OnBus
        <4> HIDE DEF w
        <4>2. Bus.wr = p[1].wr
          BY <4>1 DEF Beat
        <4> QED BY <3>1, <4>2
      <3>4. ready \in BOOLEAN
        BY DEF command_ready
      <3>5. awe(Bus, ready) <=> c_advance(Bus, ready) /\ p[1].wr
        BY <3>2, <3>4 DEF OnBus
      <3> QED BY <3>3, <3>5
    <2> QED BY <2>1, <2>2
  <1>3. reg' = UnitRegs(cr)
    BY <1>2 DEF EdgeParts, RegisterFile, UnitRegs
  <1>4. command' = IF UnitDone(cr) THEN Invalid ELSE command
    <2>1. command' = IF UnitDone(cr) THEN command_s(Bus) ELSE command
      BY DEF EdgeParts, CommandRegister, UnitDone
    <2>2. UnitDone(cr) => command_s(Bus) = Invalid
      BY <1>1, BeatTaken
    <2> QED BY <2>1, <2>2
  <1>5. ~(Taken(cr) /\ Head(beats).wr) /\ ~(Taken(cr) /\ Head(beats).last /\ Head(beats).go)
    <2>1. Taken(cr) => Bus = Head(beats) /\ ~Bus.wr /\ ~Bus.go
      BY <1>1, BeatTaken DEF Bus
    <2> QED BY <2>1
  <1>6. shadow' = shadow /\ owed' = UnitRest(cr) \o <<>>
    BY <1>5 DEF EdgeParts, GhostEdge, UnitRest
  <1>7. result' = BitOr(result, IF sts.valid THEN sts.flags ELSE 0)
    BY <1>5 DEF EdgeParts, GhostEdge
  <1>8. UnitRest(cr) \o <<>> = UnitRest(cr)
    BY <1>1, RestSeq, ConcatEmptySeq
  <1> QED BY <1>3, <1>4, <1>6, <1>7, <1>8

LEMMA MoverTyped ==
    ASSUME Setting, Core, StatusInv, NEW cr, NEW st \in BOOLEAN, NEW finish \in BOOLEAN, NEW f \in Flags,
           MoverEdge(Issues(command, reg) /\ cr, st, finish, f)
    PROVE  sts' \in {Invalid} \cup Status /\ moverQ' \in Seq(Tag)
  <1> DEFINE issued == Issues(command, reg) /\ cr
             pops == finish /\ moverQ # <<>> /\ (~sts.valid \/ st)
             rest == IF pops THEN Tail(moverQ) ELSE moverQ
             c == m_axis_cmd(command, reg)
             entry == [req |-> c.req, dest |-> c.dest]
  <1>1. /\ moverQ' = IF issued THEN Append(rest, entry) ELSE rest
        /\ sts' = IF pops THEN [valid |-> TRUE, req |-> Head(moverQ).req,
                                dest |-> Head(moverQ).dest, flags |-> f]
                  ELSE IF st THEN Invalid ELSE sts
    BY DEF MoverEdge
  <1>2. sts \in {Invalid} \cup Status /\ moverQ \in Seq(Tag)
    BY DEF StatusInv
  <1>3. f \in 0 .. 3 /\ DestMod \in Nat \ {0} /\ reg \in [Registers -> Nat]
    BY DEF Setting, Widths, Core
  <1>4. issued => entry \in Tag
    <2>1. SUFFICES ASSUME issued PROVE entry \in Tag
      OBVIOUS
    <2>2. command \in Command
      BY <2>1 DEF Issues, Core, Invalid
    <2>3. command.tid \in Int
      BY <1>3, <2>2 DEF Command, Tids
    <2> DEFINE x == command.tid
    <2>4. x % DestMod \in Tids
      <3>1. x \in Int
        BY <2>3
      <3> HIDE DEF x
      <3> QED BY <1>3, <3>1, DivMod DEF Tids
    <2>5. reqstat(reg) \in BOOLEAN
      BY <1>3, Fields DEF Setting
    <2>6. c.req = (reqstat(reg) /\ ~Repeats(reg)) /\ c.dest = x % DestMod
      BY DEF m_axis_cmd
    <2>7. c.req \in BOOLEAN /\ c.dest \in Tids
      BY <2>4, <2>5, <2>6
    <2> QED BY <2>7 DEF Tag
  <1>5. rest \in Seq(Tag)
    <2>1. moverQ # <<>> => Tail(moverQ) \in Seq(Tag)
      BY <1>2
    <2> QED BY <1>2, <2>1
  <1>6. pops => [valid |-> TRUE, req |-> Head(moverQ).req, dest |-> Head(moverQ).dest, flags |-> f] \in Status
    <2>1. moverQ # <<>> => Head(moverQ) \in Tag
      BY <1>2
    <2> QED BY <1>3, <2>1 DEF Status, Tag
  <1> HIDE DEF rest, entry, issued, pops
  <1>7. moverQ' \in Seq(Tag)
    BY <1>1, <1>4, <1>5
  <1>8. sts' \in {Invalid} \cup Status
    BY <1>1, <1>2, <1>6
  <1> QED BY <1>7, <1>8

\* The flags of the status on the stream
LEMMA FlagsTyped ==
    ASSUME StatusInv
    PROVE  /\ (IF sts.valid THEN sts.flags ELSE 0) \in 0 .. 3
           /\ (IF sts.valid THEN BitOr(reg[0], sts.flags) ELSE reg[0])
                 = BitOr(reg[0], IF sts.valid THEN sts.flags ELSE 0)
  <1>1. reg[0] \in 0 .. 3
    BY DEF StatusInv
  <1>2. CASE sts = Invalid
    BY <1>1, <1>2, BitFacts, SMTT(20) DEF Invalid
  <1>3. CASE sts \in Status
    BY <1>3 DEF Status
  <1> QED BY <1>2, <1>3 DEF StatusInv

LEMMA QuietCore ==
    ASSUME Setting, ProgramInv, NEW gap, NEW tready, NEW cr \in BOOLEAN, EdgeParts(gap, tready, cr),
           ~(Taken(cr) /\ Bus.wr)
    PROVE  /\ Core' /\ (Idle => Idle')
           /\ reg'[0] \in 0 .. 3 /\ result' \in 0 .. 3 /\ BitOr(reg'[0], result') = reg'[0]
  <1> DEFINE q == UnitRegs(cr)
  <1>1. HostInv /\ Core /\ StatusInv
    BY DEF ProgramInv
  <1>2. /\ reg' = q /\ shadow' = shadow /\ owed' = UnitRest(cr)
        /\ command' = IF UnitDone(cr) THEN Invalid ELSE command
        /\ result' = BitOr(result, IF sts.valid THEN sts.flags ELSE 0)
    BY QuietEdge
  <1>3. /\ q \in [Registers -> Nat]
        /\ q[0] = IF sts.valid THEN BitOr(reg[0], sts.flags) ELSE reg[0]
        /\ UnitDone(cr) => UnitRest(cr) = <<>> /\ \A i \in Registers \ {0} : q[i] = shadow[i]
        /\ ~UnitDone(cr) =>
             /\ command \in Command /\ UnitRest(cr) = Program(command.tid, q)
             /\ \A i \in Registers \ {0} : shadow[i] = Settled(q)[i]
             /\ cmd(q) = CMD_smove => rep(q) # 0
    BY <1>1, UnitStep
  <1> HIDE DEF q
  <1>4. /\ shadow \in [Registers -> Nat]
        /\ shadow[3] < SizeMod /\ shadow[3] < BttMod /\ shadow[5] < BttMod
        /\ cmd(shadow) = CMD_smove => \E s \in Packets : Strided(s)
    BY <1>1 DEF Core
  <1>5. cmd(shadow)' = cmd(shadow) /\ cmd(reg)' = cmd(q) /\ rep(reg)' = rep(q) /\ Settled(reg)' = Settled(q)
    BY <1>2 DEF cmd, rep, Settled, addr, inc, Packed
  <1>6. ASSUME UnitDone(cr) PROVE Core'
    <2>1. command' = Invalid /\ command'.valid = FALSE /\ owed' = <<>>
      BY <1>2, <1>3, <1>6 DEF Invalid
    <2>2. \A i \in Registers \ {0} : shadow'[i] = reg'[i]
      BY <1>2, <1>3, <1>6
    <2> QED BY <1>2, <1>3, <1>4, <1>5, <2>1, <2>2 DEF Core
  <1>7. ASSUME ~UnitDone(cr) PROVE Core'
    <2>1. command' = command /\ command \in Command
      BY <1>2, <1>3, <1>7
    <2>2. command'.valid = TRUE
      BY <2>1 DEF Command
    <2>3. owed' = Program(command.tid, reg)'
      BY <1>2, <1>3, <1>7, <2>1
    <2>4. \A i \in Registers \ {0} : shadow'[i] = Settled(reg)'[i]
      BY <1>2, <1>3, <1>5, <1>7
    <2> QED BY <1>2, <1>3, <1>4, <1>5, <1>7, <2>1, <2>2, <2>3, <2>4 DEF Core
  <1>8. reg'[0] \in 0 .. 3 /\ result' \in 0 .. 3 /\ BitOr(reg'[0], result') = reg'[0]
    <2> DEFINE fl == IF sts.valid THEN sts.flags ELSE 0
               a == reg[0]
    <2>1. fl \in 0 .. 3 /\ q[0] = BitOr(a, fl)
      BY <1>1, <1>3, FlagsTyped
    <2>2. reg'[0] = BitOr(a, fl) /\ result' = BitOr(result, fl)
      BY <1>2, <2>1
    <2>3. a \in 0 .. 3 /\ result \in 0 .. 3 /\ BitOr(a, result) = a
      BY <1>1 DEF StatusInv
    <2> HIDE DEF fl, a
    <2> QED BY <2>1, <2>2, <2>3, BitFacts
  <1>9. Idle => Idle'
    <2>1. Idle => UnitDone(cr)
      BY DEF Idle, UnitDone, command_ready_s
    <2> QED BY <1>2, <1>3, <2>1 DEF Idle, Invalid
  <1> QED BY <1>6, <1>7, <1>8, <1>9

\* The registers the software believes in once beat j + 1 of packet p is written
Spot(p, j) == p[1].sel + j
Written(p, j) == [shadow EXCEPT ![Spot(p, j)] = p[j+1].data]

LEMMA PacketWords ==
    ASSUME Setting, Core, NEW p \in Packets, NEW j \in 0 .. Len(p) - 1, OnBus(p, j), p[1].wr
    PROVE  /\ Spot(p, j) \in Registers /\ Writes(p, Spot(p, j)) /\ p[j+1].data \in Nat
           /\ WordFits(Spot(p, j), p[j+1].data)
           /\ Written(p, j) \in [Registers -> Nat]
           /\ Written(p, j)[3] < SizeMod /\ Written(p, j)[3] < BttMod /\ Written(p, j)[5] < BttMod
           /\ cmd(Written(p, j)) = CMD_smove => \E s \in Packets : Strided(s)
           /\ \A k \in 1 .. j+1 : Written(p, j)[p[1].sel + k - 1] = p[k].data
  <1> DEFINE sel == p[1].sel
             n == Len(p)
             w == p[j+1].data
             i == Spot(p, j)
             v == Written(p, j)
  <1>1. /\ n \in Nat \ {0} /\ \A k \in 1 .. n : p[k] \in ControlBeat
        /\ p[1] \in ControlBeat
    BY PacketFacts
  <1>2. j \in Nat /\ j + 1 \in 1 .. n /\ j <= n - 1
    BY <1>1
  <1>3. w \in Nat
    <2>1. p[j+1] \in ControlBeat
      BY <1>1, <1>2
    <2> QED BY <2>1 DEF ControlBeat
  <1>4. sel \in Nat /\ n \in Nat
    <2>1. sel \in Registers
      BY <1>1 DEF ControlBeat
    <2> HIDE DEF sel
    <2> QED BY <1>1, <2>1, PortAssumption DEF Registers
  <1>5. i = sel + j /\ i \in Registers
    BY DEF Spot, OnBus
  <1>6. Writes(p, i) /\ WordFor(p, i) = w
    <2> HIDE DEF sel, n, i, w
    <2>1. i \in sel .. sel + n - 1 /\ i - sel + 1 = j + 1
      BY <1>2, <1>4, <1>5
    <2> QED BY <2>1 DEF Writes, WordFor, sel, n, w
  <1>7. WordFits(i, w)
    <2>1. IsPacket(p)
      BY DEF Setting, Careful
    <2>2. Writes(p, i) => WordFits(i, WordFor(p, i))
      BY <1>5, <2>1 DEF IsPacket
    <2> QED BY <1>6, <2>2
  <1>8. shadow \in [Registers -> Nat] /\ v = [shadow EXCEPT ![i] = w]
    BY DEF Core, Written
  <1>9. v \in [Registers -> Nat] /\ v[i] = w /\ \A l \in Registers \ {i} : v[l] = shadow[l]
    <2> HIDE DEF v, i, w
    <2> QED BY <1>3, <1>5, <1>8
  <1>10. {0, 1, 2, 3, 4, 5} \subseteq Registers
    BY SixRegisters DEF Setting
  <1>11. v[3] < SizeMod /\ v[3] < BttMod /\ v[5] < BttMod
    <2>1. shadow[3] < SizeMod /\ shadow[3] < BttMod /\ shadow[5] < BttMod
      BY DEF Core
    <2>2. (i = 3 => w < SizeMod /\ w < BttMod) /\ (i = 5 => w < BttMod)
      BY <1>7 DEF WordFits
    <2> HIDE DEF v, i, w
    <2> QED BY <1>9, <1>10, <2>1, <2>2
  <1>12. ASSUME cmd(v) = CMD_smove PROVE \E s \in Packets : Strided(s)
    <2>1. CASE i = 1
      <3>1. WordFor(p, 1) % 8 = CMD_smove
        BY <1>6, <1>9, <1>12, <2>1 DEF cmd
      <3> QED BY <1>6, <2>1, <3>1 DEF Strided
    <2>2. CASE i # 1
      <3>1. v[1] = shadow[1]
        BY <1>9, <1>10, <2>2
      <3>2. cmd(shadow) = CMD_smove
        BY <1>12, <3>1 DEF cmd
      <3> QED BY <3>2 DEF Core
    <2> QED BY <2>1, <2>2
  <1>13. ASSUME NEW k \in 1 .. j+1 PROVE v[sel + k - 1] = p[k].data
    <2>1. CASE k = j + 1
      <3>1. sel + k - 1 = i
        BY <1>2, <1>4, <1>5, <2>1
      <3> QED BY <1>9, <2>1, <3>1
    <2>2. CASE k # j + 1
      <3>1. k \in 1 .. j
        BY <1>2, <2>2
      <3>2. shadow[sel + k - 1] = p[k].data
        BY <3>1 DEF OnBus, Sending
      <3>3. sel + k - 1 \in Registers \ {i}
        <4> HIDE DEF sel, i
        <4> QED BY <1>2, <1>4, <1>5, <3>1, PortAssumption DEF Registers
      <3>4. v[sel + k - 1] = shadow[sel + k - 1]
        <4> HIDE DEF v, i, sel
        <4> QED BY <1>9, <3>3
      <3> QED BY <3>2, <3>4
    <2> QED BY <2>1, <2>2
  <1> QED BY <1>3, <1>5, <1>6, <1>7, <1>9, <1>11, <1>12, <1>13

\* While the unit writes back, no packet writes the same registers.
LEMMA NoClash ==
    ASSUME Setting, Core, NEW p \in Packets, NEW j \in 0 .. Len(p) - 1, OnBus(p, j), p[1].wr,
           NEW cr \in BOOLEAN, Strides(command, reg, cr)
    PROVE  Spot(p, j) \notin {1, 2, 5}
  <1>1. command.valid /\ cmd(reg) = CMD_smove
    BY DEF Strides, Issues
  <1>2. ~(Len(p) > 1)
    BY <1>1 DEF OnBus, Sending, Idle
  <1>3. cmd(shadow) = CMD_smove
    <2>1. reg \in [Registers -> Nat] /\ 1 \in Registers /\ 2 \in Registers /\ 5 \in Registers /\ Widths
      BY SixRegisters DEF Core, Setting
    <2> DEFINE a == (addr(reg) + rep(reg) * inc(reg)) % AddrMod
               b == addr(reg) + rep(reg) * inc(reg)
    <2>2. shadow[1] = Settled(reg)[1]
      BY <1>1, <2>1 DEF Core
    <2>3. Settled(reg)[1] = Packed(reg, a)
      <3>1. Settled(reg) = [reg EXCEPT ![1] = Packed(reg, a), ![2] = a % AddrLo, ![5] = 0]
        BY <1>1 DEF Settled
      <3> HIDE DEF a
      <3> QED BY <2>1, <3>1
    <2>4. a \in Nat
      <3>1. addr(reg) \in Nat /\ rep(reg) \in Nat /\ inc(reg) \in Nat /\ AddrMod \in Nat \ {0}
        <4>1. RepMod \in Nat \ {0}
          BY <2>1 DEF Widths
        <4>2. addr(reg) \in Nat /\ rep(reg) \in 0 .. RepMod-1 /\ inc(reg) \in Nat
          BY <2>1, Fields
        <4> QED BY <2>1, <4>1, <4>2, SixRegisters
      <3>2. b \in Int
        BY <3>1
      <3>3. a = b % AddrMod
        OBVIOUS
      <3> HIDE DEF a, b
      <3> QED BY <3>1, <3>2, <3>3, DivMod
    <2> HIDE DEF a
    <2> DEFINE h == a \div AddrLo
    <2>5. h \in Nat
      BY <2>1, <2>4, DivNat DEF Widths
    <2>6. Packed(reg, a) = h * 16 + (reg[1] % 16)
      BY DEF Packed
    <2> HIDE DEF h
    <2>7. Packed(reg, a) % 8 = reg[1] % 8
      BY <2>1, <2>5, <2>6, PackedFields
    <2> QED BY <1>1, <2>2, <2>3, <2>7 DEF cmd
  <1>4. \E s \in Packets : Strided(s)
    BY <1>3 DEF Core
  <1>5. \A i \in {1, 2, 5} : Writes(p, i) => Len(p) > 1
    BY <1>4 DEF Setting, Careful
  <1>6. Writes(p, Spot(p, j))
    BY PacketWords
  <1> QED BY <1>2, <1>5, <1>6

\* An edge on which beat j + 1 of packet p is written
Starts(p, j) == j + 1 = Len(p) /\ p[1].go

LEMMA StridedWhole ==
    ASSUME Setting, Core, NEW p \in Packets, NEW j \in 0 .. Len(p) - 1, OnBus(p, j), p[1].wr, Starts(p, j)
    PROVE  cmd(Written(p, j)) = CMD_smove => rep(Written(p, j)) # 0
  <1> DEFINE v == Written(p, j)
  <1>1. SUFFICES ASSUME cmd(v) = CMD_smove PROVE rep(v) # 0
    OBVIOUS
  <1>2. /\ \E s \in Packets : Strided(s)
        /\ \A k \in 1 .. j+1 : v[p[1].sel + k - 1] = p[k].data
    BY <1>1, PacketWords
  <1>3. ASSUME NEW i \in {1, 5}, Writes(p, i) PROVE v[i] = WordFor(p, i)
    <2> DEFINE sel == p[1].sel
               n == Len(p)
               k == i - sel + 1
    <2>1. sel \in Nat
      <3>1. p[1] \in ControlBeat
        BY PacketFacts
      <3>2. sel \in Registers
        BY <3>1 DEF ControlBeat
      <3> HIDE DEF sel
      <3> QED BY <3>2, PortAssumption DEF Registers
    <2>2. n \in Nat /\ j + 1 = n /\ i \in sel .. sel + n - 1
      BY <1>3, PacketFacts DEF Starts, Writes
    <2>3. k \in 1 .. j+1 /\ sel + k - 1 = i
      <3> HIDE DEF sel, n
      <3> QED BY <2>1, <2>2
    <2>4. v[sel + k - 1] = p[k].data
      BY <1>2, <2>3
    <2>5. WordFor(p, i) = p[k].data
      BY DEF WordFor
    <2> HIDE DEF k, v
    <2> QED BY <2>3, <2>4, <2>5
  <1>4. Writes(p, 1)
    BY <1>2 DEF Setting, Careful, Starts
  <1>5. v[1] = WordFor(p, 1)
    BY <1>3, <1>4
  <1>6. Strided(p)
    BY <1>1, <1>4, <1>5 DEF Strided, cmd
  <1>7. Writes(p, 5) /\ WordFor(p, 5) % RepMod # 0
    BY <1>6 DEF Setting, Careful
  <1>8. v[5] = WordFor(p, 5)
    BY <1>3, <1>7
  <1> QED BY <1>7, <1>8 DEF rep

LEMMA WriteEdge ==
    ASSUME Setting, ProgramInv, NEW gap, NEW tready, NEW cr \in BOOLEAN, EdgeParts(gap, tready, cr),
           NEW p \in Packets, NEW j \in 0 .. Len(p) - 1, OnBus(p, j), p[1].wr, Taken(cr)
    PROVE  /\ reg' \in [Registers -> Nat] /\ \A i \in Registers \ {0} : reg'[i] = Written(p, j)[i]
           /\ reg'[0] = IF sts.valid THEN BitOr(reg[0], sts.flags)
                        ELSE IF Spot(p, j) = 0 THEN p[j+1].data ELSE reg[0]
           /\ shadow' = IF Starts(p, j) THEN Settled(Written(p, j)) ELSE Written(p, j)
           /\ owed' = IF Starts(p, j) THEN Program(p[1].tid, Written(p, j)) ELSE <<>>
           /\ command' = IF Starts(p, j) THEN [valid |-> TRUE, tid |-> p[1].tid, tdest |-> LSU] ELSE Invalid
           /\ result' = BitOr(IF Spot(p, j) = 0 THEN 0 ELSE result, IF sts.valid THEN sts.flags ELSE 0)
  <1> DEFINE w == p[j+1].data
             i0 == Spot(p, j)
             v == Written(p, j)
             q == UnitRegs(cr)
             ready == command_ready(command, reg, cr)
  <1>1. HostInv /\ Core /\ StatusInv
    BY DEF ProgramInv
  <1>2. /\ i0 \in Registers /\ w \in Nat /\ v \in [Registers -> Nat]
    BY <1>1, PacketWords
  <1>3. /\ offered /\ beats # <<>> /\ Bus = Head(beats)
        /\ asel(Bus) = i0 /\ Bus.sel + Bus.len - Len(beats) = i0
    BY <1>1, BeatTaken DEF OnBus, Spot
  <1>4. Bus = Beat(p[1].go, p[1].wr, p[1].sel, p[1].len, p[1].tid, w, j + 1 = Len(p))
    BY DEF OnBus
  <1>5. /\ Bus.valid = TRUE /\ Bus.go = p[1].go /\ Bus.wr = p[1].wr /\ Bus.tid = p[1].tid
        /\ Bus.tdest = LSU /\ Bus.data = w /\ Bus.last = (j + 1 = Len(p))
    <2> HIDE DEF w
    <2> QED BY <1>4 DEF Beat
  <1>6. awe(Bus, ready)
    <2>1. ready \in BOOLEAN
      BY DEF command_ready
    <2>2. awe(Bus, ready) <=> c_advance(Bus, ready) /\ p[1].wr
      BY <2>1 DEF OnBus
    <2> QED BY <2>2 DEF Taken
  <1>7. UnitDone(cr)
    <2>1. CASE j + 1 = Len(p)
      BY <1>1, <1>3, <1>5, <2>1, BeatTaken
    <2>2. CASE j + 1 # Len(p)
      <3>1. Len(p) > 1
        <4>1. Len(p) \in Nat
          BY PacketFacts
        <4> QED BY <2>2, <4>1
      <3>2. Idle
        BY <3>1 DEF OnBus, Sending
      <3> QED BY <3>2 DEF Idle, UnitDone, command_ready_s
    <2> QED BY <2>1, <2>2
  <1>8. UnitRest(cr) = <<>> /\ q \in [Registers -> Nat] /\ \A i \in Registers \ {0} : q[i] = shadow[i]
    BY <1>1, <1>7, UnitStep
  <1>9. reg' = [i \in Registers |-> IF i \in vwe(command, reg, cr, sts) THEN vrsp(reg, sts)[i]
                                    ELSE IF i = i0 THEN w ELSE reg[i]]
    BY <1>3, <1>5, <1>6 DEF EdgeParts, RegisterFile
  <1>10. 0 \in Registers
    BY SixRegisters DEF Setting
  <1>11. Strides(command, reg, cr) => i0 \notin {1, 2, 5}
    BY <1>1, NoClash
  <1>12. shadow \in [Registers -> Nat] /\ v = [shadow EXCEPT ![i0] = w]
    BY <1>1 DEF Core, Written
  <1>13. ASSUME NEW i \in Registers \ {0} PROVE reg'[i] = v[i]
    <2>1. CASE i = i0
      <3>1. i \notin vwe(command, reg, cr, sts)
        BY <1>11, <2>1 DEF vwe
      <3>2. v[i] = w
        <4> HIDE DEF w, v, i0
        <4> QED BY <1>2, <1>12, <2>1
      <3> QED BY <1>9, <2>1, <3>1, <3>2
    <2>2. CASE i # i0
      <3>1. reg'[i] = q[i]
        BY <1>9, <2>2 DEF UnitRegs
      <3>2. v[i] = shadow[i]
        <4> HIDE DEF w, v, i0
        <4> QED BY <1>2, <1>12, <2>2
      <3> QED BY <1>8, <3>1, <3>2
    <2> QED BY <2>1, <2>2
  <1>14. reg'[0] = IF sts.valid THEN BitOr(reg[0], sts.flags) ELSE IF i0 = 0 THEN w ELSE reg[0]
    <2>1. CASE sts.valid
      <3>1. vrsp(reg, sts)[0] = BitOr(reg[0], sts.flags)
        BY <1>10, <2>1 DEF vrsp
      <3>2. 0 \in vwe(command, reg, cr, sts)
        BY <2>1 DEF vwe
      <3> QED BY <1>9, <1>10, <2>1, <3>1, <3>2
    <2>2. CASE ~sts.valid
      <3>1. 0 \notin vwe(command, reg, cr, sts)
        BY <2>2 DEF vwe
      <3> HIDE DEF i0, w
      <3> QED BY <1>9, <1>10, <2>2, <3>1
    <2> QED BY <2>1, <2>2
  <1>15. reg' \in [Registers -> Nat]
    <2>1. q[0] \in Nat /\ q[0] = IF sts.valid THEN BitOr(reg[0], sts.flags) ELSE reg[0]
      BY <1>1, <1>8, <1>10, UnitStep
    <2>2. reg'[0] \in Nat
      <3> HIDE DEF w, i0
      <3>1. CASE sts.valid
        BY <1>14, <2>1, <3>1
      <3>2. CASE ~sts.valid
        BY <1>2, <1>14, <2>1, <3>2
      <3> QED BY <3>1, <3>2
    <2>3. \A i \in Registers : reg'[i] \in Nat
      <3> HIDE DEF v
      <3> QED BY <1>2, <1>13, <2>2
    <2>4. DOMAIN reg' = Registers /\ reg' = [i \in DOMAIN reg' |-> reg'[i]]
      BY <1>9
    <2> QED BY <2>3, <2>4
  <1>16. command' = IF Starts(p, j) THEN [valid |-> TRUE, tid |-> p[1].tid, tdest |-> LSU] ELSE Invalid
    <2>1. command' = command_s(Bus)
      BY <1>7 DEF EdgeParts, CommandRegister, UnitDone
    <2>2. Bus.valid /\ Bus.last /\ Bus.go <=> Starts(p, j)
      BY <1>5 DEF Starts
    <2> QED BY <1>5, <2>1, <2>2 DEF command_s
  <1>17. /\ shadow' = IF Starts(p, j) THEN Settled(v) ELSE v
         /\ owed' = UnitRest(cr) \o (IF Starts(p, j) THEN Program(p[1].tid, v) ELSE <<>>)
         /\ result' = BitOr(IF i0 = 0 THEN 0 ELSE result, IF sts.valid THEN sts.flags ELSE 0)
    <2> DEFINE b == Head(beats)
               nth == b.sel + b.len - Len(beats)
               written == IF Taken(cr) /\ b.wr THEN [shadow EXCEPT ![nth] = b.data] ELSE shadow
               starts == Taken(cr) /\ b.last /\ b.go
               prog == IF starts THEN Program(b.tid, written) ELSE <<>>
               issued == Issues(command, reg) /\ cr
               rest == IF issued /\ owed # <<>> THEN Tail(owed) ELSE owed
    <2>1. /\ shadow' = IF starts THEN Settled(written) ELSE written
          /\ owed' = rest \o prog
          /\ result' = BitOr(IF Taken(cr) /\ b.wr /\ nth = 0 THEN 0 ELSE result,
                             IF sts.valid THEN sts.flags ELSE 0)
      BY DEF EdgeParts, GhostEdge
    <2>2. b = Bus /\ nth = i0 /\ b.wr /\ b.data = w /\ b.tid = p[1].tid
      BY <1>3, <1>5
    <2>3. written = v
      BY <1>12, <2>2
    <2>4. starts <=> Starts(p, j)
      BY <1>5, <2>2 DEF Starts
    <2>5. rest = UnitRest(cr)
      BY DEF UnitRest
    <2> HIDE DEF b, nth, written, starts, rest, v, i0, w
    <2> QED BY <2>1, <2>2, <2>3, <2>4, <2>5
  <1>18. owed' = IF Starts(p, j) THEN Program(p[1].tid, v) ELSE <<>>
    <2>1. ASSUME Starts(p, j) PROVE owed' = Program(p[1].tid, v)
      <3>1. cmd(v) = CMD_smove => rep(v) # 0
        BY <1>1, <2>1, StridedWhole
      <3>2. p[1].tid \in Tids
        BY PacketFacts DEF ControlBeat, Tids
      <3>3. Program(p[1].tid, v) \in Seq(Entry)
        BY <1>2, <3>1, <3>2, ProgramShape DEF Setting
      <3> QED BY <1>8, <1>17, <2>1, <3>3, ConcatEmptySeq
    <2>2. ASSUME ~Starts(p, j) PROVE owed' = <<>>
      BY <1>8, <1>17, <2>2
    <2> QED BY <2>1, <2>2
  <1> QED BY <1>13, <1>14, <1>15, <1>16, <1>17, <1>18

\* What Settled leaves alone
LEMMA SettledFields ==
    ASSUME Widths, NEW r \in [Registers -> Nat], r[3] < SizeMod, r[3] < BttMod, r[5] < BttMod
    PROVE  /\ Settled(r) \in [Registers -> Nat] /\ cmd(Settled(r)) = cmd(r)
           /\ Settled(r)[3] < SizeMod /\ Settled(r)[3] < BttMod /\ Settled(r)[5] < BttMod
  <1>1. {0, 1, 2, 3, 4, 5} \subseteq Registers /\ AddrMod \in Nat \ {0}
    BY SixRegisters
  <1>2. CASE cmd(r) # CMD_smove
    BY <1>2 DEF Settled
  <1>3. CASE cmd(r) = CMD_smove
    <2> DEFINE b == addr(r) + rep(r) * inc(r)
               a == b % AddrMod
               h == a \div AddrLo
               l == a % AddrLo
               x == Packed(r, a)
    <2>1. Settled(r) = [r EXCEPT ![1] = x, ![2] = l, ![5] = 0]
      BY <1>3 DEF Settled
    <2>2. AddrLo \in Nat \ {0} /\ BttMod \in Nat \ {0} /\ r[1] \in Nat
      BY <1>1 DEF Widths
    <2>3. addr(r) \in Nat /\ rep(r) \in Nat /\ inc(r) \in Nat
      BY Fields DEF Widths
    <2>4. b \in Int
      BY <2>3
    <2> HIDE DEF b
    <2>5. a \in Nat
      BY <1>1, <2>4, DivMod
    <2> HIDE DEF a
    <2>6. h \in Nat /\ l \in Nat
      <3>1. h \in Nat
        BY <2>2, <2>5, DivNat
      <3>2. a \in Int
        BY <2>5
      <3>3. l \in Nat
        BY <2>2, <3>2, DivMod
      <3> QED BY <3>1, <3>3
    <2>7. x = h * 16 + (r[1] % 16)
      BY DEF Packed
    <2> HIDE DEF h, l, x
    <2>8. x \in Nat /\ x % 8 = r[1] % 8
      BY <2>2, <2>6, <2>7, PackedFields
    <2>9. Settled(r) \in [Registers -> Nat] /\ Settled(r)[1] = x /\ Settled(r)[3] = r[3] /\ Settled(r)[5] = 0
      BY <1>1, <2>1, <2>6, <2>8
    <2>10. cmd(Settled(r)) = cmd(r)
      BY <2>8, <2>9 DEF cmd
    <2>11. 0 < BttMod
      BY <2>2
    <2> QED BY <2>9, <2>10, <2>11
  <1> QED BY <1>2, <1>3

LEMMA WriteCore ==
    ASSUME Setting, ProgramInv, NEW gap, NEW tready, NEW cr \in BOOLEAN, EdgeParts(gap, tready, cr),
           NEW p \in Packets, NEW j \in 0 .. Len(p) - 1, OnBus(p, j), p[1].wr, Taken(cr)
    PROVE  /\ Core' /\ (~Starts(p, j) => Idle')
           /\ reg'[0] \in 0 .. 3 /\ result' \in 0 .. 3 /\ BitOr(reg'[0], result') = reg'[0]
  <1> DEFINE w == p[j+1].data
             i0 == Spot(p, j)
             v == Written(p, j)
             g == Starts(p, j)
             tid == p[1].tid
  <1>1. HostInv /\ Core /\ StatusInv /\ Widths
    BY DEF ProgramInv, Setting
  <1>2. /\ reg' \in [Registers -> Nat] /\ \A i \in Registers \ {0} : reg'[i] = v[i]
        /\ reg'[0] = IF sts.valid THEN BitOr(reg[0], sts.flags) ELSE IF i0 = 0 THEN w ELSE reg[0]
        /\ shadow' = IF g THEN Settled(v) ELSE v
        /\ owed' = IF g THEN Program(tid, v) ELSE <<>>
        /\ command' = IF g THEN [valid |-> TRUE, tid |-> tid, tdest |-> LSU] ELSE Invalid
        /\ result' = BitOr(IF i0 = 0 THEN 0 ELSE result, IF sts.valid THEN sts.flags ELSE 0)
    BY WriteEdge
  <1>3. /\ w \in Nat /\ WordFits(i0, w) /\ v \in [Registers -> Nat]
        /\ v[3] < SizeMod /\ v[3] < BttMod /\ v[5] < BttMod
        /\ cmd(v) = CMD_smove => \E s \in Packets : Strided(s)
    BY <1>1, PacketWords
  <1>4. g => (cmd(v) = CMD_smove => rep(v) # 0)
    BY <1>1, StridedWhole
  <1>5. tid \in Tids
    <2>1. p[1] \in ControlBeat
      BY PacketFacts
    <2> QED BY <2>1 DEF ControlBeat, Tids
  <1> HIDE DEF v, w, i0, g, tid
  <1>6. /\ \A t \in Tids : Program(t, reg') = Program(t, v)
        /\ cmd(reg') = cmd(v) /\ rep(reg') = rep(v)
        /\ \A i \in Registers \ {0} : Settled(reg')[i] = Settled(v)[i]
    <2> DEFINE q == reg'
    <2>1. q \in [Registers -> Nat] /\ \A i \in Registers \ {0} : q[i] = v[i]
      BY <1>2
    <2> HIDE DEF q
    <2>2. /\ \A t \in Tids : Program(t, q) = Program(t, v)
          /\ cmd(q) = cmd(v) /\ rep(q) = rep(v)
          /\ \A i \in Registers \ {0} : Settled(q)[i] = Settled(v)[i]
      BY <1>1, <1>3, <2>1, SameProgram
    <2> QED BY <2>2 DEF q
  <1>7. /\ Settled(v) \in [Registers -> Nat] /\ cmd(Settled(v)) = cmd(v)
        /\ Settled(v)[3] < SizeMod /\ Settled(v)[3] < BttMod /\ Settled(v)[5] < BttMod
    BY <1>1, <1>3, SettledFields
  <1>8. ASSUME g PROVE Core'
    <2>1. command' \in Command /\ command'.valid = TRUE /\ command'.tid = tid
      BY <1>2, <1>5, <1>8 DEF Command
    <2>2. owed' = Program(command'.tid, reg')
      BY <1>2, <1>5, <1>6, <1>8, <2>1
    <2>3. shadow' = Settled(v) /\ \A i \in Registers \ {0} : shadow'[i] = Settled(reg')[i]
      BY <1>2, <1>6, <1>8
    <2>4. cmd(reg') = CMD_smove => rep(reg') # 0
      BY <1>4, <1>6, <1>8
    <2>5. cmd(shadow') = CMD_smove => \E s \in Packets : Strided(s)
      BY <1>3, <1>7, <2>3
    <2>6. /\ shadow' \in [Registers -> Nat]
          /\ shadow'[3] < SizeMod /\ shadow'[3] < BttMod /\ shadow'[5] < BttMod
      BY <1>7, <2>3
    <2> QED BY <1>2, <2>1, <2>2, <2>3, <2>4, <2>5, <2>6 DEF Core
  <1>9. ASSUME ~g PROVE Core' /\ Idle'
    <2>1. command' = Invalid /\ command'.valid = FALSE /\ owed' = <<>>
      BY <1>2, <1>9 DEF Invalid
    <2>2. shadow' = v /\ \A i \in Registers \ {0} : shadow'[i] = reg'[i]
      BY <1>2, <1>9
    <2>3. cmd(shadow') = CMD_smove => \E s \in Packets : Strided(s)
      BY <1>3, <2>2
    <2>4. /\ shadow' \in [Registers -> Nat]
          /\ shadow'[3] < SizeMod /\ shadow'[3] < BttMod /\ shadow'[5] < BttMod
      BY <1>3, <2>2
    <2>5. Core'
      BY <1>2, <2>1, <2>2, <2>3, <2>4 DEF Core
    <2> QED BY <2>1, <2>5 DEF Idle
  <1>10. reg'[0] \in 0 .. 3 /\ result' \in 0 .. 3 /\ BitOr(reg'[0], result') = reg'[0]
    <2> DEFINE fl == IF sts.valid THEN sts.flags ELSE 0
               a == reg[0]
    <2>1. fl \in 0 .. 3 /\ (IF sts.valid THEN BitOr(a, sts.flags) ELSE a) = BitOr(a, fl)
      BY <1>1, FlagsTyped
    <2>2. a \in 0 .. 3 /\ result \in 0 .. 3 /\ BitOr(a, result) = a
      BY <1>1 DEF StatusInv
    <2>3. result' = BitOr(IF i0 = 0 THEN 0 ELSE result, fl)
      BY <1>2
    <2>4. i0 = 0 => w \in 0 .. 3
      BY <1>3 DEF WordFits
    <2>5. CASE sts.valid \/ i0 # 0
      <3>1. reg'[0] = BitOr(a, fl)
        BY <1>2, <2>1, <2>5
      <3> HIDE DEF fl, a
      <3>2. CASE i0 = 0
        BY <2>1, <2>2, <2>3, <3>1, <3>2, BitFacts, SMTT(20)
      <3>3. CASE i0 # 0
        BY <2>1, <2>2, <2>3, <3>1, <3>3, BitFacts, SMTT(20)
      <3> QED BY <3>2, <3>3
    <2>6. CASE ~sts.valid /\ i0 = 0
      <3>1. reg'[0] = w /\ fl = 0
        BY <1>2, <2>6
      <3> HIDE DEF fl, a
      <3>2. w \in 0 .. 3 /\ result' = BitOr(0, 0)
        BY <2>3, <2>4, <2>6, <3>1
      <3>3. BitOr(0, 0) = 0 /\ BitOr(w, 0) = w
        BY <3>2, BitFacts
      <3> QED BY <3>1, <3>2, <3>3
    <2> QED BY <2>5, <2>6
  <1> QED BY <1>8, <1>9, <1>10 DEF g

LEMMA HostWaits ==
    ASSUME Setting, ProgramInv, NEW gap \in BOOLEAN, NEW tready, NEW cr \in BOOLEAN,
           EdgeParts(gap, tready, cr), ~Taken(cr)
    PROVE  HostInv'
  <1>1. beats' = beats /\ offered' = (offered \/ (~gap /\ beats # <<>>))
    BY DEF EdgeParts, HostEdge
  <1>2. alen_r' = alen_r /\ asel_r' = asel_r /\ (alen_r # 0 => awe_r' = awe_r)
    BY DEF EdgeParts, CommandBeats, Taken, FirstWord
  <1>3. shadow' = shadow /\ (Idle => Idle')
    BY QuietEdge, QuietCore
  <1>4. HostInv
    BY DEF ProgramInv
  <1>5. offered \in BOOLEAN /\ beats \in Seq(ControlBeat)
    BY <1>4 DEF HostInv
  <1>6. offered' \in BOOLEAN /\ beats' \in Seq(ControlBeat)
    BY <1>1, <1>5
  <1>7. CASE beats = <<>>
    <2>1. alen_r = 0 /\ offered = FALSE
      BY <1>4, <1>7 DEF HostInv
    <2> QED BY <1>1, <1>2, <1>6, <1>7, <2>1 DEF HostInv
  <1>8. CASE beats # <<>>
    <2>1. PICK p \in Packets : \E j \in 0 .. Len(p) - 1 : Sending(p, j)
      BY <1>4, <1>8 DEF HostInv
    <2>2. PICK j \in 0 .. Len(p) - 1 : Sending(p, j)
      BY <2>1
    <2>3. Len(p) \in Nat
      BY PacketFacts
    <2>4. j # 0 => alen_r # 0
      BY <2>2, <2>3 DEF Sending
    <2>5. Sending(p, j)'
      BY <1>1, <1>2, <1>3, <2>2, <2>4 DEF Sending
    <2> QED BY <1>1, <1>6, <1>8, <2>5 DEF HostInv
  <1> QED BY <1>7, <1>8

LEMMA HostMoves ==
    ASSUME Setting, ProgramInv, NEW gap \in BOOLEAN, NEW tready, NEW cr \in BOOLEAN,
           EdgeParts(gap, tready, cr), Taken(cr)
    PROVE  HostInv'
  <1>1. HostInv /\ Core
    BY DEF ProgramInv
  <1>2. offered /\ offered \in BOOLEAN /\ beats \in Seq(ControlBeat)
    BY <1>1, BeatTaken DEF HostInv
  <1>3. PICK p \in Packets : \E j \in 0 .. Len(p) - 1 : OnBus(p, j)
    BY <1>1, <1>2, BusFacts
  <1>4. PICK j \in 0 .. Len(p) - 1 : OnBus(p, j)
    BY <1>3
  <1> DEFINE n == Len(p)
             sel == p[1].sel
             rest == Tail(beats)
  <1>5. n \in Nat \ {0} /\ j \in Nat /\ j <= n - 1
    BY PacketFacts, SMTT(20)
  <1>6. /\ beats # <<>> /\ Len(beats) = n - j /\ \A k \in 1 .. n - j : beats[k] = p[k + j]
        /\ asel(Bus) = sel + j /\ alen(Bus) = n - j
    BY <1>4 DEF OnBus, Sending
  <1>7. /\ rest \in Seq(ControlBeat) /\ Len(rest) = n - j - 1
        /\ \A k \in 1 .. n - j - 1 : rest[k] = beats[k + 1]
    BY <1>2, <1>5, <1>6, HeadTailProperties
  <1>8. \A k \in 1 .. n - j - 1 : rest[k] = p[k + (j + 1)]
    <2> SUFFICES ASSUME NEW k \in 1 .. n - j - 1 PROVE rest[k] = p[k + (j + 1)]
      OBVIOUS
    <2>1. k + 1 \in 1 .. n - j /\ (k + 1) + j = k + (j + 1)
      BY <1>5
    <2> HIDE DEF rest, n
    <2> QED BY <1>6, <1>7, <2>1
  <1>9. beats' = rest /\ offered' = (~gap /\ rest # <<>>)
    BY <1>2 DEF EdgeParts, HostEdge
  <1>10. offered' \in BOOLEAN /\ beats' \in Seq(ControlBeat)
    BY <1>7, <1>9
  <1>11. SelMod \in Nat \ {0} /\ NReg \in Nat /\ NReg <= SelMod
    BY PortAssumption
  <1>12. asel_r' = (sel + j + 1) % SelMod /\ alen_r' = (n - j - 1) % SelMod
    BY <1>6 DEF EdgeParts, CommandBeats, Taken
  <1>13. CASE j + 1 = n
    <2>1. n - j - 1 = 0
      BY <1>5, <1>13
    <2>2. rest = <<>>
      BY <1>7, <2>1, EmptySeq
    <2>3. alen_r' = 0
      BY <1>11, <1>12, <2>1, ModSmall
    <2> QED BY <1>9, <1>10, <2>2, <2>3 DEF HostInv
  <1>14. CASE j + 1 # n
    <2>1. j + 1 \in 0 .. n - 1 /\ n > 1 /\ j + 1 # 0
      BY <1>5, <1>14
    <2>2. p[1].wr /\ sel + n <= NReg
      BY <2>1, PacketFacts, SMTT(20)
    <2>3. sel \in Nat
      <3>1. p[1] \in ControlBeat
        BY PacketFacts
      <3>2. sel \in Registers
        BY <3>1 DEF ControlBeat
      <3> HIDE DEF sel
      <3> QED BY <3>2, PortAssumption DEF Registers
    <2>4. asel_r' = sel + (j + 1) /\ alen_r' = n - (j + 1)
      <3> HIDE DEF sel, n
      <3> DEFINE x == sel + j + 1
                 y == n - j - 1
      <3>1. x \in 0 .. SelMod-1 /\ y \in 0 .. SelMod-1 /\ x = sel + (j + 1) /\ y = n - (j + 1)
        BY <1>5, <1>11, <2>1, <2>2, <2>3
      <3> HIDE DEF x, y
      <3>2. x % SelMod = x /\ y % SelMod = y
        BY <1>11, <3>1, ModSmall
      <3> QED BY <1>12, <3>1, <3>2 DEF x, y
    <2>5. awe_r' = TRUE
      <3>1. command_ready(command, reg, cr) \in BOOLEAN
        BY DEF command_ready
      <3>2. awe(Bus, command_ready(command, reg, cr)) = TRUE
        BY <1>4, <2>2, <3>1 DEF OnBus, awe, Taken, FirstWord
      <3>3. CASE alen_r = 0
        BY <3>2, <3>3 DEF EdgeParts, CommandBeats, FirstWord
      <3>4. CASE alen_r # 0
        <4>1. j # 0
          BY <1>4, <3>4 DEF OnBus, Sending
        <4>2. awe_r = TRUE
          BY <1>4, <4>1 DEF OnBus, Sending
        <4> QED BY <3>4, <4>2 DEF EdgeParts, CommandBeats, FirstWord
      <3> QED BY <3>3, <3>4
    <2>6. ~Starts(p, j)
      BY <1>14 DEF Starts
    <2>7. Idle'
      BY <1>4, <2>2, <2>6, WriteCore
    <2>8. \A k \in 1 .. j + 1 : shadow'[sel + k - 1] = p[k].data
      <3>1. shadow' = Written(p, j)
        BY <1>4, <2>2, <2>6, WriteEdge
      <3> QED BY <1>1, <1>4, <2>2, <3>1, PacketWords
    <2>9. Sending(p, j + 1)'
      <3>1. Len(beats') = n - (j + 1) /\ \A k \in 1 .. n - (j + 1) : beats'[k] = p[k + (j + 1)]
        <4> HIDE DEF rest, n
        <4>1. n - j - 1 = n - (j + 1)
          BY <1>5
        <4> QED BY <1>7, <1>8, <1>9, <4>1
      <3> QED BY <2>1, <2>2, <2>4, <2>5, <2>7, <2>8, <3>1 DEF Sending
    <2>10. beats' # <<>>
      <3>1. n - j - 1 # 0
        BY <1>5, <2>1
      <3> QED BY <1>7, <1>9, <3>1
    <2> QED BY <1>10, <2>1, <2>9, <2>10 DEF HostInv
  <1> QED BY <1>13, <1>14
-----------------------------------------------------------------------------
(* The program invariant *)

LEMMA ProgramInit == ASSUME Setting, Init PROVE ProgramInv
  <1>1. {0, 1, 2, 3, 4, 5} \subseteq Registers /\ Widths
    BY SixRegisters DEF Setting
  <1>2. HostInv
    <2>1. beats = <<>> /\ offered = FALSE /\ alen_r = 0
      BY DEF Init, PortInit
    <2>2. beats \in Seq(ControlBeat)
      BY <2>1
    <2> QED BY <2>1, <2>2 DEF HostInv
  <1>3. shadow \in [Registers -> Nat] /\ shadow[1] = 0 /\ shadow[3] = 0 /\ shadow[5] = 0
    BY <1>1 DEF Init
  <1>4. reg \in [Registers -> Nat] /\ reg[0] = 0 /\ reg = shadow
    BY <1>1 DEF Init, PortInit
  <1>5. cmd(shadow) # CMD_smove
    BY <1>3 DEF cmd, CMD_smove
  <1>6. command = Invalid /\ command.valid = FALSE /\ owed = <<>>
    BY DEF Init, PortInit, Invalid
  <1>7. 0 < SizeMod /\ 0 < BttMod
    BY <1>1 DEF Widths
  <1>8. Core
    BY <1>3, <1>4, <1>5, <1>6, <1>7 DEF Core
  <1>9. StatusInv
    <2>1. sts = Invalid /\ moverQ = <<>> /\ result = 0
      BY DEF Init
    <2>2. moverQ \in Seq(Tag)
      BY <2>1
    <2>3. BitOr(0, 0) = 0
      BY BitFacts
    <2> QED BY <1>4, <2>1, <2>2, <2>3 DEF StatusInv
  <1> QED BY <1>2, <1>8, <1>9 DEF ProgramInv

LEMMA ProgramSends == ASSUME Setting, ProgramInv, NEW p \in Packets, HostSends(p) PROVE ProgramInv'
  <1>1. /\ beats = <<>> /\ (Len(p) > 1 => Idle) /\ beats' = p /\ offered' = FALSE
        /\ UNCHANGED <<portVars, lsu_tid, mover, ghosts>>
    BY DEF HostSends, MaySend
  <1>2. /\ UNCHANGED <<reg, awe_r, asel_r, alen_r, command, moverQ, sts, shadow, owed, result>>
    BY <1>1 DEF portVars, mover, ghosts
  <1>3. Core' /\ StatusInv'
    BY <1>2 DEF ProgramInv, Core, StatusInv
  <1>4. alen_r = 0
    BY <1>1 DEF ProgramInv, HostInv
  <1>5. p \in Seq(ControlBeat) /\ p # <<>> /\ Len(p) \in Nat \ {0}
    BY PacketFacts
  <1>6. Sending(p, 0)'
    <2>1. Len(beats') = Len(p) - 0 /\ \A k \in 1 .. Len(p) - 0 : beats'[k] = p[k + 0]
      BY <1>1, <1>5
    <2>2. Len(p) > 1 => Idle'
      BY <1>1, <1>2 DEF Idle
    <2>3. \A k \in 1 .. 0 : shadow'[p[1].sel + k - 1] = p[k].data
      BY SMTT(20)
    <2> QED BY <1>2, <1>4, <2>1, <2>2, <2>3 DEF Sending
  <1>7. HostInv'
    <2>1. 0 \in 0 .. Len(p) - 1
      BY <1>5
    <2> QED BY <1>1, <1>5, <1>6, <2>1 DEF HostInv
  <1> QED BY <1>3, <1>7 DEF ProgramInv

LEMMA ProgramEdge ==
    ASSUME Setting, ProgramInv, NEW gap \in BOOLEAN, NEW tready \in BOOLEAN, NEW accept \in BOOLEAN,
           NEW finish \in BOOLEAN, NEW f \in Flags, Edge(gap, tready, accept, finish, f)
    PROVE  ProgramInv'
  <1> DEFINE cr == Room(accept)
             st == sts.valid /\ s_axis_sts_tready(sts, tready)
  <1>1. cr \in BOOLEAN
    BY DEF Room
  <1>2. EdgeParts(gap, tready, cr)
    BY EdgeFacts
  <1>3. HostInv /\ Core /\ StatusInv
    BY DEF ProgramInv
  <1>4. st \in BOOLEAN /\ MoverEdge(Issues(command, reg) /\ cr, st, finish, f)
    BY DEF Edge, Room
  <1> HIDE DEF cr, st
  <1>5. sts' \in {Invalid} \cup Status /\ moverQ' \in Seq(Tag)
    BY <1>3, <1>4, MoverTyped
  <1>6. HostInv'
    BY <1>1, <1>2, HostWaits, HostMoves
  <1>7. Core' /\ reg'[0] \in 0 .. 3 /\ result' \in 0 .. 3 /\ BitOr(reg'[0], result') = reg'[0]
    <2>1. CASE ~(Taken(cr) /\ Bus.wr)
      BY <1>1, <1>2, <2>1, QuietCore
    <2>2. CASE Taken(cr) /\ Bus.wr
      <3>1. PICK p \in Packets : \E j \in 0 .. Len(p) - 1 : OnBus(p, j)
        BY <1>1, <1>3, <2>2, BeatTaken, BusFacts
      <3>2. PICK j \in 0 .. Len(p) - 1 : OnBus(p, j)
        BY <3>1
      <3>3. p[1].wr
        <4> DEFINE w == p[j+1].data
        <4>1. Bus = Beat(p[1].go, p[1].wr, p[1].sel, p[1].len, p[1].tid, w, j + 1 = Len(p))
          BY <3>2 DEF OnBus
        <4> HIDE DEF w
        <4>2. Bus.wr = p[1].wr
          BY <4>1 DEF Beat
        <4> QED BY <2>2, <4>2
      <3> QED BY <1>1, <1>2, <2>2, <3>2, <3>3, WriteCore
    <2> QED BY <2>1, <2>2
  <1> QED BY <1>5, <1>6, <1>7 DEF ProgramInv, StatusInv

LEMMA ProgramStep == ASSUME Setting, ProgramInv, [Next]_vars PROVE ProgramInv'
  <1>1. CASE \E p \in Packets : HostSends(p)
    BY <1>1, ProgramSends
  <1>2. CASE \E gap, tready, accept, finish \in BOOLEAN, f \in Flags :
                Edge(gap, tready, accept, finish, f)
    BY <1>2, ProgramEdge
  <1>3. CASE UNCHANGED vars
    <2>1. UNCHANGED <<reg, awe_r, asel_r, alen_r, command, moverQ, sts, shadow, owed, result, beats, offered>>
      BY <1>3 DEF vars, portVars, mover, ghosts, host
    <2> QED BY <2>1 DEF ProgramInv, HostInv, Sending, Idle, Core, StatusInv
  <1> QED BY <1>1, <1>2, <1>3 DEF Next

\* The DataMover is always given the first command the software still expects.
LEMMA ProgramEmits == ASSUME Setting, ProgramInv PROVE EmitsAsProgrammed
  <1>1. Core /\ Widths
    BY DEF ProgramInv, Setting
  <1>2. CASE ~command.valid
    BY <1>1, <1>2 DEF Core, EmitsAsProgrammed, Issues
  <1>3. CASE command.valid
    <2>1. command \in Command /\ reg \in [Registers -> Nat] /\ owed = Program(command.tid, reg)
      BY <1>1, <1>3 DEF Core, Invalid
    <2>2. command.tid \in Tids
      BY <2>1 DEF Command
    <2>3. cmd(reg) = CMD_smove => rep(reg) # 0
      BY <1>1, <1>3 DEF Core
    <2>4. owed # <<>> <=> cmd(reg) \in {CMD_move, CMD_smove, CMD_index, CMD_index2}
      BY <1>1, <2>1, <2>2, <2>3, ProgramShape
    <2>5. Issues(command, reg) <=> owed # <<>>
      BY <1>3, <2>4 DEF Issues
    <2>6. ASSUME Issues(command, reg) PROVE m_axis_cmd(command, reg) = Head(owed)
      <3>1. {0, 1, 2, 3, 4, 5} \subseteq Registers
        BY <1>1, SixRegisters
      <3>2. /\ \A i \in Registers \ {0} : shadow[i] = Settled(reg)[i]
            /\ shadow[3] < SizeMod /\ shadow[3] < BttMod /\ shadow[5] < BttMod
        BY <1>1, <1>3 DEF Core
      <3>3. Settled(reg)[3] = reg[3] /\ (cmd(reg) # CMD_smove => Settled(reg)[5] = reg[5])
        BY <2>1, <3>1, SMTT(20) DEF Settled
      <3>4. reg[3] < SizeMod /\ reg[3] < BttMod /\ (cmd(reg) # CMD_smove => reg[5] < BttMod)
        BY <3>1, <3>2, <3>3
      <3>5. cmd(reg) \in {CMD_move, CMD_smove, CMD_index, CMD_index2}
        BY <2>6 DEF Issues
      <3>6. cmd(reg) = CMD_index2 => reg[5] < BttMod
        BY <3>4 DEF CMD_index2, CMD_smove
      <3> QED BY <1>1, <2>1, <2>3, <3>4, <3>5, <3>6, IssuesFirst
    <2> QED BY <2>5, <2>6 DEF EmitsAsProgrammed
  <1> QED BY <1>2, <1>3

LEMMA ProgramRegisters == ASSUME ProgramInv PROVE RegistersAsProgrammed
  <1>1. Core /\ StatusInv
    BY DEF ProgramInv
  <1>2. ~command.valid => \A i \in Registers \ {0} : reg[i] = shadow[i]
    BY <1>1 DEF Core
  <1> QED BY <1>1, <1>2 DEF RegistersAsProgrammed, StatusInv

\* The unit issues, in order, exactly the commands its packets call for
\* (axi_lsu_cmd.vhd), for every careful set of packets and every field width.
THEOREM Emits == ASSUME Setting PROVE Spec => []EmitsAsProgrammed
  <1>1. Init => ProgramInv
    BY ProgramInit
  <1>2. ProgramInv /\ [Next]_vars => ProgramInv'
    BY ProgramStep
  <1>3. ProgramInv => EmitsAsProgrammed
    BY ProgramEmits
  <1> QED BY <1>1, <1>2, <1>3, PTL DEF Spec

\* Once the unit is done the registers are those the software believes in, and no
\* flag reported since the last clear of the status register is lost.
THEOREM Programmed == ASSUME Setting PROVE Spec => []RegistersAsProgrammed
  <1>1. Init => ProgramInv
    BY ProgramInit
  <1>2. ProgramInv /\ [Next]_vars => ProgramInv'
    BY ProgramStep
  <1>3. ProgramInv => RegistersAsProgrammed
    BY ProgramRegisters
  <1> QED BY <1>1, <1>2, <1>3, PTL DEF Spec
=============================================================================
