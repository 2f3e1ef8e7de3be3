----------------------------- MODULE TraceParse -----------------------------
(***************************************************************************)
(* The trace parser (trace/parser.c): entries of a captured trace, as bits,*)
(* to rows of text.  The performance monitor that packed the entries is    *)
(* external.  A row keeps its kind, its fields and its time.               *)
(***************************************************************************)
EXTENDS Naturals, SequencesExt

CONSTANTS TIMESTAMP, LOOP, SW_PACKET,  \* field widths, config.h
          SlotParams,                  \* slot_param: one record of widths a slot
          EntryBits,                   \* TCD_ENTRY_BITS
          Traces                       \* what the monitor recorded

VARIABLES recorded, file, time, rows, done

vars == <<recorded, file, time, rows, done>>

LOGID == 1

(* Bit i of a number, and the number that bits at, ..., at + len - 1 hold *)
Bits(num, len) == [i \in 1..len |-> (num \div 2^(i - 1)) % 2]
Upto(f, n) == FoldLeft(+, 0, SubSeq(f, 1, n))
next_uint(entry, at, len) == Upto([i \in 1..len |-> entry[at + i] * 2^(i - 1)], len)

(* The bit fields of a slot, in order *)
Widths(spar) == <<spar.EXT_EVENT, spar.FLAGS, spar.AxLEN, spar.AxLEN,
                  spar.xxID, spar.xxID, spar.xxID, spar.xxID, spar.AxADDR, spar.AxADDR>>

Field(entry, at, spar, k) == next_uint(entry, at + Upto(Widths(spar), k - 1), Widths(spar)[k])

Flag(flags, b) == (flags \div 2^b) % 2 = 1
Row(slot, kind, fields, t) == [slot |-> slot, kind |-> kind, fields |-> fields, time |-> t]

(* First, middle, last or only beat; anything else is inconsistent *)
BeatType(first, mid, last, type) ==
    CASE first /\ ~mid /\ last -> type[1]
      [] first /\ ~mid /\ ~last -> type[2]
      [] ~first /\ mid /\ ~last -> type[3]
      [] ~first /\ ~mid /\ last -> type[4]
      [] ~first /\ ~mid /\ ~last -> "none"
      [] OTHER -> "error"

(* The rows of one slot; inconsistent data flags end the slot *)
parse_slot(entry, at, slot, spar, t) ==
    LET F(k)  == Field(entry, at, spar, k)
        flags == F(2)
        W     == BeatType(Flag(flags, 1), Flag(flags, 7), Flag(flags, 2), <<"DW", "FW", "MW", "LW">>)
        R     == BeatType(Flag(flags, 5), Flag(flags, 8), Flag(flags, 6), <<"DR", "FR", "MR", "LR">>)
        bytes(n) == ((n + 1) * spar.xDATA) \div 8
        If(c, r) == IF c THEN <<r>> ELSE <<>>
    IN If(Flag(flags, 0), Row(slot, "W", <<F(10), bytes(F(4)), F(8)>>, t))
       \o If(W \notin {"none", "error"}, Row(slot, W, <<>>, t))
       \o IF W = "error" THEN <<>>
          ELSE If(Flag(flags, 3), Row(slot, "B", <<F(7)>>, t))
               \o If(Flag(flags, 4), Row(slot, "R", <<F(9), bytes(F(3)), F(6)>>, t))
               \o If(R \notin {"none", "error"}, Row(slot, R, <<F(5)>>, t))

SlotAt(i) == LOGID + TIMESTAMP + LOOP
             + Upto([j \in 1..Len(SlotParams) |-> Upto(Widths(SlotParams[j]), 10)], i - 1)

\* mutant: every slot is read from the place of the first
parse_entry_Late(entry, t) ==
    IF next_uint(entry, 0, LOGID) = 1
    THEN <<Row(Len(SlotParams), "S", <<next_uint(entry, LOGID + TIMESTAMP + LOOP, SW_PACKET)>>, t)>>
    ELSE FlattenSeq([i \in 1..Len(SlotParams) |-> parse_slot(entry, SlotAt(1), i - 1, SlotParams[i], t)])

(* A software event, or the events of the slots; time is the running sum *)
parse_entry(entry, t) ==
    IF next_uint(entry, 0, LOGID) = 1
    THEN <<Row(Len(SlotParams), "S", <<next_uint(entry, LOGID + TIMESTAMP + LOOP, SW_PACKET)>>, t)>>
    ELSE FlattenSeq([i \in 1..Len(SlotParams) |-> parse_slot(entry, SlotAt(i), i - 1, SlotParams[i], t)])

-----------------------------------------------------------------------------
(* The monitor, external: a recorded entry as bits, padded with zeros *)
Pack(e) ==
    LET slots == [i \in 1..Len(SlotParams) |->
                     FlattenSeq([k \in 1..10 |-> Bits(e.slots[i][k], Widths(SlotParams[i])[k])])]
        body  == IF e.sw THEN Bits(e.value, SW_PACKET) ELSE FlattenSeq(slots)
        bits  == Bits(IF e.sw THEN 1 ELSE 0, LOGID) \o Bits(e.dt, TIMESTAMP) \o Bits(0, LOOP) \o body
    IN bits \o [i \in 1..EntryBits - Len(bits) |-> 0]

Zero == [i \in 1..EntryBits |-> 0]

(* A capture ends with an entry of zeros, or is cut at the end of the file *)
Init ==
    /\ recorded \in Traces
    /\ \E cut \in BOOLEAN :
           file = [i \in 1..Len(recorded) |-> Pack(recorded[i])] \o IF cut THEN <<>> ELSE <<Zero>>
    /\ time = 0 /\ rows = <<>> /\ done = FALSE

(* read_entry: the end of the file or an entry of zeros ends the trace *)
read_entry_ends == IF file = <<>> THEN TRUE ELSE file[1] = Zero

Stop ==
    /\ ~done /\ read_entry_ends
    /\ done' = TRUE
    /\ UNCHANGED <<recorded, file, time, rows>>

Step ==
    /\ ~done /\ ~read_entry_ends
    /\ time' = time + next_uint(file[1], LOGID, TIMESTAMP)
    /\ rows' = rows \o parse_entry(file[1], time')
    /\ file' = Tail(file)
    /\ UNCHANGED <<recorded, done>>

Next == Stop \/ Step

Spec == Init /\ [][Next]_vars

-----------------------------------------------------------------------------
(* The rows a recorded slot stands for, by its flags *)
Expected(e, i, t) ==
    LET s == e.slots[i]
        spar == SlotParams[i]
        on(b) == Flag(s[2], b)
        all == << [r |-> Row(i - 1, "W", <<s[10], ((s[4] + 1) * spar.xDATA) \div 8, s[8]>>, t), c |-> on(0)],
                  [r |-> Row(i - 1, "DW", <<>>, t), c |-> on(1) /\ on(2)],
                  [r |-> Row(i - 1, "FW", <<>>, t), c |-> on(1) /\ ~on(2)],
                  [r |-> Row(i - 1, "MW", <<>>, t), c |-> on(7)],
                  [r |-> Row(i - 1, "LW", <<>>, t), c |-> on(2) /\ ~on(1)],
                  [r |-> Row(i - 1, "B", <<s[7]>>, t), c |-> on(3)],
                  [r |-> Row(i - 1, "R", <<s[9], ((s[3] + 1) * spar.xDATA) \div 8, s[6]>>, t), c |-> on(4)],
                  [r |-> Row(i - 1, "DR", <<s[5]>>, t), c |-> on(5) /\ on(6)],
                  [r |-> Row(i - 1, "FR", <<s[5]>>, t), c |-> on(5) /\ ~on(6)],
                  [r |-> Row(i - 1, "MR", <<s[5]>>, t), c |-> on(8)],
                  [r |-> Row(i - 1, "LR", <<s[5]>>, t), c |-> on(6) /\ ~on(5)] >>
    IN LET kept == SelectSeq(all, LAMBDA x : x.c) IN [j \in 1..Len(kept) |-> kept[j].r]

(* A parsed trace has exactly the rows of what was recorded, in order, each*)
(* with the fields of its own slot and channel and with the time summed    *)
(* over all entries before it (parse_entry, parse_slot, next_uint).        *)
RowsExact ==
    done => rows = FlattenSeq([n \in 1..Len(recorded) |->
        LET t == Upto([m \in 1..Len(recorded) |-> recorded[m].dt], n)
        IN IF recorded[n].sw THEN <<Row(Len(SlotParams), "S", <<recorded[n].value>>, t)>>
           ELSE FlattenSeq([i \in 1..Len(SlotParams) |-> Expected(recorded[n], i, t)])])
=============================================================================
