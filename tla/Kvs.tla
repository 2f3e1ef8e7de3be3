--------------------------------- MODULE Kvs ---------------------------------
(***************************************************************************)
(* The key-value lookup accelerator of kvs.h as a pipeline: LSU1 streams   *)
(* keys into the split unit (spsel.h), one copy goes through the key queue *)
(* to the probe unit (indel.h), the other through the hash unit, whose     *)
(* control packet makes LSU2 fetch the slots to probe.  The hash unit and  *)
(* the load-store units appear as the in-order stages that HashUnit,       *)
(* LsuUnit and ScDma show them to be.  Threads interleave freely.          *)
(***************************************************************************)
EXTENDS Integers, Sequences, SequencesExt

CONSTANTS Lookups,   \* the keys to look up, in order
          Table,     \* the slots in memory: [key, value, probes], from index 0
          Hash,      \* key |-> index of its first slot
          plen,      \* slots probed, minus 1 (register 1 of the probe unit)
          QueDepth,  \* u_que0
          HashDepth, CtlDepth  \* keys in the hash unit; packets on their way to LSU2

VARIABLES keys,            \* LSU1's stream, still to be sent
          slice1, slice2,  \* the two register slices of the split unit
          que0, hashing, ctl, \* key queue, hash unit, packets for LSU2
          probes,          \* LSU2's stream: two flits for each slot
          idu,             \* ct_indel_in: [pc, key, i, slot, found]
          values           \* what reaches LSU2 for writing

vars == <<keys, slice1, slice2, que0, hashing, ctl, probes, idu, values>>

SliceDepth == 2

Init ==
    /\ keys = Lookups
    /\ slice1 = <<>> /\ slice2 = <<>> /\ que0 = <<>> /\ hashing = <<>> /\ ctl = <<>>
    /\ probes = <<>> /\ values = <<>>
    /\ idu = [pc |-> "key", key |-> 0, i |-> 0, slot |-> 0, found |-> FALSE]

\* mutant: each slice takes the key when it has room, the source moves on
mc_dat_Either ==
    /\ keys # <<>> /\ (Len(slice1) < SliceDepth \/ Len(slice2) < SliceDepth)
    /\ slice1' = IF Len(slice1) < SliceDepth THEN Append(slice1, Head(keys)) ELSE slice1
    /\ slice2' = IF Len(slice2) < SliceDepth THEN Append(slice2, Head(keys)) ELSE slice2
    /\ keys' = Tail(keys)
    /\ UNCHANGED <<que0, hashing, ctl, probes, idu, values>>

\* mc_dat of spsel: a key is accepted when both slices take it
mc_dat ==
    /\ keys # <<>> /\ Len(slice1) < SliceDepth /\ Len(slice2) < SliceDepth
    /\ slice1' = Append(slice1, Head(keys)) /\ slice2' = Append(slice2, Head(keys))
    /\ keys' = Tail(keys)
    /\ UNCHANGED <<que0, hashing, ctl, probes, idu, values>>

\* ssu0_d1: to the key queue.  ssu0_d2: to the hash unit.
ssu0_d1 ==
    /\ slice1 # <<>> /\ Len(que0) < QueDepth
    /\ que0' = Append(que0, Head(slice1)) /\ slice1' = Tail(slice1)
    /\ UNCHANGED <<keys, slice2, hashing, ctl, probes, idu, values>>
ssu0_d2 ==
    /\ slice2 # <<>> /\ Len(hashing) < HashDepth
    /\ hashing' = Append(hashing, Head(slice2)) /\ slice2' = Tail(slice2)
    /\ UNCHANGED <<keys, slice1, que0, ctl, probes, idu, values>>

\* hsu0_c: the index leaves as a packet that sets LSU2's index register and go
hsu0_c ==
    /\ hashing # <<>> /\ Len(ctl) < CtlDepth
    /\ ctl' = Append(ctl, Hash[Head(hashing)]) /\ hashing' = Tail(hashing)
    /\ UNCHANGED <<keys, slice1, slice2, que0, probes, idu, values>>

\* lsu2_d: LSU_index2 at that index, plen + 1 slots as pairs of flits
lsu2_d ==
    /\ ctl # <<>> /\ probes = <<>>
    /\ probes' = FlattenSeq([i \in 1 .. plen + 1 |->
                    LET s == Table[Head(ctl) + i - 1] IN <<<<s.key>>, <<s.value, s.probes>>>>])
    /\ ctl' = Tail(ctl)
    /\ UNCHANGED <<keys, slice1, slice2, que0, hashing, idu, values>>

\* que0_d: ct_indel_in takes the next key
que0_d ==
    /\ idu.pc = "key" /\ que0 # <<>>
    /\ idu' = [pc |-> "slot", key |-> Head(que0), i |-> 0, slot |-> 0, found |-> FALSE]
    /\ que0' = Tail(que0)
    /\ UNCHANGED <<keys, slice1, slice2, hashing, ctl, probes, values>>

\* mutant: an empty slot matches as well
Match_Empty(v) == ~idu.found /\ idu.slot = idu.key

\* The first used slot with the key
Match(v) == ~idu.found /\ v[2] # 0 /\ idu.slot = idu.key

\* One flit from LSU2: a slot's key, or its value and probe count
lsu2_to_idu ==
    /\ idu.pc \in {"slot", "value"} /\ probes # <<>>
    /\ probes' = Tail(probes)
    /\ LET v == Head(probes)
           hit == idu.pc = "value" /\ Match(v)
           last == idu.i = plen
       IN  /\ idu' = IF idu.pc = "slot" THEN [idu EXCEPT !.pc = "value", !.slot = v[1]]
                     ELSE [idu EXCEPT !.found = @ \/ hit, !.i = @ + 1,
                                      !.pc = IF ~last THEN "slot"
                                             ELSE IF idu.found \/ hit THEN "key" ELSE "null"]
           /\ values' = IF hit THEN Append(values, v[1]) ELSE values
    /\ UNCHANGED <<keys, slice1, slice2, que0, hashing, ctl>>

\* No slot matched: send null
idu_null ==
    /\ idu.pc = "null"
    /\ idu' = [idu EXCEPT !.pc = "key"] /\ values' = Append(values, 0)
    /\ UNCHANGED <<keys, slice1, slice2, que0, hashing, ctl, probes>>

Next == mc_dat \/ ssu0_d1 \/ ssu0_d2 \/ hsu0_c \/ lsu2_d \/ que0_d \/ lsu2_to_idu \/ idu_null
Spec == Init /\ [][Next]_vars /\ WF_vars(Next)
-----------------------------------------------------------------------------
\* What a lookup of k must answer
Answer(k) ==
    LET hits == {i \in Hash[k] .. Hash[k] + plen : Table[i].key = k /\ Table[i].probes # 0}
    IN  IF hits = {} THEN 0 ELSE Table[CHOOSE i \in hits : \A j \in hits : i <= j].value

\* The values written are the answers for the keys, one for each, in order:
\* the probe unit compares every key with the slots of its own hash, although
\* keys and slots reach it over two paths of different length.
LookupsExact == IsPrefix(values, [n \in DOMAIN Lookups |-> Answer(Lookups[n])])

=============================================================================
