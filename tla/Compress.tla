------------------------------ MODULE Compress ------------------------------
(***************************************************************************)
(* The trace compressor of the Ethernet trace path (ip/hls/compress).  It  *)
(* turns one 320-bit event of the AXI performance monitor, which covers    *)
(* the write and the read side of two slots, into up to four 128-bit       *)
(* events.  convert_inputs and write_out are two processes of an HLS       *)
(* dataflow region, joined by the stream pack_buffer.                      *)
(*                                                                         *)
(* An input event is [logID, timestamp, valid]: logID marks a software     *)
(* packet, timestamp is the time since the event before, and valid is the  *)
(* set of lanes 0..3 (slot 0 write, slot 0 read, slot 1 write, slot 1      *)
(* read) that have a flag set.  Addresses, lengths and identifiers are     *)
(* copied lane by lane and are left out.                                   *)
(***************************************************************************)
EXTENDS Integers, SequencesExt, FiniteSetsExt

CONSTANTS
    Deltas,       \* timestamps of input events
    Valids,       \* sets of lanes an input event may carry
    TIME,         \* 2^30: the range of time_acc
    DEPTH,        \* 1024: the depth of pack_buffer
    OUT,          \* room in the output stream
    Events        \* bound: how many input events arrive

Lanes == 0 .. 3

CompressAssumption ==
    /\ Deltas \subseteq 0 .. TIME - 1
    /\ Valids \subseteq SUBSET Lanes
    /\ TIME \in Nat \ {0} /\ DEPTH \in Nat \ {0} /\ OUT \in Nat \ {0}
    /\ Events \in Nat

VARIABLES
    in,             \* events waiting on the input stream
    time_acc,       \* convert_inputs: sum of the timestamps
    pack_buffer,    \* packs of four lanes with their valid bits
    current_state,  \* write_out: S_IDLE = 0 .. S_FOUR_LEFT = 4
    current_input,  \* write_out: the pack being written
    out,            \* events waiting on the output stream
    fed,            \* history: every input event
    got             \* history: every output event

vars == <<in, time_acc, pack_buffer, current_state, current_input, out,
          fed, got>>

Event == [logID : BOOLEAN, timestamp : Deltas, valid : Valids]

OutEvent == [logID : BOOLEAN, lane : Lanes, timestamp : 0 .. TIME - 1]

NoPack ==
    [valid |-> {},
     data |-> [l \in Lanes |->
                 [logID |-> FALSE, lane |-> 0, timestamp |-> 0]]]

Init ==
    /\ in = <<>> /\ pack_buffer = <<>> /\ out = <<>>
    /\ time_acc = 0
    /\ current_state = 0 /\ current_input = NoPack
    /\ fed = <<>> /\ got = <<>>

(* A software packet's low 64 bits, its timestamp among them, are lane 0.  *)
SoftwarePack(e) ==
    [valid |-> {0},
     data |-> [l \in Lanes |->
                 [logID |-> TRUE, lane |-> 0, timestamp |-> e.timestamp]]]

(* The first valid lane carries the time; the others carry 0.              *)
stamp_Every(e, l, t) == t

stamp(e, l, t) ==
    IF e.valid # {} /\ l = Min(e.valid) THEN t ELSE 0

DataPack(e, t) ==
    [valid |-> e.valid,
     data |-> [l \in Lanes |->
                 [logID |-> FALSE, lane |-> l, timestamp |-> stamp(e, l, t)]]]

accumulate(d) == (time_acc + d) % TIME

convert_inputs ==
    /\ in # <<>> /\ Len(pack_buffer) < DEPTH
    /\ in' = Tail(in)
    /\ LET e == Head(in)
           t == accumulate(e.timestamp)
       IN IF e.logID
          THEN /\ pack_buffer' = Append(pack_buffer, SoftwarePack(e))
               /\ UNCHANGED time_acc
          ELSE /\ pack_buffer' = Append(pack_buffer, DataPack(e, t))
               /\ time_acc' = t
    /\ UNCHANGED <<current_state, current_input, out, fed, got>>

(* in.read in write_out: the next pack, and the number of lanes it holds.  *)
NextPack ==
    /\ pack_buffer # <<>>
    /\ current_input' = Head(pack_buffer)
    /\ current_state' = Cardinality(current_input'.valid)
    /\ pack_buffer' = Tail(pack_buffer)

write_out_idle ==
    /\ current_state = 0
    /\ NextPack
    /\ UNCHANGED <<in, time_acc, out, fed, got>>

(* The if chain over valid0..valid3; its last branch has no condition.     *)
Chosen == IF current_input.valid \cap 0 .. 2 # {}
          THEN Min(current_input.valid \cap 0 .. 2)
          ELSE 3

Emit ==
    /\ Len(out) < OUT
    /\ out' = Append(out, current_input.data[Chosen])
    /\ got' = Append(got, current_input.data[Chosen])

(* S_ONE_LEFT does not clear the valid bit it writes: the next pack, read  *)
(* in the same call when there is one, replaces them all.                  *)
write_out_last ==
    /\ current_state = 1
    /\ Emit
    /\ \/ NextPack
       \/ /\ pack_buffer = <<>>
          /\ current_state' = 0
          /\ UNCHANGED <<current_input, pack_buffer>>
    /\ UNCHANGED <<in, time_acc, fed>>

write_out_more ==
    /\ current_state \in 2 .. 4
    /\ Emit
    /\ current_input' = [current_input EXCEPT !.valid = @ \ {Chosen}]
    /\ current_state' = current_state - 1
    /\ UNCHANGED <<in, time_acc, pack_buffer, fed>>

write_out == write_out_idle \/ write_out_last \/ write_out_more

(* The performance monitor delivers an event; the Ethernet side takes one. *)
(* A software packet's lanes are never looked at.                          *)
Arrive ==
    /\ Len(fed) < Events
    /\ \E e \in Event :
          /\ e.logID => e.valid = {}
          /\ in' = Append(in, e)
          /\ fed' = Append(fed, e)
    /\ UNCHANGED <<time_acc, pack_buffer, current_state, current_input, out,
                   got>>

Consume ==
    /\ out # <<>>
    /\ out' = Tail(out)
    /\ UNCHANGED <<in, time_acc, pack_buffer, current_state, current_input,
                   fed, got>>

Next == Arrive \/ convert_inputs \/ write_out \/ Consume

Spec == Init /\ [][Next]_vars

(* Both processes are clocked for ever and the output is taken.            *)
Fairness == WF_vars(convert_inputs) /\ WF_vars(write_out) /\ WF_vars(Consume)

FairSpec == Spec /\ Fairness

-----------------------------------------------------------------------------
(* Types of the compressor's state.                                        *)
TypeOK ==
    /\ in \in Seq(Event) /\ fed \in Seq(Event)
    /\ out \in Seq(OutEvent) /\ got \in Seq(OutEvent)
    /\ time_acc \in 0 .. TIME - 1
    /\ Len(pack_buffer) <= DEPTH /\ Len(out) <= OUT
    /\ current_state \in 0 .. 4

(* The enumeration counts what the valid bits say: write_out may take the  *)
(* last branch of its chain only when lane 3 is what is left.              *)
LeftIsValid ==
    current_state > 0 => current_state = Cardinality(current_input.valid)

(* The regular events among the first k of s, and the time over a set of   *)
(* events.                                                                 *)
Regular(s, k) == {i \in 1 .. k : ~s[i].logID}

TimeOver(s, I) == MapThenSumSet(LAMBDA i : s[i].timestamp, I) % TIME

(* The reference: event after event, lane after lane, the first lane of an *)
(* event with the time and a software packet with its own timestamp.       *)
EventOut(e, t) ==
    IF e.logID
    THEN <<[logID |-> TRUE, lane |-> 0, timestamp |-> e.timestamp]>>
    ELSE LET lanes == SetToSortSeq(e.valid, <)
         IN [i \in 1 .. Len(lanes) |->
               [logID |-> FALSE, lane |-> lanes[i],
                timestamp |-> IF i = 1 THEN t ELSE 0]]

Reference(s) ==
    FlattenSeq([k \in 1 .. Len(s) |->
                  EventOut(s[k], TimeOver(s, Regular(s, k)))])

(* Nothing is lost, repeated or reordered between convert_inputs and       *)
(* write_out, whatever the two processes' relative speed: the output is    *)
(* always a prefix of the reference, and all of it once both are idle.     *)
(* The reference's time is the one compress.cpp accumulates; the test      *)
(* bench expects another one (TimeAsTested).                               *)
OutputsAsFed ==
    /\ IsPrefix(got, Reference(fed))
    /\ in = <<>> /\ pack_buffer = <<>> /\ current_state = 0
          => got = Reference(fed)

(* Every accepted event has left (reached again and again).                *)
Drained == in = <<>> /\ pack_buffer = <<>> /\ current_state = 0

(* What compress_tb.cpp expects of the first output of regular event k.    *)
(* Its events with one lane come first: the sum of the timestamps          *)
(* of all events so far, software packets included (lines 46-48).  Then    *)
(* come events with several lanes: the timestamp of the event alone        *)
(* (lines 268-270).                                                        *)
Several(e) == Cardinality(e.valid) > 1

TimeAsTested ==
    \A k \in DOMAIN fed :
        LET before == Len(Reference(SubSeq(fed, 1, k - 1)))
            tested == IF Several(fed[k]) THEN fed[k].timestamp
                      ELSE TimeOver(fed, 1 .. k)
        IN /\ ~fed[k].logID /\ fed[k].valid # {} /\ Len(got) > before
           /\ \A i \in 1 .. k - 1 : Several(fed[i]) => Several(fed[k])
           => got[before + 1].timestamp = tested
=============================================================================
