------------------------------ MODULE EthFifo -------------------------------
(***************************************************************************)
(* The Ethernet trace interface (ip/hls/eth_fifo_interface): it takes      *)
(* 128-bit trace entries, buffers them as bytes and sends them to the MAC  *)
(* in frames: a full one when PACKET_SIZE bytes wait, a short one when     *)
(* some do and the idle counter has run out.  One step is one call of      *)
(* eth_fifo_interface, that is one clock cycle; its inputs are tx_r_rd and *)
(* whether data_in holds an entry.                                         *)
(*                                                                         *)
(* A byte on the wire is a pair of its kind and a value; byte n of the     *)
(* stream of entries is <<"data", n>>, so entry w holds bytes w * BYTES to *)
(* w * BYTES + BYTES - 1.                                                  *)
(***************************************************************************)
EXTENDS Integers, Sequences

CONSTANTS
    BYTES,        \* 16: bytes of an entry
    MAC,          \* 6: bytes of a MAC address (mac_count)
    PACKET_SIZE,  \* 1488: most trace bytes in a frame
    MINIMUM,      \* 48: fewest, padding included
    DEPTH,        \* 16384: bytes data_buffer holds
    COUNT,        \* 2^14: the range of buffer_count
    idle_count,   \* 16000: cycles without a new byte before a short frame
    IDS,          \* 2^8: the range of ID_num
    Words         \* bound: entries that arrive

EthAssumption ==
    /\ {BYTES, MAC, PACKET_SIZE, MINIMUM, DEPTH, COUNT, idle_count, IDS}
          \subseteq Nat \ {0}
    /\ PACKET_SIZE % BYTES = 0 /\ MINIMUM % BYTES = 0
    /\ PACKET_SIZE <= DEPTH /\ Words \in Nat

VARIABLES
    current_state, count, length, ID_num,           \* the state machine
    data_buffer, buffer_count, buffer_added, buffer_data,
    data_word, data_word_valid, word_byte,          \* the entry being split
    data_ready, tx_valid, sop, eop, tx_data,        \* registered outputs
    busy,          \* MAC: between the first and the last read of a frame
    rx,            \* MAC: bytes of the frame received so far
    seen,          \* receiver: trace bytes in earlier frames
    nextID,        \* receiver: the ID the next frame must carry
    arrived        \* entries taken from data_in

machine == <<current_state, count, length, ID_num>>
buffer  == <<data_buffer, buffer_count, buffer_added, buffer_data>>
word    == <<data_word, data_word_valid, word_byte, arrived>>
outputs == <<data_ready, tx_valid, sop, eop, tx_data>>
host    == <<busy, rx, seen, nextID>>
vars    == <<machine, buffer, word, outputs, host>>

Pad == <<"zero", 0>>

Init ==
    /\ current_state = "IDLE" /\ count = idle_count /\ length = 0
    /\ ID_num = 0
    /\ data_buffer = <<>> /\ buffer_count = 0 /\ buffer_added = FALSE
    /\ buffer_data = Pad
    /\ data_word = 0 /\ data_word_valid = FALSE /\ word_byte = 0
    /\ data_ready = FALSE /\ tx_valid = FALSE /\ sop = FALSE /\ eop = FALSE
    /\ tx_data = Pad
    /\ busy = FALSE /\ rx = <<>> /\ seen = 0 /\ nextID = 0 /\ arrived = 0

buffer_empty == data_buffer = <<>>
buffer_full  == Len(data_buffer) = DEPTH

packet_buffered == buffer_count >= PACKET_SIZE

times_out_Count == count = 0 /\ buffer_count # 0

times_out == count = 0 /\ ~buffer_empty

(* temp_buffer_count drops the low bits: whole entries only.               *)
short_length_Ragged ==
    IF buffer_count < MINIMUM THEN MINIMUM + 1 ELSE buffer_count + 1

short_length ==
    LET temp_buffer_count == (buffer_count \div BYTES) * BYTES
    IN IF temp_buffer_count < MINIMUM THEN MINIMUM + 1
       ELSE temp_buffer_count + 1

-----------------------------------------------------------------------------
(* The switch on current_state.  A field of n bytes counts down from n, one *)
(* byte for each read, and its last read goes on to the next field.        *)

Goto(s, n) == current_state' = s /\ count' = n

Field(rd, s, n) ==
    IF rd /\ count = 1 THEN Goto(s, n)
    ELSE /\ count' = IF rd THEN count - 1 ELSE count
         /\ UNCHANGED current_state

idle ==
    /\ current_state = "IDLE"
    /\ \/ /\ packet_buffered
          /\ length' = PACKET_SIZE + 1
          /\ Goto("MAC_DST", MAC)
       \/ /\ ~packet_buffered /\ times_out
          /\ length' = short_length
          /\ Goto("MAC_DST", MAC)
       \/ /\ ~packet_buffered /\ ~times_out
          /\ count' = IF buffer_added THEN idle_count
                      ELSE IF count # 0 THEN count - 1 ELSE 0
          /\ UNCHANGED <<length, current_state>>

header(rd) ==
    /\ \/ current_state = "MAC_DST" /\ Field(rd, "MAC_SRC", MAC)
       \/ current_state = "MAC_SRC" /\ Field(rd, "TYPE", 2)
       \/ current_state = "TYPE" /\ Field(rd, "PAYLOAD", length - 1)
    /\ UNCHANGED length

payload(rd) ==
    /\ \/ /\ current_state = "PAYLOAD"
          /\ IF rd /\ count # 1 /\ buffer_empty
             THEN Goto("ZEROS", count - 1)
             ELSE Field(rd, "ID", 1)
       \/ current_state = "ZEROS" /\ Field(rd, "ID", 1)
       \/ current_state = "ID" /\ Field(rd, "IDLE", idle_count)
    /\ UNCHANGED length

StateMachine(rd) ==
    /\ idle \/ header(rd) \/ payload(rd)
    /\ ID_num' = IF rd /\ current_state = "ID" THEN (ID_num + 1) % IDS
                 ELSE ID_num

(* The registered outputs, set by the same switch.                         *)
Outputs(rd) ==
    /\ tx_valid' = rd
    /\ sop' = (current_state = "MAC_DST" /\ count = MAC)
    /\ eop' = (current_state = "ID")
    /\ data_ready' = CASE current_state = "MAC_DST" -> TRUE
                        [] current_state = "MAC_SRC" -> FALSE
                        [] OTHER -> data_ready
    /\ tx_data' = CASE current_state = "MAC_DST" -> <<"dst", MAC - count>>
                     [] current_state = "MAC_SRC" -> <<"src", MAC - count>>
                     [] current_state = "TYPE" ->
                           <<IF count = 2 THEN "hi" ELSE "lo", length>>
                     [] current_state = "PAYLOAD" -> buffer_data
                     [] current_state = "ZEROS" -> Pad
                     [] current_state = "ID" -> <<"id", ID_num>>
                     [] OTHER -> tx_data

-----------------------------------------------------------------------------
(* data_buffer, its counter and the entry being split into bytes.          *)

(* The read of the second length byte fetches the first trace byte without *)
(* looking at buffer_empty; reads of trace bytes look.                     *)
buffer_removed(rd) ==
    /\ rd
    /\ \/ current_state = "TYPE" /\ count = 1
       \/ current_state = "PAYLOAD" /\ count # 1 /\ ~buffer_empty

adds == data_word_valid /\ ~buffer_full

Buffer(rd) ==
    LET left == IF buffer_removed(rd) THEN Tail(data_buffer) ELSE data_buffer
    IN /\ buffer_data' = IF buffer_removed(rd) THEN Head(data_buffer)
                         ELSE buffer_data
       /\ data_buffer' =
             IF adds
             THEN Append(left, <<"data", data_word * BYTES + word_byte>>)
             ELSE left
       /\ buffer_added' = adds

UpdateCount(rd) ==
    buffer_count' =
       IF adds /\ ~buffer_removed(rd) THEN (buffer_count + 1) % COUNT
       ELSE IF buffer_removed(rd) /\ ~adds THEN (buffer_count - 1) % COUNT
       ELSE buffer_count

(* A new entry is read in the call that adds the last byte of the one      *)
(* before it.  Entries are numbered as they arrive.                        *)
TakeWord(available) ==
    LET free == ~data_word_valid \/ (adds /\ word_byte = BYTES - 1)
    IN /\ data_word_valid' = (~free \/ available)
       /\ IF free /\ available
          THEN data_word' = arrived /\ word_byte' = 0 /\ arrived' = arrived + 1
          ELSE /\ UNCHANGED <<data_word, arrived>>
               /\ word_byte' = IF adds /\ word_byte # BYTES - 1
                               THEN word_byte + 1 ELSE word_byte

(* The frames as they should be: k entries, starting with the first one    *)
(* not yet sent, then zeros; the length counts the bytes that follow it.   *)
Frame(k, n) ==
    [i \in 1 .. MAC |-> <<"dst", i - 1>>]
    \o [i \in 1 .. MAC |-> <<"src", i - 1>>]
    \o <<<<"hi", n + 1>>, <<"lo", n + 1>>>>
    \o [i \in 1 .. n |->
          IF i <= k * BYTES THEN <<"data", seen + i - 1>> ELSE Pad]
    \o <<<<"id", nextID>>>>

(* The MAC (external).  It starts to read when data_ready is up, reads     *)
(* until the frame's last byte and sees each byte one cycle after it asked *)
(* for it.  The receiver counts the trace bytes of every whole frame.      *)
MayRead == data_ready \/ busy

Mac(rd) ==
    /\ rd => MayRead
    /\ busy' = IF rd THEN current_state # "ID" ELSE busy
    /\ rx' = IF ~tx_valid THEN rx
             ELSE IF eop THEN <<>> ELSE Append(rx, tx_data)
    /\ LET frame == Append(rx, tx_data)
           bytes == {i \in DOMAIN frame : frame[i][1] = "data"}
       IN IF tx_valid /\ eop
          THEN /\ seen' = 1 + (CHOOSE n \in {frame[i][2] : i \in bytes} :
                                  \A i \in bytes : frame[i][2] <= n)
               /\ nextID' = (nextID + 1) % IDS
          ELSE UNCHANGED <<seen, nextID>>

Call(rd, available) ==
    /\ available => arrived < Words
    /\ Mac(rd)
    /\ StateMachine(rd)
    /\ Outputs(rd)
    /\ Buffer(rd)
    /\ UpdateCount(rd)
    /\ TakeWord(available)

Next == \E rd, available \in BOOLEAN : Call(rd, available)

Spec == Init /\ [][Next]_vars

(* The clock runs, and a MAC that may read does not wait for ever.         *)
Fairness ==
    /\ WF_vars(Next)
    /\ WF_vars(\E available \in BOOLEAN : Call(TRUE, available))

FairSpec == Spec /\ Fairness

-----------------------------------------------------------------------------
(* Types, and the registers' ranges.                                       *)
TypeOK ==
    /\ current_state \in {"IDLE", "MAC_DST", "MAC_SRC", "TYPE", "PAYLOAD",
                          "ZEROS", "ID"}
    /\ count \in 0 .. COUNT - 1 /\ length \in 0 .. DEPTH + 1
    /\ ID_num \in 0 .. IDS - 1 /\ buffer_count \in 0 .. COUNT - 1
    /\ Len(data_buffer) <= DEPTH
    /\ word_byte \in 0 .. BYTES - 1 /\ data_word \in Nat
    /\ {buffer_added, data_word_valid, data_ready, tx_valid, sop, eop, busy}
          \subseteq BOOLEAN

(* buffer_count follows the stream it counts, modulo its 14 bits, through  *)
(* calls that add, remove, or do both (292-298).                           *)
CountFollows == buffer_count = Len(data_buffer) % COUNT

(* Every frame the MAC receives is well formed: sop on its first byte and  *)
(* only there, the two addresses, a length that counts the bytes that      *)
(* follow, whole trace entries in the order they arrived with none lost,   *)
(* repeated or cut by padding, zeros, and the next ID.                     *)
FramesWellFormed ==
    tx_valid =>
       /\ sop <=> rx = <<>>
       /\ eop => \E k \in 1 .. DEPTH \div BYTES :
                    \E n \in MINIMUM .. DEPTH :
                       n % BYTES = 0 /\ k * BYTES <= n
                       /\ Append(rx, tx_data) = Frame(k, n)

(* type reads the buffer without testing it for empty (168): a frame that  *)
(* was started still has its first byte when the header is out.            *)
FirstByteThere == current_state \in {"MAC_DST", "MAC_SRC", "TYPE"}
                     => data_buffer # <<>>

(* Every entry taken from data_in has been received (reached again and     *)
(* again: short frames flush what never fills one).                        *)
ReceivedAll == seen = arrived * BYTES
=============================================================================
