----------------------------- MODULE SdCapture -----------------------------
(***************************************************************************)
(* trace_capture of the standalone build (shared/standalone/monitor.c):    *)
(* the entries of the trace capture device to a file on the SD card, in    *)
(* blocks, or to the heap.  The device gives the entries of the trace and  *)
(* then entries of zeros; one that is broken never gives zeros.            *)
(***************************************************************************)
EXTENDS Naturals, SequencesExt

CONSTANTS BlockEntries,  \* BLK_SZ / TCD_ENTRY_SZ
          MemEntries,    \* TRACE_MEM_SZ, or the heap, in entries
          MaxTrace,      \* the longest trace considered
          Rooms,         \* entries the card has room for
          MaxFaults

VARIABLES sink, trace, endless, room, taken, pc, buffer, file, tot, faults, msg

vars == <<sink, trace, endless, room, taken, pc, buffer, file, tot, faults, msg>>

Zero == 0

(* The entry that read number i of the device returns *)
Entry(i) == IF i <= trace \/ endless THEN i ELSE Zero

(* The reads of the inner loop from read number i on: up to max entries,   *)
(* the last one the first of zeros                                         *)
Fill(i, max) ==
    LET n == IF endless \/ trace - i + 1 >= max THEN max ELSE trace - i + 2
    IN [j \in 1..n |-> Entry(i + j - 1)]

CardFull == sink = "sd" /\ Len(file) = room

Fault == faults < MaxFaults /\ faults' = faults + 1

-----------------------------------------------------------------------------
(* f_mount and f_open; either may fail *)
Open ==
    /\ pc = "open" /\ sink = "sd"
    /\ \/ pc' = "fill" /\ UNCHANGED <<faults, msg>>
       \/ pc' = "close" /\ Fault /\ msg' = "disk"
    /\ UNCHANGED <<sink, trace, endless, room, taken, buffer, file, tot>>

FillBuffer ==
    /\ pc = "fill"
    /\ buffer' = Fill(taken + 1, BlockEntries)
    /\ taken' = taken + Len(buffer')
    /\ pc' = "write"
    /\ UNCHANGED <<sink, trace, endless, room, file, tot, faults, msg>>

(* f_write, which on a full card writes what fits and says FR_OK (its count *)
(* is not looked at), then the limit, then the test of the last entry       *)
Write ==
    /\ pc = "write"
    /\ file' = file \o SubSeq(buffer, 1, Min({Len(buffer), room - Len(file)}))
    /\ tot' = tot + Len(buffer)
    /\ IF tot' >= MemEntries THEN pc' = "close" /\ msg' = "exceeded"
       ELSE pc' = (IF Last(buffer) = Zero THEN "close" ELSE "fill") /\ UNCHANGED msg
    /\ UNCHANGED <<sink, trace, endless, room, taken, buffer, faults>>

WriteFails ==
    /\ pc = "write" /\ Fault
    /\ pc' = "close" /\ msg' = "disk"
    /\ UNCHANGED <<sink, trace, endless, room, taken, buffer, file, tot>>

(* f_close and the unmount only report what fails *)
Close ==
    /\ pc = "close"
    /\ pc' = "done"
    /\ UNCHANGED <<sink, trace, endless, room, taken, buffer, file, tot, faults, msg>>

(* The variant without an SD card: one loop, into the heap *)
CaptureToHeap ==
    /\ pc = "open" /\ sink = "heap"
    /\ file' = Fill(1, MemEntries)
    /\ taken' = Len(file') /\ tot' = Len(file')
    /\ msg' = IF Last(file') = Zero THEN "ok" ELSE "exceeded"
    /\ pc' = "done"
    /\ UNCHANGED <<sink, trace, endless, room, buffer, faults>>

Init ==
    /\ sink \in {"sd", "heap"} /\ trace \in 0..MaxTrace /\ endless \in BOOLEAN /\ room \in Rooms
    /\ taken = 0 /\ pc = "open" /\ buffer = <<>> /\ file = <<>> /\ tot = 0 /\ faults = 0 /\ msg = "ok"

Next == Open \/ FillBuffer \/ Write \/ WriteFails \/ Close \/ CaptureToHeap

Spec == Init /\ [][Next]_vars

-----------------------------------------------------------------------------
(* What a finished capture left is the trace from its start without a gap, *)
(* also of a device that never signals its end, within the memory limit.   *)
(* Unless a message said otherwise the length printed is that of the whole *)
(* trace with its end mark, and the file is as long: a card that fills up  *)
(* cuts it short without a message (trace_capture).                        *)
CaptureExact ==
    pc = "done" =>
        /\ \A i \in 1..Len(file) : file[i] = Entry(i)
        /\ Len(file) < MemEntries + BlockEntries
        /\ msg = "ok" => ~endless /\ tot = trace + 1 /\ (Len(file) = tot \/ CardFull)
=============================================================================
