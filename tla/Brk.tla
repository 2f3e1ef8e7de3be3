-------------------------------- MODULE Brk --------------------------------
(***************************************************************************)
(* The two memory regions of the standalone build: the heap behind _sbrk   *)
(* (shared/standalone/sbrk.c; heap.c has the same function) and the        *)
(* scratchpad behind sp_alloc (shared/standalone/accmem.c, alloc.h).       *)
(***************************************************************************)
EXTENDS Integers, FiniteSetsExt

CONSTANTS HeapEnd, SpEnd,  \* the regions start at 0
          ALIGN_SZ, Sizes, MaxCalls

VARIABLES heap_ptr, top, blocks, calls

vars == <<heap_ptr, top, blocks, calls>>

CEIL(n, s) == ((n + s - 1) \div s) * s

Block(region, from, n) == [region |-> region, from |-> from, to |-> from + n]

(* What the program holds of the heap ends here *)
Held == Max({0} \cup {b.to : b \in {c \in blocks : c.region = "heap"}})

(* The blocks when the heap from end on is given back *)
Kept(end) == {IF b.region = "heap" /\ b.to > end THEN [b EXCEPT !.to = end] ELSE b :
                b \in {c \in blocks : c.region = "heap" => c.from < end}}

(* heap_ptr is moved before the check: a failed request moves it too.  A    *)
(* negative increment gives back the end of what the program holds.         *)
_sbrk(increment) ==
    /\ heap_ptr' = heap_ptr + increment
    /\ blocks' = IF heap_ptr' > HeapEnd THEN blocks
                 ELSE IF increment < 0 THEN Kept(Held + increment)
                 ELSE blocks \cup {Block("heap", heap_ptr, increment)}
    /\ UNCHANGED top

sp_alloc(nbytes) ==
    /\ IF top + nbytes > SpEnd THEN UNCHANGED <<top, blocks>>
       ELSE /\ top' = top + CEIL(nbytes, ALIGN_SZ)
            /\ blocks' = blocks \cup {Block("sp", top, nbytes)}
    /\ UNCHANGED heap_ptr

Init == heap_ptr = 0 /\ top = 0 /\ blocks = {} /\ calls = 0

Next ==
    /\ calls < MaxCalls /\ calls' = calls + 1
    /\ \E n \in Sizes : _sbrk(n) \/ (0 < n /\ n <= Held /\ _sbrk(-n)) \/ sp_alloc(n)

Spec == Init /\ [][Next]_vars

-----------------------------------------------------------------------------
End(region) == IF region = "heap" THEN HeapEnd ELSE SpEnd

(* Every block handed out lies in its region, apart from every other one,  *)
(* also after requests that failed and memory given back; and scratchpad   *)
(* blocks share no cache line, since lines are flushed block by block      *)
(* (_sbrk, sp_alloc).                                                      *)
BlocksApart ==
    \A b \in blocks :
        /\ b.to <= End(b.region)
        /\ b.region = "sp" => b.from % ALIGN_SZ = 0
        /\ \A c \in blocks : b # c /\ b.region = c.region => b.to <= c.from \/ c.to <= b.from
=============================================================================
