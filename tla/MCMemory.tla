------------------------------ MODULE MCMemory ------------------------------
(* Memory as programs see it: the heap that hands it out, and the channel that *)
(* delays each access to it.  The initial state chooses what runs (program).   *)
(* For the heap: "calls" makes the calls in any order on segments so small     *)
(* that they are added, emptied and unmapped all the time; "pages" asks for    *)
(* aligned blocks, up to whole pages, between small ones; "bins" has filled    *)
(* one large segment with blocks kept apart by smaller ones and then frees and *)
(* allocates blocks of the large sizes, so that tries of several levels are    *)
(* built and taken down in every order.  "delay" is the delay channel.         *)
EXTENDS Dlmalloc, ChanDelay

VARIABLE program
mcvars == <<program, vars, chanVars>>

Fill == <<63, 7, 71, 7, 79, 7, 79, 7, 87, 7>>
Filled(h, bytes) ==
  LET r == internal_malloc(h.m, bytes, TRUE, 1024)
  IN [m |-> r.m, live |-> (r.p :> request2size(bytes)) @@ h.live]

HeapInit ==
  \/ Init /\ program \in {"calls", "pages"}
  \/ LET full == FoldLeft(Filled, [m |-> Empty, live |-> <<>>], Fill)
     IN /\ mparams = [granularity |-> 1024, mmap_threshold |-> 1024]
        /\ m = full.m
        /\ live = full.live
        /\ blocks = {[base |-> 1024, size |-> 1024]}
        /\ program = "bins"
MCInit ==
  \/ HeapInit /\ ChanInit /\ delay = Min(Delays)
  \/ Init /\ ChanInit /\ program = "delay"

Large == {request2size(n) : n \in Range(Fill) \ {7}}
Again == {71}
HeapNext ==
  /\ UNCHANGED <<program, chanVars>>
  /\ \/ /\ program = "calls"
        /\ \/ Cardinality(DOMAIN live) < MaxLive /\ Allocate
           \/ GiveBack \/ Resize \/ Configure
     \/ /\ program = "pages"
        /\ \/ \E p \in DOMAIN live : dlfree(p)
           \/ /\ Cardinality(DOMAIN live) < MaxLive
              /\ \/ AllocatePages
                 \/ \E bytes \in Requests : dlmalloc(bytes)
                 \/ \E align \in Aligns, bytes \in Elements : dlposix_memalign(align, bytes)
     \/ /\ program = "bins"
        /\ \/ \E p \in DOMAIN live : live[p] \in Large /\ dlfree(p)
           \/ /\ Cardinality(DOMAIN live) < Len(Fill)
              /\ \E bytes \in Again : dlmalloc(bytes)

Delay(step) == program = "delay" /\ step /\ UNCHANGED <<program, vars>>
\* An input the channel does not look at in this state has one value.
Seen(looked) == IF looked THEN BOOLEAN ELSE {TRUE}
MCNext ==
  \/ HeapNext
  \/ \E s_valid \in Seen(s_ready), m_ready \in Seen(m_valid_i), see \in Seen(~shown \/ m_valid_i) :
        Delay(Edge(s_valid, m_ready, see))
  \/ \E d \in Delays : Delay(SetDelay(d))

(* What one call may do: to other blocks nothing, to the limit nothing, and   *)
(* aligned blocks lie where they were asked for (internal_memalign).          *)
CallsExact == CallsAreLocal /\ [][program = "pages" => StepAligned]_mcvars

MCSpec == MCInit /\ [][MCNext]_mcvars
=============================================================================
