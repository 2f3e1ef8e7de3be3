------------------------------ MODULE Lmalloc -------------------------------
(***************************************************************************)
(* drivers/lmalloc.c and its callers in shared/linux/accmem.c: processes   *)
(* allocate physically contiguous buffers by mapping the device, have      *)
(* addresses translated, free buffers and exit.  mmap and munmap run under *)
(* the process's mmap_sem; the rest of cmd_free runs after it is released. *)
(* Kernel memory management is external.                                   *)
(***************************************************************************)
EXTENDS Integers, FiniteSets

CONSTANTS Procs,    \* processes, one thread each
          Frames,   \* page frames of the contiguous pool
          Pages,    \* virtual pages of a process
          Sizes,    \* buffer sizes in pages
          None

VARIABLES owner,  \* frame -> the allocation (lma_inf) that holds it, or None
          fd,     \* process -> "none", "open", "bad", "dead"
          vmas,   \* process -> its mappings [start, inf]
          list,   \* process -> allocations on its file's alloc_list
          call,   \* process -> the kernel call in progress: [pc, inf, start]
          paddr   \* process -> the last translation: [vpage, frame] or None

vars == <<owner, fd, vmas, list, call, paddr>>

\* An allocation: its process, first frame and size
Inf == [p : Procs, base : Frames, size : Sizes]
FramesOf(i) == i.base .. i.base + i.size - 1
PagesOf(v) == v.start .. v.start + v.inf.size - 1
Idle == [pc |-> "user", inf |-> None, start |-> 0]

Init == /\ owner = [f \in Frames |-> None] /\ fd = [p \in Procs |-> "none"]
        /\ vmas = [p \in Procs |-> {}] /\ list = vmas
        /\ call = [p \in Procs |-> Idle] /\ paddr = [p \in Procs |-> None]

Goto(p, pc, i, s) == call' = [call EXCEPT ![p] = [pc |-> pc, inf |-> i, start |-> s]]
User(p) == call[p].pc = "user"
\* dma_free_attrs returns the frames whoever holds them now
dma_free_attrs(i) == owner' = [f \in Frames |-> IF f \in FramesOf(i) THEN None ELSE owner[f]]
-----------------------------------------------------------------------------
\* accmem.c opens the device on first use; a failed open is never retried
lma_open(p) ==
    /\ User(p) /\ fd[p] = "none"
    /\ \E r \in {"open", "bad"} : fd' = [fd EXCEPT ![p] = r]
    /\ UNCHANGED <<owner, vmas, list, call, paddr>>

\* cm_alloc -> lma_mmap: the pool gives contiguous free frames; where no
\* memory is left the call returns having changed nothing
lma_mmap(p) ==
    /\ User(p) /\ fd[p] = "open"
    /\ \E i \in Inf, s \in Pages :
         /\ i.p = p /\ FramesOf(i) \subseteq Frames /\ \A f \in FramesOf(i) : owner[f] = None
         /\ s + i.size - 1 \in Pages
         /\ \A v \in vmas[p] : PagesOf(v) \cap (s .. s + i.size - 1) = {}
         /\ owner' = [f \in Frames |-> IF f \in FramesOf(i) THEN i ELSE owner[f]]
         /\ Goto(p, "mmap", i, s)
    /\ UNCHANGED <<fd, vmas, list, paddr>>

dma_mmap_attrs(p) ==
    /\ call[p].pc = "mmap"
    /\ vmas' = [vmas EXCEPT ![p] = @ \cup {[start |-> call[p].start, inf |-> call[p].inf]}]
    /\ list' = [list EXCEPT ![p] = @ \cup {call[p].inf}]
    /\ Goto(p, "user", None, 0) /\ UNCHANGED <<owner, fd, paddr>>

failed_mmap(p) ==
    /\ call[p].pc = "mmap" /\ dma_free_attrs(call[p].inf) /\ Goto(p, "user", None, 0)
    /\ UNCHANGED <<fd, vmas, list, paddr>>
-----------------------------------------------------------------------------
\* find_vma: the lowest mapping that ends above the address
find_vma(p, a) == {v \in vmas[p] : /\ v.start + v.inf.size > a
                                   /\ \A u \in vmas[p] : u.start + u.inf.size > a => v.start <= u.start}

\* addr_tran -> cmd_tran; follow_pfn refuses an address outside the mapping
cmd_tran(p, a) ==
    /\ User(p) /\ fd[p] = "open"
    /\ \E v \in find_vma(p, a) :
         /\ a \in PagesOf(v)
         /\ paddr' = [paddr EXCEPT ![p] = [vpage |-> a, frame |-> v.inf.base + (a - v.start)]]
    /\ UNCHANGED <<owner, fd, vmas, list, call>>

\* cm_free -> cmd_free, under mmap_sem; a failing do_munmap changes nothing.
\* cm_free gets what cm_alloc gave: an address above every mapping, for which
\* find_vma's NULL is used unchecked, and mappings of other files do not occur.
cmd_free(p, a) ==
    /\ User(p) /\ fd[p] = "open"
    /\ \E v \in find_vma(p, a) :
         /\ v.start <= a
         /\ vmas' = [vmas EXCEPT ![p] = @ \ {v}]
         /\ paddr' = [paddr EXCEPT ![p] = IF @ # None /\ @.vpage \in PagesOf(v) THEN None ELSE @]
         /\ Goto(p, "free", v.inf, 0)
    /\ UNCHANGED <<owner, fd, list>>
free_frames(p) ==
    /\ call[p].pc = "free" /\ dma_free_attrs(call[p].inf) /\ Goto(p, "unlist", call[p].inf, 0)
    /\ UNCHANGED <<fd, vmas, list, paddr>>
\* mutant: the descriptor stays on the list
list_del_Skip(p) == /\ call[p].pc = "unlist" /\ Goto(p, "user", None, 0)
                    /\ UNCHANGED <<owner, fd, vmas, list, paddr>>
list_del(p) == /\ call[p].pc = "unlist" /\ Goto(p, "user", None, 0)
               /\ list' = [list EXCEPT ![p] = @ \ {call[p].inf}]
               /\ UNCHANGED <<owner, fd, vmas, paddr>>
-----------------------------------------------------------------------------
\* A process ends between calls: its mappings go, then the last reference to
\* its file, which runs lma_release
exit(p) == /\ User(p) /\ fd[p] # "dead" /\ fd' = [fd EXCEPT ![p] = "dead"]
           /\ vmas' = [vmas EXCEPT ![p] = {}] /\ paddr' = [paddr EXCEPT ![p] = None]
           /\ Goto(p, "release", None, 0) /\ UNCHANGED <<owner, list>>
\* mutant: the walk stops at the last entry
lma_release_Short(p) ==
    /\ call[p].pc = "release" /\ Cardinality(list[p]) > 1
    /\ \E i \in list[p] : dma_free_attrs(i) /\ list' = [list EXCEPT ![p] = @ \ {i}]
    /\ UNCHANGED <<fd, vmas, call, paddr>>
lma_release(p) ==
    /\ call[p].pc = "release"
    /\ \E i \in list[p] : dma_free_attrs(i) /\ list' = [list EXCEPT ![p] = @ \ {i}]
    /\ UNCHANGED <<fd, vmas, call, paddr>>

Kernel(p) == \/ dma_mmap_attrs(p) \/ failed_mmap(p) \/ free_frames(p) \/ list_del(p)
             \/ lma_release(p)
Next == \E p \in Procs : \/ Kernel(p) \/ lma_open(p) \/ lma_mmap(p) \/ exit(p)
                         \/ \E a \in Pages : cmd_tran(p, a) \/ cmd_free(p, a)
Spec == Init /\ [][Next]_vars
-----------------------------------------------------------------------------
\* Every mapped page, and every physical address handed out for a buffer that
\* is still mapped, belongs to the allocation behind the mapping: no free of
\* another buffer, exit or failed mapping takes it away.
MappedBacked ==
    \A p \in Procs :
       /\ \A v \in vmas[p] : \A f \in FramesOf(v.inf) : owner[f] = v.inf
       /\ paddr[p] # None => \E v \in vmas[p] : /\ paddr[p].vpage \in PagesOf(v)
                                                /\ owner[paddr[p].frame] = v.inf

\* Frames in use are on their process's list, or in the hands of the call
\* that is allocating or freeing them.
NoLeak == \A f \in Frames : owner[f] # None =>
            LET p == owner[f].p IN owner[f] \in list[p] \/ call[p].inf = owner[f]

\* Memory belongs to one owner, whatever fails (lma_mmap, cmd_free, lma_release).
MemoryOwned == MappedBacked /\ NoLeak

\* Nothing of an ended process is left (reached by every process that exits).
Dead(p) == fd[p] = "dead"
Returned(p) == \A f \in Frames : owner[f] # None => owner[f].p # p
=============================================================================
