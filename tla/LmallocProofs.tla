--------------------------- MODULE LmallocProofs ----------------------------
(***************************************************************************)
(* Lmalloc for any number of processes, any pool and any buffer sizes: the *)
(* frames behind a mapping stay with it, and no frame is lost, however the *)
(* calls of the processes interleave.                                      *)
(***************************************************************************)
EXTENDS Lmalloc, TLAPS

\* The pool is made of numbered frames, buffers have at least one page, and
\* None is not an allocation.
Pool == /\ Frames \subseteq Int /\ Pages \subseteq Int /\ Sizes \subseteq Nat \ {0}
        /\ None \notin Inf

PCs == {"user", "mmap", "free", "unlist", "release"}
Types == /\ owner \in [Frames -> Inf \cup {None}]
         /\ vmas \in [Procs -> SUBSET [start : Pages, inf : Inf]]
         /\ list \in [Procs -> SUBSET Inf]
         /\ call \in [Procs -> [pc : PCs, inf : Inf \cup {None}, start : Pages \cup {0}]]
         /\ paddr \in [Procs -> {None} \cup [vpage : Pages, frame : Int]]

Owns(i) == FramesOf(i) \subseteq Frames /\ \A f \in FramesOf(i) : owner[f] = i

\* What is on a list owns its frames, but for the moment between giving them
\* back and leaving the list (free_frames, list_del).
Listed(p) == \A i \in list[p] :
               /\ i.p = p
               /\ Owns(i) \/ (call[p].pc = "unlist" /\ call[p].inf = i)

\* A mapping's allocation is on the list, is no other mapping's and not the one
\* being freed.
Mapped(p) == \A v \in vmas[p] :
               /\ v.inf \in list[p]
               /\ call[p].pc \in {"free", "unlist"} => v.inf # call[p].inf
               /\ \A u \in vmas[p] : u.inf = v.inf => u = v

\* What a call in progress holds.
Calling(p) ==
    /\ call[p].pc = "mmap" => /\ call[p].inf \in Inf /\ call[p].inf.p = p
                              /\ Owns(call[p].inf) /\ call[p].inf \notin list[p]
                              /\ call[p].start \in Pages
    /\ call[p].pc \in {"free", "unlist"} => call[p].inf \in list[p]
    /\ call[p].pc = "unlist" => \A f \in Frames : owner[f] # call[p].inf
    /\ call[p].pc \in {"user", "release"} => call[p].inf = None
    /\ call[p].pc = "release" => vmas[p] = {}

\* A frame in use is one of its allocation's, which a list or a call knows.
Known(f) == owner[f] # None =>
              /\ f \in FramesOf(owner[f]) /\ owner[f].p \in Procs
              /\ owner[f] \in list[owner[f].p] \/ call[owner[f].p].inf = owner[f]

\* A translation kept by a program is that of a mapping it still has.
Translated(p) == paddr[p] # None =>
    \E v \in vmas[p] : /\ paddr[p].vpage \in PagesOf(v)
                       /\ paddr[p].frame = v.inf.base + (paddr[p].vpage - v.start)

IInv == /\ Types
        /\ \A p \in Procs : Listed(p) /\ Mapped(p) /\ Calling(p) /\ Translated(p)
        /\ \A f \in Frames : Known(f)
-----------------------------------------------------------------------------
LEMMA Numbers ==
    ASSUME Pool, NEW i \in Inf PROVE i.base \in Int /\ i.size \in Nat /\ i.size # 0
  BY DEF Pool, Inf

LEMMA Nonempty == ASSUME Pool, NEW i \in Inf PROVE i.base \in FramesOf(i)
  BY Numbers DEF FramesOf

LEMMA Apart ==
    ASSUME NEW i, NEW j, Owns(i), Owns(j), i # j
    PROVE  FramesOf(i) \cap FramesOf(j) = {}
  BY DEF Owns

\* Giving back the frames of i leaves every other owner its own.
LEMMA Freed ==
    ASSUME Types, NEW i, Owns(i), dma_free_attrs(i)
    PROVE  /\ owner' \in [Frames -> Inf \cup {None}]
           /\ \A j : j # i /\ Owns(j) => Owns(j)'
           /\ \A f \in Frames : owner'[f] = None \/ (owner'[f] = owner[f] /\ f \notin FramesOf(i))
  <1>1. owner' \in [Frames -> Inf \cup {None}]
    BY DEF Types, dma_free_attrs
  <1>2. ASSUME NEW j, j # i, Owns(j) PROVE Owns(j)'
    <2>1. FramesOf(i) \cap FramesOf(j) = {}
      BY <1>2, Apart
    <2> QED BY <2>1, <1>2 DEF Owns, dma_free_attrs, FramesOf
  <1>3. \A f \in Frames : owner'[f] = None \/ (owner'[f] = owner[f] /\ f \notin FramesOf(i))
    BY DEF dma_free_attrs
  <1> QED BY <1>1, <1>2, <1>3

LEMMA Initially == Init => IInv
  <1> SUFFICES ASSUME Init PROVE IInv
    OBVIOUS
  <1>1. Types
    BY DEF Init, Types, Idle, PCs
  <1>2. \A p \in Procs : Listed(p) /\ Mapped(p) /\ Calling(p) /\ Translated(p)
    BY DEF Init, Listed, Mapped, Calling, Translated, Idle
  <1>3. \A f \in Frames : Known(f)
    BY DEF Init, Known
  <1> QED BY <1>1, <1>2, <1>3 DEF IInv
-----------------------------------------------------------------------------
\* lma_open touches nothing the invariant speaks of.
LEMMA OpenKeeps == ASSUME IInv, NEW p \in Procs, lma_open(p) PROVE IInv'
  BY DEF lma_open, IInv, Types, Listed, Mapped, Calling, Known, Translated, Owns

\* lma_mmap: the frames were free, so they are nobody's; and since no frame of a
\* listed allocation is free, the new one is not on the list.
LEMMA MmapKeeps == ASSUME Pool, IInv, NEW p \in Procs, lma_mmap(p) PROVE IInv'
  <1> USE DEF IInv
  <1>1. PICK i \in Inf, s \in Pages :
          /\ i.p = p /\ FramesOf(i) \subseteq Frames /\ \A f \in FramesOf(i) : owner[f] = None
          /\ owner' = [f \in Frames |-> IF f \in FramesOf(i) THEN i ELSE owner[f]]
          /\ Goto(p, "mmap", i, s)
    BY DEF lma_mmap
  <1>2. UNCHANGED <<fd, vmas, list, paddr>> /\ call[p].pc = "user"
    BY DEF lma_mmap, User
  <1>3. /\ call' \in [Procs -> [pc : PCs, inf : Inf \cup {None}, start : Pages \cup {0}]]
        /\ call'[p].pc = "mmap" /\ call'[p].inf = i /\ call'[p].start = s
        /\ \A q \in Procs \ {p} : call'[q] = call[q]
    BY <1>1 DEF Goto, Types, PCs
  <1>4. Types'
    BY <1>1, <1>2, <1>3 DEF Types
  <1>5. Owns(i)'
    BY <1>1 DEF Owns, FramesOf
  <1>6. ASSUME NEW j \in Inf, Owns(j) PROVE Owns(j)' /\ j # i
    <2>1. \A f \in FramesOf(j) : f \notin FramesOf(i)
      BY <1>1, <1>6 DEF Owns, Pool
    <2>2. j.base \in FramesOf(j)
      BY Nonempty
    <2> QED BY <1>1, <1>6, <2>1, <2>2 DEF Owns, FramesOf
  <1>7. i \notin list[p]
    BY <1>2, <1>6, <1>1 DEF Listed
  <1>8. ASSUME NEW q \in Procs PROVE Listed(q)' /\ Mapped(q)' /\ Calling(q)' /\ Translated(q)'
    <2>1. Listed(q)'
      <3> SUFFICES ASSUME NEW j \in list[q]
                   PROVE  j.p = q /\ (Owns(j)' \/ (call'[q].pc = "unlist" /\ call'[q].inf = j))
        BY <1>2 DEF Listed
      <3>1. j \in Inf
        BY DEF Types
      <3> QED BY <3>1, <1>2, <1>3, <1>6 DEF Listed
    <2>2. Mapped(q)'
      BY <1>2, <1>3 DEF Mapped
    <2>3. Calling(q)'
      <3>1. CASE q = p
        BY <3>1, <1>1, <1>2, <1>3, <1>5, <1>7 DEF Calling
      <3>2. CASE q # p
        <4>1. call'[q].pc = "unlist" => \A f \in Frames : owner'[f] # call'[q].inf
          <5>1. call[q].pc = "unlist" => call[q].inf \in list[q] /\ call[q].inf.p = q
            BY DEF Calling, Listed
          <5> QED BY <5>1, <3>2, <1>1, <1>3, SMTT(20) DEF Calling
        <4>2. \A j \in Inf : call[q].pc = "mmap" /\ j = call[q].inf => Owns(j)'
          BY <1>6 DEF Calling
        <4> QED BY <4>1, <4>2, <3>2, <1>2, <1>3, SMTT(20) DEF Calling, Owns, FramesOf
      <3> QED BY <3>1, <3>2
    <2>4. Translated(q)'
      BY <1>2 DEF Translated
    <2> QED BY <2>1, <2>2, <2>3, <2>4
  <1>9. ASSUME NEW f \in Frames PROVE Known(f)'
    <2>1. CASE f \in FramesOf(i)
      BY <2>1, <1>1, <1>3 DEF Known, FramesOf
    <2>2. CASE f \notin FramesOf(i)
      <3>1. owner'[f] = owner[f]
        BY <2>2, <1>1
      <3>2. owner[f] # None => (owner[f] \in list[owner[f].p] \/ call'[owner[f].p].inf = owner[f])
        BY <1>2, <1>3 DEF Known, Calling
      <3> QED BY <3>1, <3>2, <1>2 DEF Known, FramesOf
    <2> QED BY <2>1, <2>2
  <1> QED BY <1>4, <1>8, <1>9

\* What a step of one process that leaves owner alone keeps for the others.
LEMMA OthersKeep ==
    ASSUME IInv, NEW p \in Procs, NEW q \in Procs \ {p}, UNCHANGED owner,
           vmas'[q] = vmas[q], list'[q] = list[q], call'[q] = call[q], paddr'[q] = paddr[q]
    PROVE  Listed(q)' /\ Mapped(q)' /\ Calling(q)' /\ Translated(q)'
  BY SMTT(20) DEF IInv, Listed, Mapped, Calling, Translated, Owns, FramesOf

\* dma_mmap_attrs: the allocation goes from the call to the list.
LEMMA MappedKeeps == ASSUME IInv, NEW p \in Procs, dma_mmap_attrs(p) PROVE IInv'
  <1> DEFINE i == call[p].inf
             v == [start |-> call[p].start, inf |-> i]
  <1>1. /\ i \in Inf /\ i.p = p /\ Owns(i) /\ i \notin list[p] /\ call[p].start \in Pages
        /\ UNCHANGED <<owner, fd, paddr>>
    BY DEF dma_mmap_attrs, IInv, Calling
  <1>2. /\ vmas' = [vmas EXCEPT ![p] = @ \cup {v}] /\ list' = [list EXCEPT ![p] = @ \cup {i}]
        /\ call' = [call EXCEPT ![p] = [pc |-> "user", inf |-> None, start |-> 0]]
    BY DEF dma_mmap_attrs, Goto
  <1>3. v \in [start : Pages, inf : Inf] /\ v.inf = i
    BY <1>1
  <1> HIDE DEF i, v
  <1>4. Types'
    BY <1>1, <1>2, <1>3 DEF IInv, Types, PCs
  <1>5. /\ vmas'[p] = vmas[p] \cup {v} /\ list'[p] = list[p] \cup {i}
        /\ call'[p].pc = "user" /\ call'[p].inf = None
        /\ \A q \in Procs \ {p} : /\ vmas'[q] = vmas[q] /\ list'[q] = list[q]
                                 /\ call'[q] = call[q]
    BY <1>2 DEF IInv, Types
  <1>6. call[p].pc = "mmap"
    BY DEF dma_mmap_attrs
  <1>7. Listed(p)'
    BY <1>1, <1>5, <1>6 DEF IInv, Listed, Owns, FramesOf
  <1>8. Mapped(p)'
    BY <1>1, <1>3, <1>5 DEF IInv, Mapped
  <1>9. Calling(p)'
    BY <1>5 DEF Calling
  <1>10. Translated(p)'
    BY <1>1, <1>5 DEF IInv, Translated, PagesOf
  <1>11. ASSUME NEW q \in Procs \ {p} PROVE Listed(q)' /\ Mapped(q)' /\ Calling(q)' /\ Translated(q)'
    BY <1>1, <1>5, OthersKeep
  <1>12. ASSUME NEW f \in Frames PROVE Known(f)'
    <2>1. owner[f] # None => owner[f].p # p \/ owner[f] \in list[p] \cup {i}
      BY DEF IInv, Known, i
    <2> QED BY <2>1, <1>1, <1>5 DEF IInv, Known, FramesOf
  <1> QED BY <1>4, <1>7, <1>8, <1>9, <1>10, <1>11, <1>12 DEF IInv

\* cmd_tran only records a translation of a mapping.
LEMMA TranKeeps ==
    ASSUME Pool, IInv, NEW p \in Procs, NEW a \in Pages, cmd_tran(p, a) PROVE IInv'
  <1>1. PICK v \in vmas[p] :
          /\ a \in PagesOf(v)
          /\ paddr' = [paddr EXCEPT ![p] = [vpage |-> a, frame |-> v.inf.base + (a - v.start)]]
    BY DEF cmd_tran, find_vma
  <1>2. UNCHANGED <<owner, fd, vmas, list, call>>
    BY DEF cmd_tran
  <1>3. v.inf.base + (a - v.start) \in Int
    <2>1. v.start \in Pages /\ v.inf \in Inf
      BY DEF IInv, Types
    <2>2. v.start \in Int /\ v.inf.base \in Int /\ a \in Int
      BY <2>1, Numbers DEF Pool
    <2> QED BY <2>2
  <1>4. Types'
    BY <1>1, <1>2, <1>3 DEF IInv, Types
  <1>5. paddr'[p] = [vpage |-> a, frame |-> v.inf.base + (a - v.start)]
    BY <1>1 DEF IInv, Types
  <1>6. \A q \in Procs \ {p} : paddr'[q] = paddr[q]
    BY <1>1 DEF IInv, Types
  <1>7. Translated(p)'
    BY <1>1, <1>2, <1>5 DEF Translated, PagesOf
  <1>8. Listed(p)' /\ Mapped(p)' /\ Calling(p)'
    BY <1>2, SMTT(20) DEF IInv, Listed, Mapped, Calling, Owns, FramesOf
  <1>9. ASSUME NEW q \in Procs \ {p} PROVE Listed(q)' /\ Mapped(q)' /\ Calling(q)' /\ Translated(q)'
    BY <1>2, <1>6, OthersKeep
  <1>10. \A f \in Frames : Known(f)'
    BY <1>2 DEF IInv, Known, FramesOf
  <1> QED BY <1>4, <1>7, <1>8, <1>9, <1>10 DEF IInv

\* cmd_free: the mapping goes, and no other one has its allocation.
LEMMA FreeKeeps ==
    ASSUME IInv, NEW p \in Procs, NEW a \in Pages, cmd_free(p, a) PROVE IInv'
  <1>1. PICK v \in vmas[p] :
          /\ vmas' = [vmas EXCEPT ![p] = @ \ {v}]
          /\ paddr' = [paddr EXCEPT ![p] = IF @ # None /\ @.vpage \in PagesOf(v) THEN None ELSE @]
          /\ call' = [call EXCEPT ![p] = [pc |-> "free", inf |-> v.inf, start |-> 0]]
    BY DEF cmd_free, find_vma, Goto
  <1>2. UNCHANGED <<owner, fd, list>> /\ call[p].pc = "user"
    BY DEF cmd_free, User
  <1>3. v \in [start : Pages, inf : Inf] /\ v.inf \in Inf
    BY DEF IInv, Types
  <1>4. Types'
    BY <1>1, <1>2, <1>3 DEF IInv, Types, PCs
  <1>5. /\ vmas'[p] = vmas[p] \ {v} /\ call'[p].pc = "free" /\ call'[p].inf = v.inf
        /\ paddr'[p] = IF paddr[p] # None /\ paddr[p].vpage \in PagesOf(v) THEN None ELSE paddr[p]
        /\ \A q \in Procs \ {p} : /\ vmas'[q] = vmas[q] /\ paddr'[q] = paddr[q]
                                 /\ call'[q] = call[q]
    BY <1>1 DEF IInv, Types
  <1>6. Listed(p)'
    BY <1>2, <1>5 DEF IInv, Listed, Owns, FramesOf
  <1>7. Mapped(p)'
    BY <1>2, <1>5, SMTT(20) DEF IInv, Mapped
  <1>8. Calling(p)'
    BY <1>2, <1>5 DEF IInv, Mapped, Calling
  <1>9. Translated(p)'
    BY <1>5 DEF IInv, Translated, PagesOf
  <1>10. ASSUME NEW q \in Procs \ {p} PROVE Listed(q)' /\ Mapped(q)' /\ Calling(q)' /\ Translated(q)'
    BY <1>2, <1>5, OthersKeep
  <1>11. ASSUME NEW f \in Frames PROVE Known(f)'
    <2>1. call[p].inf = None
      BY <1>2 DEF IInv, Calling
    <2> QED BY <2>1, <1>2, <1>5 DEF IInv, Known, FramesOf
  <1> QED BY <1>4, <1>6, <1>7, <1>8, <1>9, <1>10, <1>11 DEF IInv

\* Freeing the frames that i of process p owns concerns no other process.
LEMMA FreedOthers ==
    ASSUME Pool, IInv, NEW p \in Procs, NEW i \in Inf, i.p = p, Owns(i), dma_free_attrs(i),
           NEW q \in Procs \ {p},
           vmas'[q] = vmas[q], list'[q] = list[q], call'[q] = call[q], paddr'[q] = paddr[q]
    PROVE  Listed(q)' /\ Mapped(q)' /\ Calling(q)' /\ Translated(q)'
  <1>1. /\ \A j : j # i /\ Owns(j) => Owns(j)'
        /\ \A f \in Frames : owner'[f] = None \/ owner'[f] = owner[f]
    BY Freed DEF IInv
  <1>2. Listed(q)'
    BY <1>1 DEF IInv, Listed, Owns, FramesOf
  <1>3. Calling(q)'
    <2>1. \A j : call[q].pc = "mmap" /\ j = call[q].inf => Owns(j)'
      BY <1>1 DEF IInv, Calling
    <2>2. call[q].pc = "unlist" => \A f \in Frames : owner'[f] # call[q].inf
      <3>1. call[q].pc = "unlist" => call[q].inf \in Inf
        BY DEF IInv, Types, Calling
      <3> QED BY <3>1, <1>1, SMTT(20) DEF IInv, Calling, Pool
    <2> QED BY <2>1, <2>2, SMTT(20) DEF IInv, Calling, Owns, FramesOf
  <1>4. Mapped(q)' /\ Translated(q)'
    BY DEF IInv, Mapped, Translated, PagesOf
  <1> QED BY <1>2, <1>3, <1>4

LEMMA FreedKnown ==
    ASSUME Pool, IInv, NEW p \in Procs, NEW i \in Inf, i.p = p, Owns(i), dma_free_attrs(i),
           call[p].inf \in {i, None}, list[p] \ {i} \subseteq list'[p],
           \A q \in Procs \ {p} : list'[q] = list[q] /\ call'[q] = call[q]
    PROVE  \A f \in Frames : Known(f)' /\ owner'[f] # i
  <1> SUFFICES ASSUME NEW f \in Frames PROVE Known(f)' /\ owner'[f] # i
    OBVIOUS
  <1>1. owner'[f] = None \/ (owner'[f] = owner[f] /\ f \notin FramesOf(i))
    BY Freed DEF IInv
  <1>2. Known(f) /\ None # i
    BY DEF IInv, Pool
  <1>3. owner'[f] # i
    BY <1>1, <1>2 DEF Known
  <1>4. owner'[f] # None =>
          owner[f] \in list'[owner[f].p] \/ call'[owner[f].p].inf = owner[f]
    BY <1>1, <1>2, <1>3 DEF Known
  <1> QED BY <1>1, <1>2, <1>3, <1>4 DEF Known, FramesOf
-----------------------------------------------------------------------------
\* failed_mmap: nothing had been told of the allocation yet.
LEMMA FailedKeeps == ASSUME Pool, IInv, NEW p \in Procs, failed_mmap(p) PROVE IInv'
  <1> DEFINE i == call[p].inf
  <1>1. i \in Inf /\ i.p = p /\ Owns(i) /\ i \notin list[p]
    BY DEF failed_mmap, IInv, Calling
  <1>2. dma_free_attrs(i) /\ UNCHANGED <<fd, vmas, list, paddr>> /\ call[p].pc = "mmap"
    BY DEF failed_mmap
  <1>3. /\ call' \in [Procs -> [pc : PCs, inf : Inf \cup {None}, start : Pages \cup {0}]]
        /\ call'[p].pc = "user" /\ call'[p].inf = None
        /\ \A q \in Procs \ {p} : call'[q] = call[q]
    BY DEF failed_mmap, Goto, IInv, Types, PCs
  <1>4. i = call[p].inf
    OBVIOUS
  <1> HIDE DEF i
  <1>5. /\ owner' \in [Frames -> Inf \cup {None}] /\ \A j : j # i /\ Owns(j) => Owns(j)'
    BY <1>1, <1>2, Freed DEF IInv
  <1>6. Types'
    BY <1>2, <1>3, <1>5 DEF IInv, Types
  <1>7. Listed(p)'
    BY <1>1, <1>2, <1>5 DEF IInv, Listed, Owns, FramesOf
  <1>8. Mapped(p)' /\ Calling(p)' /\ Translated(p)'
    BY <1>2, <1>3, SMTT(20) DEF IInv, Mapped, Calling, Translated, PagesOf
  <1>9. ASSUME NEW q \in Procs \ {p} PROVE Listed(q)' /\ Mapped(q)' /\ Calling(q)' /\ Translated(q)'
    BY <1>1, <1>2, <1>3, FreedOthers
  <1>10. \A f \in Frames : Known(f)'
    BY <1>1, <1>2, <1>3, <1>4, FreedKnown
  <1> QED BY <1>6, <1>7, <1>8, <1>9, <1>10 DEF IInv

\* free_frames: the allocation is on the list without frames for a moment.
LEMMA FreeFramesKeeps == ASSUME Pool, IInv, NEW p \in Procs, free_frames(p) PROVE IInv'
  <1> DEFINE i == call[p].inf
  <1>1. i \in list[p] /\ i \in Inf /\ i.p = p /\ Owns(i)
    BY DEF free_frames, IInv, Types, Calling, Listed
  <1>2. dma_free_attrs(i) /\ UNCHANGED <<fd, vmas, list, paddr>> /\ call[p].pc = "free"
    BY DEF free_frames
  <1>3. /\ call' \in [Procs -> [pc : PCs, inf : Inf \cup {None}, start : Pages \cup {0}]]
        /\ call'[p].pc = "unlist" /\ call'[p].inf = i
        /\ \A q \in Procs \ {p} : call'[q] = call[q]
    BY <1>1 DEF free_frames, Goto, IInv, Types, PCs
  <1>4. i = call[p].inf
    OBVIOUS
  <1> HIDE DEF i
  <1>5. /\ owner' \in [Frames -> Inf \cup {None}] /\ \A j : j # i /\ Owns(j) => Owns(j)'
    BY <1>1, <1>2, Freed DEF IInv
  <1>6. Types'
    BY <1>2, <1>3, <1>5 DEF IInv, Types
  <1>7. Listed(p)'
    BY <1>2, <1>3, <1>5 DEF IInv, Listed, Owns, FramesOf
  <1>8. \A f \in Frames : Known(f)' /\ owner'[f] # i
    BY <1>1, <1>2, <1>3, <1>4, FreedKnown
  <1>9. Mapped(p)' /\ Calling(p)' /\ Translated(p)'
    BY <1>1, <1>2, <1>3, <1>4, <1>8, SMTT(20) DEF IInv, Mapped, Calling, Translated, PagesOf
  <1>10. ASSUME NEW q \in Procs \ {p} PROVE Listed(q)' /\ Mapped(q)' /\ Calling(q)' /\ Translated(q)'
    BY <1>1, <1>2, <1>3, FreedOthers
  <1> QED BY <1>6, <1>7, <1>8, <1>9, <1>10 DEF IInv

\* list_del: no frame is left with the allocation that leaves the list.
LEMMA UnlistKeeps == ASSUME IInv, NEW p \in Procs, list_del(p) PROVE IInv'
  <1>1. UNCHANGED <<owner, fd, vmas, paddr>> /\ call[p].pc = "unlist"
    BY DEF list_del
  <1>2. /\ list' = [list EXCEPT ![p] = @ \ {call[p].inf}]
        /\ call' = [call EXCEPT ![p] = [pc |-> "user", inf |-> None, start |-> 0]]
    BY DEF list_del, Goto
  <1>3. Types'
    BY <1>1, <1>2 DEF IInv, Types, PCs
  <1>4. /\ list'[p] = list[p] \ {call[p].inf} /\ call'[p].pc = "user" /\ call'[p].inf = None
        /\ \A q \in Procs \ {p} : list'[q] = list[q] /\ call'[q] = call[q]
    BY <1>2 DEF IInv, Types
  <1>5. Listed(p)'
    BY <1>1, <1>4 DEF IInv, Listed, Owns, FramesOf
  <1>6. Mapped(p)' /\ Calling(p)' /\ Translated(p)'
    BY <1>1, <1>4, SMTT(20) DEF IInv, Mapped, Calling, Translated, PagesOf
  <1>7. ASSUME NEW q \in Procs \ {p} PROVE Listed(q)' /\ Mapped(q)' /\ Calling(q)' /\ Translated(q)'
    BY <1>1, <1>4, OthersKeep
  <1>8. ASSUME NEW f \in Frames PROVE Known(f)'
    <2>1. owner[f] # call[p].inf
      BY <1>1 DEF IInv, Calling
    <2> QED BY <2>1, <1>1, <1>4 DEF IInv, Known, FramesOf
  <1> QED BY <1>3, <1>5, <1>6, <1>7, <1>8 DEF IInv

\* exit: the mappings go with the process, its list waits for lma_release.
LEMMA ExitKeeps == ASSUME IInv, NEW p \in Procs, exit(p) PROVE IInv'
  <1>1. UNCHANGED <<owner, list>> /\ call[p].pc = "user"
    BY DEF exit, User
  <1>2. /\ vmas' = [vmas EXCEPT ![p] = {}] /\ paddr' = [paddr EXCEPT ![p] = None]
        /\ call' = [call EXCEPT ![p] = [pc |-> "release", inf |-> None, start |-> 0]]
    BY DEF exit, Goto
  <1>3. Types'
    BY <1>1, <1>2 DEF IInv, Types, PCs
  <1>4. /\ vmas'[p] = {} /\ paddr'[p] = None /\ call'[p].pc = "release" /\ call'[p].inf = None
        /\ \A q \in Procs \ {p} : /\ vmas'[q] = vmas[q] /\ paddr'[q] = paddr[q]
                                 /\ call'[q] = call[q]
    BY <1>2 DEF IInv, Types
  <1>5. Listed(p)'
    BY <1>1, <1>4 DEF IInv, Listed, Owns, FramesOf
  <1>6. Mapped(p)' /\ Calling(p)' /\ Translated(p)'
    BY <1>4 DEF Mapped, Calling, Translated
  <1>7. ASSUME NEW q \in Procs \ {p} PROVE Listed(q)' /\ Mapped(q)' /\ Calling(q)' /\ Translated(q)'
    BY <1>1, <1>4, OthersKeep
  <1>8. ASSUME NEW f \in Frames PROVE Known(f)'
    <2>1. call[p].inf = None
      BY <1>1 DEF IInv, Calling
    <2> QED BY <2>1, <1>1, <1>4 DEF IInv, Known, FramesOf
  <1> QED BY <1>3, <1>5, <1>6, <1>7, <1>8 DEF IInv

\* lma_release: one allocation after the other is freed and leaves the list.
LEMMA ReleaseKeeps == ASSUME Pool, IInv, NEW p \in Procs, lma_release(p) PROVE IInv'
  <1>1. PICK i \in list[p] : dma_free_attrs(i) /\ list' = [list EXCEPT ![p] = @ \ {i}]
    BY DEF lma_release
  <1>2. UNCHANGED <<fd, vmas, call, paddr>> /\ call[p].pc = "release"
    BY DEF lma_release
  <1>3. i \in Inf /\ i.p = p /\ Owns(i)
    BY <1>2 DEF IInv, Types, Listed
  <1>4. list'[p] = list[p] \ {i} /\ \A q \in Procs \ {p} : list'[q] = list[q]
    BY <1>1 DEF IInv, Types
  <1>5. /\ owner' \in [Frames -> Inf \cup {None}] /\ \A j : j # i /\ Owns(j) => Owns(j)'
    BY <1>1, <1>3, Freed DEF IInv
  <1>6. Types'
    BY <1>1, <1>2, <1>5 DEF IInv, Types
  <1>7. Listed(p)'
    BY <1>2, <1>4, <1>5 DEF IInv, Listed, Owns, FramesOf
  <1>8. call[p].inf = None /\ vmas[p] = {}
    BY <1>2 DEF IInv, Calling
  <1>9. Mapped(p)' /\ Calling(p)' /\ Translated(p)'
    BY <1>2, <1>8 DEF IInv, Mapped, Calling, Translated, PagesOf
  <1>10. ASSUME NEW q \in Procs \ {p} PROVE Listed(q)' /\ Mapped(q)' /\ Calling(q)' /\ Translated(q)'
    BY <1>1, <1>2, <1>3, <1>4, FreedOthers
  <1>11. \A f \in Frames : Known(f)'
    BY <1>1, <1>2, <1>3, <1>4, <1>8, FreedKnown
  <1> QED BY <1>6, <1>7, <1>9, <1>10, <1>11 DEF IInv
-----------------------------------------------------------------------------
LEMMA StepKeeps == ASSUME Pool PROVE IInv /\ [Next]_vars => IInv'
  <1> SUFFICES ASSUME IInv, [Next]_vars PROVE IInv'
    OBVIOUS
  <1>1. CASE UNCHANGED vars
    BY <1>1, SMTT(20) DEF vars, IInv, Types, Listed, Mapped, Calling, Known, Translated, Owns, FramesOf, PagesOf
  <1>2. CASE Next
    <2>1. PICK p \in Procs : \/ Kernel(p) \/ lma_open(p) \/ lma_mmap(p) \/ exit(p)
                            \/ \E a \in Pages : cmd_tran(p, a) \/ cmd_free(p, a)
      BY <1>2 DEF Next
    <2>2. CASE Kernel(p)
      BY <2>2, MappedKeeps, FailedKeeps, FreeFramesKeeps, UnlistKeeps, ReleaseKeeps DEF Kernel
    <2>3. CASE lma_open(p) \/ lma_mmap(p) \/ exit(p)
      BY <2>3, OpenKeeps, MmapKeeps, ExitKeeps
    <2>4. CASE \E a \in Pages : cmd_tran(p, a) \/ cmd_free(p, a)
      BY <2>4, TranKeeps, FreeKeeps
    <2> QED BY <2>1, <2>2, <2>3, <2>4
  <1> QED BY <1>1, <1>2

LEMMA Backed == ASSUME Pool, IInv PROVE MappedBacked
  <1> SUFFICES ASSUME NEW p \in Procs
               PROVE  /\ \A v \in vmas[p] : \A f \in FramesOf(v.inf) : owner[f] = v.inf
                      /\ paddr[p] # None => \E v \in vmas[p] : /\ paddr[p].vpage \in PagesOf(v)
                                                              /\ owner[paddr[p].frame] = v.inf
    BY DEF MappedBacked
  <1>1. \A v \in vmas[p] : Owns(v.inf)
    BY DEF IInv, Mapped, Listed
  <1>2. ASSUME paddr[p] # None
        PROVE  \E v \in vmas[p] : /\ paddr[p].vpage \in PagesOf(v)
                                  /\ owner[paddr[p].frame] = v.inf
    <2>1. PICK v \in vmas[p] : /\ paddr[p].vpage \in PagesOf(v)
                              /\ paddr[p].frame = v.inf.base + (paddr[p].vpage - v.start)
      BY <1>2 DEF IInv, Translated
    <2>2. v.start \in Pages /\ v.inf \in Inf
      BY DEF IInv, Types
    <2>3. v.start \in Int /\ v.inf.base \in Int /\ v.inf.size \in Nat
      BY <2>2, Numbers DEF Pool
    <2>4. paddr[p].frame \in FramesOf(v.inf)
      BY <2>1, <2>3 DEF PagesOf, FramesOf
    <2> QED BY <2>1, <2>4, <1>1 DEF Owns
  <1> QED BY <1>1, <1>2 DEF Owns

LEMMA Unlost == ASSUME IInv PROVE NoLeak
  BY DEF IInv, Known, NoLeak

\* For every number of processes, every pool and all buffer sizes: what is
\* mapped keeps its frames, and so does every address handed out for it, and
\* no frame is in use that neither a list nor a call in progress knows of, in
\* every interleaving of mmap, ioctl, exit and release (lma_mmap, lma_ioctl,
\* lma_release).
THEOREM MemoryKept == ASSUME Pool PROVE Spec => []MemoryOwned
  <1>1. Init => IInv
    BY Initially
  <1>2. IInv /\ [Next]_vars => IInv'
    BY StepKeeps
  <1>3. IInv => MemoryOwned
    BY Backed, Unlost DEF MemoryOwned
  <1> QED BY <1>1, <1>2, <1>3, PTL DEF Spec
=============================================================================
