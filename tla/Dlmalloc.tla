------------------------------ MODULE Dlmalloc ------------------------------
(* dlmalloc over the contiguous-memory driver (cm_alloc, cm_free), the heap   *)
(* of the accelerated programs.  One action per public call.                  *)
(*                                                                            *)
(* The first part has the data structures as the repository configures them   *)
(* (64-byte alignment, 64-bit size_t, no footers, no locks, one space):       *)
(* chunks with boundary tags, small bins, tree bins, designated victim, top.  *)
(* Sizes and addresses count words of size_t, so alignment is 8.              *)
(*                                                                            *)
(* m is the malloc_state together with the tags it keeps in memory:           *)
(*   head    chunk |-> [size, c, p]: head field with CINUSE and PINUSE        *)
(*   foot    chunk |-> prev_foot, kept while it is meaningful                 *)
(*   small   size |-> chunks of that bin, most recently binned first; an      *)
(*           empty sequence is a clear bit of smallmap                        *)
(*   tree    bin |-> (path |-> chain): a node of the trie is the path of      *)
(*           child indices that leads to it; its chain lists the chunks of    *)
(*           its size, the one in the tree first, then oldest to newest       *)
(*   seg     segment records, the one of top first                            *)
(*   dv, dvsize, top, topsize, least_addr, footprint, max_footprint,          *)
(*   footprint_limit as in the code; 0 is the null pointer                    *)
(* The second part has the calls; its state is                                *)
(*   m       the allocator as above                                           *)
(*   mparams granularity and mmap_threshold                                   *)
(*   blocks  what the driver has handed out: records [base, size]             *)
(*   live    chunk |-> the chunk size that what its owner asked for needs     *)
EXTENDS Integers, Sequences, FiniteSets, SequencesExt, FiniteSetsExt, TLC

MALLOC_ALIGNMENT == 8
MIN_CHUNK_SIZE == 8
CHUNK_OVERHEAD == 1
MMAP_FOOT_PAD == 4
MIN_LARGE_SIZE == 32
MIN_REQUEST == 7
NTREEBINS == 32

AlignUp(n, a) == ((n + a - 1) \div a) * a
align_offset(a) == (-a) % MALLOC_ALIGNMENT
chunk2mem(p) == p + 2
mem2chunk(mem) == mem - 2
align_as_chunk(a) == a + align_offset(chunk2mem(a))
pad_request(req) == AlignUp(req + CHUNK_OVERHEAD, MALLOC_ALIGNMENT)
request2size(req) == IF req < MIN_REQUEST THEN MIN_CHUNK_SIZE ELSE pad_request(req)
SEGMENT_SIZE == pad_request(4)
TOP_FOOT_SIZE == align_offset(chunk2mem(0)) + SEGMENT_SIZE + MIN_CHUNK_SIZE

is_small(s) == s < MIN_LARGE_SIZE
cinuse(m, p) == m.head[p].c
pinuse(m, p) == m.head[p].p
is_mmapped(m, p) == ~m.head[p].c /\ ~m.head[p].p
is_inuse(m, p) == m.head[p].c \/ ~m.head[p].p
chunksize(m, p) == m.head[p].size
next_chunk(m, p) == p + chunksize(m, p)
fencepost == [size |-> 1, c |-> TRUE, p |-> TRUE]

-----------------------------------------------------------------------------
(* Writing tags.  A chunk that is merged into a neighbour loses its tags;     *)
(* setting PINUSE of the next chunk gives its prev_foot to the user.          *)
Without(f, S) == [x \in DOMAIN f \ S |-> f[x]]
SetHead(m, p, s, c, pin) ==
  [m EXCEPT !.head = (p :> [size |-> s, c |-> c, p |-> pin]) @@ @]
MergedAway(m, p) == [m EXCEPT !.head = Without(@, {p}), !.foot = Without(@, {p})]
OldPinuse(m, p) == p \in DOMAIN m.head /\ m.head[p].p

set_pinuse(m, n) ==
  [m EXCEPT !.head = (n :> [(IF n \in DOMAIN @ THEN @[n] ELSE [size |-> 0, c |-> FALSE, p |-> FALSE])
                              EXCEPT !.p = TRUE]) @@ @,
            !.foot = Without(@, {n})]
clear_pinuse(m, n) == [m EXCEPT !.head[n].p = FALSE]
set_inuse(m, p, s) == set_pinuse(SetHead(m, p, s, TRUE, OldPinuse(m, p)), p + s)
set_inuse_and_pinuse(m, p, s) == set_pinuse(SetHead(m, p, s, TRUE, TRUE), p + s)
set_size_and_pinuse_of_inuse_chunk(m, p, s) == SetHead(m, p, s, TRUE, TRUE)
set_size_and_pinuse_of_free_chunk(m, p, s) ==
  [SetHead(m, p, s, FALSE, TRUE) EXCEPT !.foot = ((p + s) :> s) @@ @]
\* mutant: the next chunk keeps its PINUSE
set_free_with_pinuse_NoClear(m, p, s, n) == set_size_and_pinuse_of_free_chunk(m, p, s)
set_free_with_pinuse(m, p, s, n) ==
  set_size_and_pinuse_of_free_chunk(clear_pinuse(m, n), p, s)

-----------------------------------------------------------------------------
(* Small bins: insertion and unlink_first at the front.                       *)
insert_small_chunk(m, p, s) == [m EXCEPT !.small[s] = <<p>> \o @]
unlink_small_chunk(m, p, s) ==
  [m EXCEPT !.small[s] = SelectSeq(@, LAMBDA q : q # p)]
replace_dv(m, p, s) ==
  [(IF m.dvsize # 0 THEN insert_small_chunk(m, m.dv, m.dvsize) ELSE m)
     EXCEPT !.dv = p, !.dvsize = s]

-----------------------------------------------------------------------------
(* Tree bins.  A bin holds half a power of two; level d of its trie branches  *)
(* on the d-th bit below the two that select the bin.                         *)
Log2(n) == CHOOSE k \in 0..20 : 2^k <= n /\ n < 2^(k + 1)
TreeIndex(s, k) == IF k > 15 THEN NTREEBINS - 1 ELSE 2 * k + ((s \div 2^(k + 4)) % 2)
compute_tree_index(s) == TreeIndex(s, Log2(s \div MIN_LARGE_SIZE))
minsize_for_tree_index(i) == 2^((i \div 2) + 5) + (i % 2) * 2^((i \div 2) + 4)

SizeBit(s, i, d) ==
  LET e == (i \div 2) + 3 - d IN IF e < 0 THEN 0 ELSE (s \div 2^e) % 2
Key(s, i, n) == [d \in 1..n |-> SizeBit(s, i, d - 1)]
NodeSize(m, t, path) == chunksize(m, t[path][1])
Below(t, path) == {q \in DOMAIN t : IsStrictPrefix(path, q)}
ChildIn(t, path, b) == Append(path, b) \in DOMAIN t

(* Going down from the root, a chunk joins the chain of its size or becomes   *)
(* the first missing child.                                                   *)
Joined(t, path, x) ==
  (path :> Append(IF path \in DOMAIN t THEN t[path] ELSE <<>>, x)) @@ t
PlaceFor(m, t, i, s) ==
  Key(s, i, Min({k \in 0..Cardinality(DOMAIN t) :
                   \/ Key(s, i, k) \notin DOMAIN t
                   \/ NodeSize(m, t, Key(s, i, k)) = s}))
InsertInBin(m, i, x, s) ==
  [m EXCEPT !.tree[i] = Joined(@, PlaceFor(m, @, i, s), x)]
insert_large_chunk(m, x, s) == InsertInBin(m, compute_tree_index(s), x, s)

(* The leaf reached through child 1 wherever there is one.                    *)
RightmostLeaf(t, path) ==
  CHOOSE q \in Below(t, path) :
    /\ Below(t, q) = {}
    /\ \A k \in Len(path)..(Len(q) - 1) :
         q[k + 1] = 1 \/ ~ChildIn(t, SubSeq(q, 1, k), 1)

MovedUp(t, path, leaf) == Without([t EXCEPT ![path] = t[leaf]], {leaf})
(* rest is what remains of the chain at path.                                 *)
Unlinked(t, path, rest) ==
  IF rest # <<>> THEN [t EXCEPT ![path] = rest]
  ELSE IF Below(t, path) = {} THEN Without(t, {path})
  ELSE MovedUp(t, path, RightmostLeaf(t, path))
UnlinkAt(t, path, x) == Unlinked(t, path, SelectSeq(t[path], LAMBDA y : y # x))
PathOf(t, x) == CHOOSE q \in DOMAIN t : \E j \in DOMAIN t[q] : t[q][j] = x
unlink_large_chunk(m, x) ==
  [m EXCEPT !.tree[compute_tree_index(chunksize(m, x))] = UnlinkAt(@, PathOf(@, x), x)]

insert_chunk(m, p, s) ==
  IF is_small(s) THEN insert_small_chunk(m, p, s) ELSE insert_large_chunk(m, p, s)
unlink_chunk(m, p, s) ==
  IF is_small(s) THEN unlink_small_chunk(m, p, s) ELSE unlink_large_chunk(m, p)

(* The nodes met by following leftmost_child from path.                       *)
LeftmostWalk(t, path) ==
  {q \in DOMAIN t :
     /\ IsPrefix(path, q)
     /\ \A k \in Len(path)..(Len(q) - 1) :
          q[k + 1] = 0 \/ ~ChildIn(t, SubSeq(q, 1, k), 0)}
SmallestOf(m, t, fits) ==
  IF fits = {} THEN 0
  ELSE t[CHOOSE q \in fits : \A r \in fits : NodeSize(m, t, q) <= NodeSize(m, t, r)][1]
SmallestFit(m, t, paths, nb) == SmallestOf(m, t, {q \in paths : NodeSize(m, t, q) >= nb})
MarkedBins(m) == {i \in DOMAIN m.tree : m.tree[i] # <<>>}

(* The least of the first marked bin of left, if any.                         *)
LeastOf(m, t, nb) == SmallestFit(m, t, LeftmostWalk(t, <<>>), nb)
FromNextBin(m, left, nb) == IF left = {} THEN 0 ELSE LeastOf(m, m.tree[Min(left)], nb)
OrNextBin(m, idx, nb, v) ==
  IF v # 0 THEN v ELSE FromNextBin(m, {i \in MarkedBins(m) : i > idx}, nb)

(* The search of tmalloc_large: down the path of nb, then the deepest right   *)
(* subtree not taken, or else the next marked bin.                            *)
OnPath(t, idx, nb) == {q \in DOMAIN t : q = Key(nb, idx, Len(q))}
\* mutant: the right subtrees beside the path of nb are not searched
Untaken_None(t, idx, nb, visited) == {}
Untaken(t, idx, nb, visited) ==
  {q \in visited : SizeBit(nb, idx, Len(q)) = 0 /\ ChildIn(t, q, 1)}
Deepest(paths) == CHOOSE q \in paths : \A r \in paths : Len(r) <= Len(q)
SearchBeside(m, t, idx, nb, visited, untaken) ==
  IF untaken = {} THEN OrNextBin(m, idx, nb, SmallestFit(m, t, visited, nb))
  ELSE SmallestFit(m, t, visited \union LeftmostWalk(t, Append(Deepest(untaken), 1)), nb)
SearchBin(m, t, idx, nb, visited) ==
  SearchBeside(m, t, idx, nb, visited, Untaken(t, idx, nb, visited))
best_large(m, nb) ==
  LET idx == compute_tree_index(nb)
      t == m.tree[idx]
  IN SearchBin(m, t, idx, nb, OnPath(t, idx, nb))

(* The search of tmalloc_small: the first marked bin has only larger chunks.  *)
best_small(m, nb) == LeastOf(m, m.tree[Min(MarkedBins(m))], nb)
------------------------------------------------------------------------------

CONSTANTS
  PageSize,      \* page size
  Granularities, \* unit of requests to the driver: default first chosen
  Thresholds,    \* values of mmap_threshold
  Bases,         \* addresses at which the driver may map a block
  MaxBlocks,     \* blocks the driver can have mapped at once
  DriverFails,   \* whether calls are made that find the driver out of memory
  Requests,      \* sizes asked for
  Elements,      \* sizes of array elements and of aligned blocks
  MaxLive,       \* blocks a program holds when it allocates another
  MaxRequest,    \* MAX_REQUEST: from here on a request always fails
  Aligns,        \* alignments asked for
  Pads,          \* arguments of malloc_trim
  Limits         \* arguments of malloc_set_footprint_limit

VARIABLES m, mparams, blocks, live
vars == <<m, mparams, blocks, live>>

NULL == 0
MAX_SIZE_T == 2^20
MAX_SMALL_REQUEST == MIN_LARGE_SIZE - MALLOC_ALIGNMENT - CHUNK_OVERHEAD
granularity_align(s) == AlignUp(s, mparams.granularity)

-----------------------------------------------------------------------------
(* The driver.  cm_free takes the whole mapping that holds the address, and   *)
(* the munmap that dlmalloc calls reports success whatever happened.          *)
Holds(b, a) == b.base <= a /\ a < b.base + b.size
Disjoint(b, c) == b.base + b.size <= c.base \/ c.base + c.size <= b.base
cm_alloc(n) ==
  LET room == IF Cardinality(blocks) >= MaxBlocks THEN {}
              ELSE {a \in Bases : \A b \in blocks : Disjoint(b, [base |-> a, size |-> n])}
  IN room \union (IF DriverFails THEN {NULL} ELSE {})
Mapped(B, base, size) ==
  IF base = NULL THEN B ELSE B \union {[base |-> base, size |-> size]}
cm_free(B, addr) == {b \in B : ~Holds(b, addr)}

-----------------------------------------------------------------------------
(* Segments and top                                                           *)
init_top(s, p, psize) ==
  LET off == align_offset(chunk2mem(p))
      q == p + off
      qsize == psize - off
  IN [SetHead(SetHead(s, q, qsize, FALSE, TRUE), q + qsize, TOP_FOOT_SIZE, FALSE, FALSE)
        EXCEPT !.top = q, !.topsize = qsize]

(* The old top becomes a free chunk followed by the record of its segment and *)
(* fenceposts, of which only the first is ever looked at.                     *)
add_segment(s, tbase, tsize) ==
  LET old_top == s.top
      oldsp == CHOOSE g \in Range(s.seg) : Holds(g, old_top)
      old_end == oldsp.base + oldsp.size
      asp == align_as_chunk(old_end - (SEGMENT_SIZE + 4 + MALLOC_ALIGNMENT - 1))
      csp == IF asp < old_top + MIN_CHUNK_SIZE THEN old_top ELSE asp
      s1 == MergedAway(MergedAway(s, old_top), old_top + s.topsize)
      s2 == init_top(s1, tbase, tsize - TOP_FOOT_SIZE)
      s3 == set_size_and_pinuse_of_inuse_chunk(s2, csp, SEGMENT_SIZE)
      s4 == SetHead(s3, csp + SEGMENT_SIZE, fencepost.size, TRUE, TRUE)
      s5 == [s4 EXCEPT !.seg = <<[base |-> tbase, size |-> tsize]>> \o @]
  IN IF csp = old_top THEN s5
     ELSE insert_chunk(set_free_with_pinuse(s5, old_top, csp - old_top, csp),
                       old_top, csp - old_top)

Grown(s, n) == [s EXCEPT !.footprint = @ + n, !.max_footprint = Max({@, s.footprint + n})]
SplitTop(s, nb) ==
  LET p == s.top
      s1 == SetHead(s, p + nb, s.topsize - nb, FALSE, TRUE)
  IN [set_size_and_pinuse_of_inuse_chunk(s1, p, nb)
        EXCEPT !.top = p + nb, !.topsize = @ - nb]

(* Whether nb is mapped on its own, and the words asked of the driver; 0 when *)
(* the request fails without asking.                                          *)
WithinLimit(s, n) == s.footprint_limit = 0 \/ s.footprint + n <= s.footprint_limit
mmsize(nb) == AlignUp(nb + 6 + MALLOC_ALIGNMENT - 1, PageSize)
asize(nb) == granularity_align(nb + TOP_FOOT_SIZE + MALLOC_ALIGNMENT)
Direct(s, nb, use_mmap) ==
  use_mmap /\ nb >= mparams.mmap_threshold /\ s.topsize # 0 /\ WithinLimit(s, mmsize(nb))
SystemRequest(s, nb, use_mmap) ==
  IF nb = MAX_SIZE_T THEN 0
  ELSE IF Direct(s, nb, use_mmap) THEN mmsize(nb)
  ELSE IF WithinLimit(s, asize(nb)) THEN asize(nb) ELSE 0

\* mutant: no room is left for the fenceposts
mmap_alloc_Short(s, nb, mm) ==
  LET off == align_offset(chunk2mem(mm))
      p == mm + off
      psize == mmsize(nb) - off
      s1 == SetHead(SetHead(s, p, psize, FALSE, FALSE), p + psize, fencepost.size, TRUE, TRUE)
      s2 == [s1 EXCEPT !.foot = (p :> off) @@ @,
                       !.least_addr = IF @ = 0 \/ mm < @ THEN mm ELSE @]
  IN [m |-> Grown(s2, mmsize(nb)), p |-> p]
mmap_alloc(s, nb, mm) ==
  LET off == align_offset(chunk2mem(mm))
      p == mm + off
      psize == mmsize(nb) - off - MMAP_FOOT_PAD
      s1 == SetHead(SetHead(s, p, psize, FALSE, FALSE), p + psize, fencepost.size, TRUE, TRUE)
      s2 == [s1 EXCEPT !.foot = (p :> off) @@ @,
                       !.least_addr = IF @ = 0 \/ mm < @ THEN mm ELSE @]
  IN [m |-> Grown(s2, mmsize(nb)), p |-> p]

(* tbase is what cm_alloc returned; it is compared with MFAIL, which cm_alloc *)
(* never returns, so NULL is used like any other base.                        *)
sys_alloc(s, nb, use_mmap, tbase) ==
  LET tsize == asize(nb)
      fresh == [s EXCEPT !.seg = <<[base |-> tbase, size |-> tsize]>>]
      low == [Grown(IF s.top = 0 THEN fresh ELSE s, tsize)
                EXCEPT !.least_addr = IF @ = 0 \/ tbase < @ THEN tbase ELSE @]
      room == IF s.top = 0 THEN init_top(low, tbase, tsize - TOP_FOOT_SIZE)
              ELSE add_segment(low, tbase, tsize)
  IN IF SystemRequest(s, nb, use_mmap) = 0 THEN [m |-> s, p |-> NULL]
     ELSE IF Direct(s, nb, use_mmap) THEN mmap_alloc(s, nb, tbase)
     ELSE IF nb < room.topsize THEN [m |-> SplitTop(room, nb), p |-> room.top]
     ELSE [m |-> room, p |-> NULL]

-----------------------------------------------------------------------------
(* Allocation from what the allocator holds                                   *)
SplitChunk(s, p, size, nb) ==
  set_size_and_pinuse_of_free_chunk(
    set_size_and_pinuse_of_inuse_chunk(s, p, nb), p + nb, size - nb)

TakeLarge(s, nb, v) ==
  LET size == chunksize(s, v)
      s1 == unlink_large_chunk(s, v)
  IN IF v = 0 THEN [m |-> s, p |-> NULL]
     ELSE IF s.dvsize >= nb /\ size >= s.dvsize THEN [m |-> s, p |-> NULL]
     ELSE IF size - nb < MIN_CHUNK_SIZE THEN [m |-> set_inuse_and_pinuse(s1, v, size), p |-> v]
     ELSE [m |-> insert_chunk(SplitChunk(s1, v, size, nb), v + nb, size - nb), p |-> v]
tmalloc_large(s, nb) == TakeLarge(s, nb, best_large(s, nb))

TakeSmall(s, nb, v) ==
  LET size == chunksize(s, v)
      s1 == unlink_large_chunk(s, v)
  IN IF size - nb < MIN_CHUNK_SIZE THEN [m |-> set_inuse_and_pinuse(s1, v, size), p |-> v]
     ELSE [m |-> replace_dv(SplitChunk(s1, v, size, nb), v + nb, size - nb), p |-> v]
tmalloc_small(s, nb) == TakeSmall(s, nb, best_small(s, nb))

(* Bins are 8 bytes apart and sizes 64, so the neighbouring bin that a        *)
(* remainderless fit may also use is always empty.                            *)
FromSmallBin(s, i, nb) ==
  LET p == s.small[i][1]
      s1 == [s EXCEPT !.small[i] = Tail(@)]
  IN IF i = nb THEN [m |-> set_inuse_and_pinuse(s1, p, i), p |-> p]
     ELSE [m |-> replace_dv(SplitChunk(s1, p, i, nb), p + nb, i - nb), p |-> p]

FromDvOrTop(s, nb) ==
  LET p == s.dv
  IN IF nb <= s.dvsize /\ s.dvsize - nb >= MIN_CHUNK_SIZE
     THEN [m |-> [SplitChunk(s, p, s.dvsize, nb)
                    EXCEPT !.dv = p + nb, !.dvsize = @ - nb], p |-> p]
     ELSE IF nb <= s.dvsize
     THEN [m |-> [set_inuse_and_pinuse(s, p, s.dvsize) EXCEPT !.dv = 0, !.dvsize = 0],
           p |-> p]
     ELSE IF nb < s.topsize THEN [m |-> SplitTop(s, nb), p |-> s.top]
     ELSE [m |-> s, p |-> NULL]

NbOf(bytes) ==
  IF bytes <= MAX_SMALL_REQUEST THEN request2size(bytes)
  ELSE IF bytes >= MaxRequest THEN MAX_SIZE_T ELSE pad_request(bytes)

OrElse(first, second) == IF first.p # NULL THEN first ELSE second
HeldAlloc(s, bytes) ==
  LET nb == NbOf(bytes)
      bins == {i \in DOMAIN s.small : i >= nb /\ s.small[i] # <<>>}
  IN IF bytes <= MAX_SMALL_REQUEST
     THEN IF nb \in bins THEN FromSmallBin(s, nb, nb)
          ELSE IF nb > s.dvsize /\ bins # {} THEN FromSmallBin(s, Min(bins), nb)
          ELSE IF nb > s.dvsize /\ MarkedBins(s) # {} THEN tmalloc_small(s, nb)
          ELSE FromDvOrTop(s, nb)
     ELSE IF nb < MAX_SIZE_T /\ MarkedBins(s) # {}
     THEN OrElse(tmalloc_large(s, nb), FromDvOrTop(s, nb))
     ELSE FromDvOrTop(s, nb)

(* The words malloc asks of the driver, 0 for none, and malloc with the       *)
(* driver's answer.                                                           *)
Asks(s, bytes, use_mmap) ==
  IF HeldAlloc(s, bytes).p # NULL THEN 0 ELSE SystemRequest(s, NbOf(bytes), use_mmap)
internal_malloc(s, bytes, use_mmap, tbase) ==
  OrElse(HeldAlloc(s, bytes), sys_alloc(s, NbOf(bytes), use_mmap, tbase))
Answers(n) == IF n = 0 THEN {NULL} ELSE cm_alloc(n)

-----------------------------------------------------------------------------
(* Giving back.  h is a record [m, B]: the allocator and the driver's blocks. *)
\* mutant: the footprint keeps what was unmapped
FreeMmapped_NoCount(h, p) ==
  [m |-> MergedAway(MergedAway(h.m, p), p + chunksize(h.m, p)),
   B |-> cm_free(h.B, p - h.m.foot[p])]
FreeMmapped(h, p) ==
  LET prevsize == h.m.foot[p]
      psize == chunksize(h.m, p)
      gone == MergedAway(MergedAway(h.m, p), p + psize)
  IN [m |-> [gone EXCEPT !.footprint = @ - (psize + prevsize + MMAP_FOOT_PAD)],
      B |-> cm_free(h.B, p - prevsize)]

(* Consolidation with the free chunk in front, if any, then with what follows *)
(* (s1 is the state after the first), then dv, top or a bin.                  *)
ConsolidateNext(s, s1, p, psize, toDv) ==
  LET next == p + psize
      nsize == chunksize(s, next)
      s2 == set_size_and_pinuse_of_free_chunk(
              MergedAway(unlink_chunk(s1, next, nsize), next), p, psize + nsize)
  IN IF next = s.top
     THEN [SetHead(MergedAway(s1, next), p, s.topsize + psize, FALSE, TRUE)
             EXCEPT !.top = p, !.topsize = @ + psize,
                    !.dv = IF toDv THEN 0 ELSE @, !.dvsize = IF toDv THEN 0 ELSE @]
     ELSE IF next = s.dv
     THEN [set_size_and_pinuse_of_free_chunk(MergedAway(s1, next), p, s.dvsize + psize)
             EXCEPT !.dv = p, !.dvsize = @ + psize]
     ELSE IF ~cinuse(s, next)
     THEN IF toDv THEN [s2 EXCEPT !.dvsize = psize + nsize]
          ELSE insert_chunk(s2, p, psize + nsize)
     ELSE IF toDv THEN [set_free_with_pinuse(s1, p, psize, next) EXCEPT !.dvsize = psize]
     ELSE insert_chunk(set_free_with_pinuse(s1, p, psize, next), p, psize)
Consolidate(s, q, qsize) ==
  LET prevsize == s.foot[q]
      p == q - prevsize
      free == IF p = s.dv THEN s ELSE unlink_chunk(s, p, prevsize)
  IN IF pinuse(s, q) THEN ConsolidateNext(s, s, q, qsize, FALSE)
     ELSE ConsolidateNext(s, MergedAway(free, q), p, qsize + prevsize, p = s.dv)

dispose_chunk(h, p) ==
  IF is_mmapped(h.m, p) THEN FreeMmapped(h, p)
  ELSE [h EXCEPT !.m = Consolidate(h.m, p, chunksize(h.m, p))]

(* Cutting the in-use chunk p at nb and giving the rest back.                 *)
GiveTail(h, p, nb) ==
  LET rest == chunksize(h.m, p) - nb
  IN dispose_chunk([h EXCEPT !.m = set_inuse(set_inuse(h.m, p, nb), p + nb, rest)], p + nb)

(* The result keeps p (ok) or the chunk cannot be resized where it is.        *)
mmap_resize(h, p, nb) ==
  LET oldsize == chunksize(h.m, p)
  IN [h |-> h, ok |-> /\ ~is_small(nb)
                      /\ oldsize >= nb + 1
                      /\ oldsize - nb <= 2 * mparams.granularity]

try_realloc_chunk(h, p, nb) ==
  LET s == h.m
      oldsize == chunksize(s, p)
      next == p + oldsize
      avail == oldsize + chunksize(s, next)
      grown == MergedAway(s, next)
      whole == [h EXCEPT !.m = set_inuse(unlink_chunk(s, next, chunksize(s, next)), p, avail)]
      merged == [whole EXCEPT !.m = MergedAway(@, next)]
  IN IF is_mmapped(s, p) THEN mmap_resize(h, p, nb)
     ELSE IF oldsize >= nb
     THEN [h |-> IF oldsize - nb >= MIN_CHUNK_SIZE THEN GiveTail(h, p, nb) ELSE h, ok |-> TRUE]
     ELSE IF next = s.top /\ avail > nb
     THEN [h |-> [h EXCEPT !.m =
                    [SetHead(set_inuse(grown, p, nb), p + nb, avail - nb, FALSE, TRUE)
                       EXCEPT !.top = p + nb, !.topsize = avail - nb]], ok |-> TRUE]
     ELSE IF next = s.top THEN [h |-> h, ok |-> FALSE]
     ELSE IF next = s.dv /\ avail >= nb + MIN_CHUNK_SIZE
     THEN [h |-> [h EXCEPT !.m =
                    [clear_pinuse(set_size_and_pinuse_of_free_chunk(
                        set_inuse(grown, p, nb), p + nb, avail - nb), p + avail)
                       EXCEPT !.dv = p + nb, !.dvsize = avail - nb]], ok |-> TRUE]
     ELSE IF next = s.dv /\ avail >= nb
     THEN [h |-> [h EXCEPT !.m = [set_inuse(grown, p, avail)
                                    EXCEPT !.dv = 0, !.dvsize = 0]], ok |-> TRUE]
     ELSE IF next # s.dv /\ ~cinuse(s, next) /\ avail >= nb
     THEN [h |-> IF avail - nb < MIN_CHUNK_SIZE THEN merged ELSE GiveTail(merged, p, nb),
           ok |-> TRUE]
     ELSE [h |-> h, ok |-> FALSE]

\* mutant: the next place for a chunk, not the next aligned one
AlignedPos_Near(p, alignment) ==
  IF chunk2mem(p) % alignment = 0 THEN p ELSE p + MIN_CHUNK_SIZE
(* The first aligned place in p whose lead is nothing or a whole chunk.       *)
AlignedPos(p, alignment) ==
  LET br == mem2chunk(AlignUp(chunk2mem(p), alignment))
  IN IF chunk2mem(p) % alignment = 0 THEN p
     ELSE IF br - p >= MIN_CHUNK_SIZE THEN br ELSE br + alignment
CutTail(h, p, nb) ==
  IF ~is_mmapped(h.m, p) /\ chunksize(h.m, p) > nb + MIN_CHUNK_SIZE THEN GiveTail(h, p, nb) ELSE h
(* Moving an over-allocated chunk p there.                                    *)
AlignChunk(h, p, alignment, nb) ==
  LET s == h.m
      pos == AlignedPos(p, alignment)
      lead == pos - p
      size == chunksize(s, p) - lead
      moved == [h EXCEPT !.m = SetHead([MergedAway(s, p) EXCEPT !.foot = (pos :> (s.foot[p] + lead)) @@ @],
                                       pos, size, FALSE, FALSE)]
      cut == dispose_chunk([h EXCEPT !.m = set_inuse(set_inuse(s, pos, size), p, lead)], p)
  IN [h |-> CutTail(IF lead = 0 THEN h ELSE IF is_mmapped(s, p) THEN moved ELSE cut, pos, nb),
      p |-> pos]

-----------------------------------------------------------------------------
(* Trimming.  A segment other than top's that is one free chunk is unmapped.  *)
ReleaseSegment(h, g) ==
  LET p == align_as_chunk(g.base)
      psize == chunksize(h.m, p)
      record == p + psize
      s1 == IF p = h.m.dv THEN [h.m EXCEPT !.dv = 0, !.dvsize = 0]
            ELSE unlink_large_chunk(h.m, p)
      s2 == MergedAway(MergedAway(MergedAway(s1, p), record), record + SEGMENT_SIZE)
  IN IF is_inuse(h.m, p) \/ record < g.base + g.size - TOP_FOOT_SIZE THEN h
     ELSE [m |-> [s2 EXCEPT !.footprint = @ - g.size,
                            !.seg = SelectSeq(@, LAMBDA x : x # g)],
           B |-> cm_free(h.B, g.base)]
release_unused_segments(h) == FoldLeft(ReleaseSegment, h, Tail(h.m.seg))

(* has_segment_link never holds: every record lies in its own segment.        *)
ShrinkTop(h, pad) ==
  LET unit == mparams.granularity
      extra == ((h.m.topsize - pad + unit - 1) \div unit - 1) * unit
      i == CHOOSE j \in DOMAIN h.m.seg : Holds(h.m.seg[j], h.m.top)
      sp == h.m.seg[i]
      top_foot == h.m.top + h.m.topsize
      shrunk == [MergedAway(h.m, top_foot) EXCEPT !.seg[i].size = @ - extra,
                                                  !.footprint = @ - extra]
  IN IF h.m.topsize <= pad \/ sp.size < extra THEN h
     ELSE [m |-> IF extra = 0 THEN h.m
                 ELSE init_top(shrunk, h.m.top, h.m.topsize - extra),
           B |-> cm_free(h.B, sp.base + sp.size - extra)]
sys_trim(h, pad) ==
  IF pad < MaxRequest /\ h.m.top # 0
  THEN release_unused_segments(ShrinkTop(h, pad + TOP_FOOT_SIZE)) ELSE h

-----------------------------------------------------------------------------
(* The calls                                                                  *)
Heap == [m |-> m, B |-> blocks]
Becomes(h) == m' = h.m /\ blocks' = h.B

(* malloc(bytes): what it may leave and return, the driver choosing tbase for *)
(* the n words it is asked for.                                               *)
Outcome(r, tbase, n) == [h |-> [m |-> r.m, B |-> Mapped(blocks, tbase, n)], p |-> r.p]
Outcomes(bytes, use_mmap, n) ==
  {Outcome(internal_malloc(m, bytes, use_mmap, tbase), tbase, n) : tbase \in Answers(n)}
Allocated(bytes, use_mmap) == Outcomes(bytes, use_mmap, Asks(m, bytes, use_mmap))

Keep(bytes, h, p) ==
  Becomes(h) /\ live' = IF p = NULL THEN live ELSE (p :> request2size(bytes)) @@ live

dlmalloc(bytes) ==
  /\ \E a \in Allocated(bytes, TRUE) : Keep(bytes, a.h, a.p)
  /\ UNCHANGED mparams

(* A product that overflows is turned into a request that cannot succeed.     *)
dlcalloc(n, elem) == dlmalloc(Min({n * elem, MaxRequest}))

(* The configuration never trims here: should_trim is 0 and release_checks    *)
(* starts at the largest size_t.                                              *)
dlfree(p) ==
  /\ p \in DOMAIN live
  /\ Becomes(dispose_chunk(Heap, p))
  /\ live' = Without(live, {p})
  /\ UNCHANGED mparams

dlrealloc(p, bytes) ==
  /\ p \in DOMAIN live
  /\ UNCHANGED mparams
  /\ \E try \in {try_realloc_chunk(Heap, p, request2size(bytes))} :
        IF bytes >= MaxRequest THEN UNCHANGED <<m, blocks, live>>
        ELSE IF try.ok THEN Becomes(try.h) /\ live' = [live EXCEPT ![p] = request2size(bytes)]
        ELSE \E a \in Allocated(bytes, TRUE) :
               IF a.p = NULL THEN Keep(bytes, a.h, NULL)
               ELSE /\ Becomes(dispose_chunk(a.h, p))
                    /\ live' = (a.p :> request2size(bytes)) @@ Without(live, {p})

dlrealloc_in_place(p, bytes) ==
  /\ p \in DOMAIN live
  /\ UNCHANGED mparams
  /\ \E try \in {try_realloc_chunk(Heap, p, request2size(bytes))} :
        IF bytes < MaxRequest /\ try.ok
        THEN Becomes(try.h) /\ live' = [live EXCEPT ![p] = request2size(bytes)]
        ELSE UNCHANGED <<m, blocks, live>>

(* Alignments that are not a power of two are raised to one.                  *)
internal_memalign(align, bytes) ==
  LET nb == request2size(bytes)
      alignment == Min({2^k : k \in 3..10} \ {a \in 1..1024 : a < align})
  IN /\ UNCHANGED mparams
     /\ IF bytes >= MaxRequest - alignment THEN UNCHANGED <<m, blocks, live>>
        ELSE \E a \in Allocated(nb + alignment + MIN_CHUNK_SIZE - CHUNK_OVERHEAD, TRUE) :
               IF a.p = NULL THEN Keep(bytes, a.h, NULL)
               ELSE \E r \in {AlignChunk(a.h, a.p, alignment, nb)} : Keep(bytes, r.h, r.p)
dlmemalign(align, bytes) ==
  IF align <= MALLOC_ALIGNMENT THEN dlmalloc(bytes) ELSE internal_memalign(align, bytes)
(* EINVAL and ENOMEM change nothing.                                          *)
dlposix_memalign(align, bytes) ==
  IF align = MALLOC_ALIGNMENT THEN dlmalloc(bytes)
  ELSE IF (\E k \in 0..20 : align = 2^k) /\ bytes <= MaxRequest - align
  THEN internal_memalign(Max({align, MIN_CHUNK_SIZE}), bytes)
  ELSE UNCHANGED vars
dlvalloc(bytes) == dlmemalign(PageSize, bytes)
dlpvalloc(bytes) == dlmemalign(PageSize, AlignUp(bytes, PageSize))

(* The elements lie one after the other in a single chunk; the array of       *)
(* pointers, unless the caller supplies it, is the last part of it.           *)
ialloc(sizes, supplied) ==
  LET n == Len(sizes)
      size(i) == request2size(sizes[i])
      at[i \in 1..(n + 1)] == IF i = 1 THEN 0 ELSE at[i - 1] + size(i - 1)
      contents == at[n + 1]
      array == IF supplied THEN 0 ELSE request2size(n)
      Part(h, p, i) ==
        LET end == IF i = n /\ supplied THEN chunksize(h.m, p) ELSE at[i + 1]
        IN [size |-> end - at[i], c |-> TRUE, p |-> TRUE]
      Heads(h, p) == [q \in {p + at[i] : i \in 1..n} |->
                        Part(h, p, CHOOSE i \in 1..n : p + at[i] = q)]
                     @@ (IF supplied THEN <<>>
                         ELSE (p + contents) :> [size |-> chunksize(h.m, p) - contents,
                                                 c |-> TRUE, p |-> TRUE])
      Asked(p) == [q \in {p + at[i] : i \in 1..n} |->
                     size(CHOOSE i \in 1..n : p + at[i] = q)]
                  @@ (IF supplied THEN <<>> ELSE (p + contents) :> array)
  IN /\ UNCHANGED mparams
     /\ IF n = 0 /\ supplied THEN UNCHANGED <<m, blocks, live>>
        ELSE IF n = 0 THEN dlmalloc(0)
        ELSE \E a \in Allocated(contents + array - CHUNK_OVERHEAD, FALSE) :
               IF a.p = NULL THEN Keep(0, a.h, NULL)
               ELSE /\ Becomes([a.h EXCEPT !.m.head = Heads(a.h, a.p) @@ @])
                    /\ live' = Asked(a.p) @@ live
dlindependent_calloc(n, elem, supplied) == ialloc([i \in 1..n |-> elem], supplied)
dlindependent_comalloc(sizes, supplied) == ialloc(sizes, supplied)

(* A chunk followed in the array by its neighbour is merged into it first.    *)
BulkStep(acc, i) ==
  LET p == acc.array[i]
      next == next_chunk(acc.h.m, p)
      both == chunksize(acc.h.m, p) + chunksize(acc.h.m, next)
  IN IF i < Len(acc.array) /\ acc.array[i + 1] = next
     THEN [h |-> [acc.h EXCEPT !.m = MergedAway(set_inuse(@, p, both), next)],
           array |-> [acc.array EXCEPT ![i + 1] = p]]
     ELSE [acc EXCEPT !.h = dispose_chunk(acc.h, p)]
dlbulk_free(array) ==
  /\ IsInjective(array) /\ Range(array) \subseteq DOMAIN live
  /\ Becomes(FoldLeft(BulkStep, [h |-> Heap, array |-> array],
                      [i \in 1..Len(array) |-> i]).h)
  /\ live' = Without(live, Range(array))
  /\ UNCHANGED mparams

dlmalloc_trim(pad) == Becomes(sys_trim(Heap, pad)) /\ UNCHANGED <<mparams, live>>

(* 0 is meant as the smallest limit, but the second test overwrites it.       *)
dlmalloc_set_footprint_limit(bytes) ==
  /\ m' = [m EXCEPT !.footprint_limit =
             IF bytes = MAX_SIZE_T THEN 0 ELSE granularity_align(bytes)]
  /\ UNCHANGED <<mparams, blocks, live>>

change_mparam(param, value) ==
  /\ param = "M_GRANULARITY" => value >= PageSize /\ \E k \in 0..20 : value = 2^k
  /\ mparams' = IF param = "M_GRANULARITY" THEN [mparams EXCEPT !.granularity = value]
                ELSE [mparams EXCEPT !.mmap_threshold = value]
  /\ UNCHANGED <<m, blocks, live>>

Empty ==
  [head |-> <<>>, foot |-> <<>>, seg |-> <<>>, small |-> [s \in {8, 16, 24} |-> <<>>],
   tree |-> [i \in 0..(NTREEBINS - 1) |-> <<>>],
   dv |-> 0, dvsize |-> 0, top |-> 0, topsize |-> 0, least_addr |-> 0,
   footprint |-> 0, max_footprint |-> 0, footprint_limit |-> 0]

Init ==
  /\ m = Empty
  /\ mparams = [granularity |-> Min(Granularities), mmap_threshold |-> Max(Thresholds)]
  /\ blocks = {}
  /\ live = <<>>

(* Programs of at most MaxLive blocks, but for the parts of an aggregate.     *)
Allocate ==
  \/ \E bytes \in Requests : dlmalloc(bytes)
  \/ \E n \in 0..2, elem \in Elements : dlcalloc(n, elem)
  \/ \E align \in Aligns, bytes \in Elements :
       dlmemalign(align, bytes) \/ dlposix_memalign(align, bytes)
  \/ \E n \in 0..2, elem \in Elements, supplied \in BOOLEAN :
       dlindependent_calloc(n, elem, supplied)
  \/ \E a \in Elements, b \in Requests, supplied \in BOOLEAN :
       dlindependent_comalloc(<<a, b>>, supplied)
AllocatePages == \E bytes \in Elements : dlvalloc(bytes) \/ dlpvalloc(bytes)
GiveBack ==
  \/ \E p \in DOMAIN live : dlfree(p)
  \/ \E n \in 2..3 : \E array \in [1..n -> DOMAIN live] : dlbulk_free(array)
  \/ \E pad \in Pads : dlmalloc_trim(pad)
Resize ==
  \E p \in DOMAIN live, bytes \in Requests :
    dlrealloc(p, bytes) \/ dlrealloc_in_place(p, bytes)
Configure ==
  \/ \E bytes \in Limits : dlmalloc_set_footprint_limit(bytes)
  \/ \E value \in Granularities : change_mparam("M_GRANULARITY", value)
  \/ \E value \in Thresholds : change_mparam("M_MMAP_THRESHOLD", value)
Next ==
  \/ Cardinality(DOMAIN live) < MaxLive /\ (Allocate \/ AllocatePages)
  \/ GiveBack \/ Resize \/ Configure

Spec == Init /\ [][Next]_vars
-----------------------------------------------------------------------------
(* What dlmalloc promises: the consistency its own do_check_* functions state *)
(* (compiled only with DEBUG, which the repository never sets), and what the  *)
(* owners of the blocks and the driver may rely on.                           *)

Chunks == {p \in DOMAIN m.head : m.head[p] # fencepost /\ p # m.top + m.topsize}
FreeChunks == {p \in Chunks : ~is_inuse(m, p) /\ p # m.top}
TreeChunks == UNION {UNION {Range(m.tree[i][q]) : q \in DOMAIN m.tree[i]} : i \in DOMAIN m.tree}
SmallChunks == UNION {Range(m.small[s]) : s \in DOMAIN m.small}

(* The chunks a walk through a segment from its base meets, size by size.     *)
RECURSIVE Walk(_, _)
Walk(g, q) ==
  IF ~Holds(g, q) \/ q = m.top \/ q \notin DOMAIN m.head \/ m.head[q] = fencepost THEN {}
  ELSE {q} \union Walk(g, next_chunk(m, q))
Walked == UNION {Walk(g, align_as_chunk(g.base)) : g \in Range(m.seg)}
TotalSize(chunks) == MapThenSumSet(LAMBDA p : chunksize(m, p), chunks)

traverse_and_check == m.topsize + TOP_FOOT_SIZE + TotalSize(Walked)
(* What malloc_stats prints as the bytes in use.                              *)
internal_malloc_stats ==
  m.footprint - (m.topsize + TOP_FOOT_SIZE) - TotalSize({q \in Walked : ~is_inuse(m, q)})

overhead_for(p) == IF is_mmapped(m, p) THEN 2 * CHUNK_OVERHEAD ELSE CHUNK_OVERHEAD
dlmalloc_usable_size(p) == IF is_inuse(m, p) THEN chunksize(m, p) - overhead_for(p) ELSE 0

do_check_any_chunk(p) == chunk2mem(p) % MALLOC_ALIGNMENT = 0 /\ p >= m.least_addr

do_check_top_chunk ==
  /\ do_check_any_chunk(m.top)
  /\ m.topsize > 0 /\ chunksize(m, m.top) = m.topsize
  /\ pinuse(m, m.top) /\ ~pinuse(m, m.top + m.topsize)
  /\ m.top + m.topsize + TOP_FOOT_SIZE = m.seg[1].base + m.seg[1].size

do_check_mmapped_chunk(p) ==
  /\ ~is_small(chunksize(m, p))
  /\ (chunksize(m, p) + m.foot[p] + MMAP_FOOT_PAD) % PageSize = 0
  /\ m.head[next_chunk(m, p)] = fencepost

do_check_inuse_chunk(p) ==
  /\ is_mmapped(m, p) => do_check_mmapped_chunk(p)
  /\ ~is_mmapped(m, p) =>
       /\ pinuse(m, next_chunk(m, p))
       /\ ~pinuse(m, p) => next_chunk(m, p - m.foot[p]) = p

do_check_free_chunk(p) ==
  /\ ~pinuse(m, next_chunk(m, p))
  /\ chunksize(m, p) % MALLOC_ALIGNMENT = 0
  /\ m.foot[next_chunk(m, p)] = chunksize(m, p)
  /\ pinuse(m, p)
  /\ next_chunk(m, p) # m.top /\ is_inuse(m, next_chunk(m, p))

do_check_treebin(i) ==
  LET t == m.tree[i]
  IN \A q \in DOMAIN t :
       /\ t[q] # <<>> /\ IsInjective(t[q])
       /\ \A j \in DOMAIN t[q] : chunksize(m, t[q][j]) = NodeSize(m, t, q)
       /\ compute_tree_index(NodeSize(m, t, q)) = i
       /\ NodeSize(m, t, q) >= minsize_for_tree_index(i)
       /\ i < NTREEBINS - 1 => NodeSize(m, t, q) < minsize_for_tree_index(i + 1)
       /\ q = Key(NodeSize(m, t, q), i, Len(q))
       /\ \A r \in DOMAIN t : NodeSize(m, t, q) = NodeSize(m, t, r) => q = r
       /\ q # <<>> => Front(q) \in DOMAIN t

do_check_smallbin(s) ==
  IsInjective(m.small[s]) /\ \A j \in DOMAIN m.small[s] : chunksize(m, m.small[s][j]) = s

(* do_check_malloc_state: every chunk has the tags of its kind, no two free   *)
(* chunks touch, the trees are keyed by size, and each free chunk other than  *)
(* top and dv is in exactly the bin of its size.                              *)
CheckMallocState ==
  /\ m.top # 0 => do_check_top_chunk
  /\ \A p \in Chunks :
       /\ do_check_any_chunk(p)
       /\ next_chunk(m, p) \in DOMAIN m.head
       /\ IF p = m.top THEN TRUE
          ELSE IF is_inuse(m, p) THEN do_check_inuse_chunk(p) ELSE do_check_free_chunk(p)
  /\ \A i \in DOMAIN m.tree : do_check_treebin(i)
  /\ \A s \in DOMAIN m.small : do_check_smallbin(s)
  /\ FreeChunks = (SmallChunks \union TreeChunks) \union (IF m.dvsize = 0 THEN {} ELSE {m.dv})
  /\ m.dvsize # 0 => chunksize(m, m.dv) = m.dvsize /\ m.dv \notin SmallChunks \union TreeChunks
  /\ m.footprint <= m.max_footprint

(* A chunk of size request2size(n) has room for n words.                      *)
ASSUME RequestFits ==
  \A n \in 0..100 : request2size(n) >= MIN_CHUNK_SIZE /\ request2size(n) - CHUNK_OVERHEAD >= n

(* Every block of the program lies in memory the driver still has mapped.     *)
LiveMapped ==
  \A p \in DOMAIN live :
    \E b \in blocks : b.base <= p /\ next_chunk(m, p) < b.base + b.size

(* A block the program holds is an in-use chunk with the room it asked for,   *)
(* no other chunk, free or in use, starts inside it, and its memory is mapped *)
(* as long as the program has it.                                             *)
LiveBlocks ==
  /\ LiveMapped
  /\ \A p \in DOMAIN live :
       /\ p \in Chunks /\ is_inuse(m, p)
       /\ dlmalloc_usable_size(p) >= live[p] - CHUNK_OVERHEAD
       /\ \A q \in DOMAIN m.head : ~(p < q /\ q < next_chunk(m, p))

(* The accounts.  The footprint is the memory the driver has handed out, all  *)
(* of which the allocator still knows: none leaks and none is counted twice.  *)
(* The walks of malloc_stats and of the checking code, chunk by chunk from    *)
(* the base of every segment, meet every chunk the heap has outside directly  *)
(* mapped blocks, once: the bytes in use that malloc_stats prints cover the   *)
(* blocks of the program and nothing free, and the unsigned differences do    *)
(* not wrap round, whatever was added, split, trimmed or unmapped before.     *)
FootprintExact ==
  LET direct == {p \in Chunks : is_mmapped(m, p)}
  IN /\ m.footprint = MapThenSumSet(LAMBDA b : b.size, blocks)
     /\ blocks = Range(m.seg) \union
          {[base |-> p - m.foot[p], size |-> chunksize(m, p) + m.foot[p] + MMAP_FOOT_PAD]
             : p \in direct}
     /\ m.top # 0 =>
          /\ Walked = Chunks \ (direct \union {m.top})
          /\ traverse_and_check + TotalSize(direct) <= m.footprint
          /\ internal_malloc_stats + m.topsize + TOP_FOOT_SIZE + TotalSize(FreeChunks)
               = m.footprint
          /\ internal_malloc_stats >= TotalSize(DOMAIN live)

(* The search in the tree bins finds the smallest chunk that fits, whatever   *)
(* order of insertions and removals shaped the tries.                         *)
BestFit ==
  \A nb \in {MIN_LARGE_SIZE + 8 * k : k \in 0..(IF TreeChunks = {} THEN 0 ELSE 8)} :
    LET fits == {chunksize(m, x) : x \in {y \in TreeChunks : chunksize(m, y) >= nb}}
        v == best_large(m, nb)
    IN IF fits = {} THEN v = 0 ELSE v # 0 /\ chunksize(m, v) = Min(fits)

Raised(align) == Min({2^k : k \in 0..10} \ 0..(align - 1))
NewAt(align) == \A p \in DOMAIN live' \ DOMAIN live : chunk2mem(p) % Raised(align) = 0

(* The block a call for aligned memory returns lies at a multiple of the      *)
(* alignment, raised to a power of two, be it cut from a segment or mapped    *)
(* directly (a property of steps).                                            *)
StepAligned ==
  \A bytes \in Elements :
    /\ dlvalloc(bytes) \/ dlpvalloc(bytes) => NewAt(PageSize)
    /\ \A align \in Aligns :
         dlmemalign(align, bytes) \/ dlposix_memalign(align, bytes) => NewAt(align)

(* A call leaves every block it was not given where it is and as large as it  *)
(* was, and never takes memory past the footprint limit.                      *)
CallsAreLocal ==
  [][/\ \A p, q \in DOMAIN live \intersect DOMAIN live' :
          /\ m'.head[p].size # m.head[p].size /\ m'.head[q].size # m.head[q].size => p = q
          /\ live'[p] # live[p] /\ m'.head[q].size # m.head[q].size => p = q
     /\ m'.footprint > m.footprint /\ m.footprint_limit # 0
          => m'.footprint <= m.footprint_limit]_vars

=============================================================================
