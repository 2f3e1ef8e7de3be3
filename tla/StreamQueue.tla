---------------------------- MODULE StreamQueue ----------------------------
(***************************************************************************)
(* What every clocked stream FIFO of LiME promises to the two sides of its *)
(* valid/ready handshake: words leave in the order they entered, none is   *)
(* lost, none is repeated, and at most Capacity of them are inside.  One   *)
(* step is one clock edge; a word may enter and another leave on the same  *)
(* edge.                                                                   *)
(***************************************************************************)
EXTENDS Naturals, Sequences

CONSTANTS Word,      \* what one FIFO entry holds
          Zero,      \* the entry value a reset writes
          NoWord,    \* "nothing was transferred"
          Capacity   \* the number of entries


VARIABLES q,    \* the words inside, oldest first
          put,  \* the word accepted on the last edge, or NoWord
          got   \* the word delivered on the last edge, or NoWord

qvars == <<q, put, got>>

OptWord == Word \cup {NoWord}

Init == q = <<>> /\ put = NoWord /\ got = NoWord

Reset == q' = <<>> /\ put' = NoWord /\ got' = NoWord

\* One clock edge that accepts a (or nothing) and delivers d (or nothing).
\* Acceptance looks at the occupancy before the edge: a full queue accepts
\* nothing even when it delivers.
Edge(a, d) ==
    /\ a # NoWord => Len(q) < Capacity
    /\ d # NoWord => q # <<>> /\ d = Head(q)
    /\ q' = LET rest == IF d # NoWord THEN Tail(q) ELSE q
            IN  IF a # NoWord THEN Append(rest, a) ELSE rest
    /\ put' = a
    /\ got' = d

Next == Reset \/ \E a, d \in OptWord : Edge(a, d)

Spec == Init /\ [][Next]_qvars
=============================================================================
