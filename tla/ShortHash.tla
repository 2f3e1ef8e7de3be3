----------------------------- MODULE ShortHash -----------------------------
(***************************************************************************)
(* short128_hash in its two versions: the software one and the pipelined   *)
(* demonstration for hardware (short.c of the hash unit).  A byte is       *)
(* narrowed to ByteBits bits, a word to eight of those, and rotations are  *)
(* taken modulo the word; the loads, the tail and the rounds are the code's*)
(***************************************************************************)
EXTENDS Naturals, SequencesExt, Bitwise

CONSTANTS ByteBits, Keys, Seeds, INIT_VAL

VARIABLES key, seed, leftFirst, result

vars == <<key, seed, leftFirst, result>>

WordBits == 8 * ByteBits
Word == 2^WordBits

Rot64(x, k) ==
    LET r == k % WordBits IN ((x * 2^r) % Word) + (x \div 2^(WordBits - r))

(* n bytes of the key from offset at, little-endian *)
Load(at, n) ==
    FoldLeft(LAMBDA sum, i : sum + key[at + i] * 2^(ByteBits * (i - 1)), 0, [i \in 1..n |-> i])

(***************************************************************************)
(* EMIX: y = (y ^ x) + (x = Rot64(x, r)).  In the software macro x is read *)
(* and assigned in one expression without a sequence point, so the left    *)
(* operand may see either value; the pipeline reads stage s - 1.           *)
(***************************************************************************)
EMIX(m, y, x, r, old) ==
    LET rx == Rot64(m[x], r)
    IN [m EXCEPT ![x] = rx, ![y] = ((@ ^^ IF old THEN m[x] ELSE rx) + rx) % Word]

Rounds == << <<"d", "c", 15>>, <<"a", "d", 52>>, <<"b", "a", 26>>,
             <<"c", "b", 51>>, <<"d", "c", 28>>, <<"a", "d", 9>>, <<"b", "a", 47>>,
             <<"c", "b", 54>>, <<"d", "c", 32>>, <<"a", "d", 25>>, <<"b", "a", 63>> >>

(* The switch on the last len < 16 bytes, with its fall-throughs *)
SoftTail(at, len) ==
    LET High(from) == Load(at + from, len - from)
    IN IF len >= 12 THEN <<Load(at, 8), Load(at + 8, 4) + 2^(4 * ByteBits) * High(12)>>
       ELSE IF len >= 8 THEN <<Load(at, 8), High(8)>>
       ELSE IF len >= 4 THEN <<Load(at, 4) + 2^(4 * ByteBits) * High(4), 0>>
       ELSE <<High(0), 0>>

(* memcpy of the bytes into two zeroed words *)
PipeTail(at, len) ==
    LET tmp == [i \in 1..16 |-> IF i <= len THEN key[at + i] ELSE 0]
        W(j) == FoldLeft(LAMBDA s, i : s + tmp[j + i] * 2^(ByteBits * (i - 1)), 0, [i \in 1..8 |-> i])
    IN <<W(0), W(8)>>

(* One turn of the while loop, len bytes before the end of the key *)
Turn(m, len, soft, old) ==
    LET at == Len(key) - len
        w  == IF len >= 16 THEN <<Load(at, 8), Load(at + 8, 8)>>
              ELSE IF soft THEN SoftTail(at, len) ELSE PipeTail(at, len)
        in == [m EXCEPT !["a"] = @ ^^ len, !["b"] = @ ^^ (Word - 1 - len),
                        !["c"] = (@ + w[1]) % Word, !["d"] = (@ + w[2]) % Word]
    IN FoldLeft(LAMBDA v, r : EMIX(v, r[1], r[2], r[3], old), in, Rounds)

Hash(soft, old) ==
    LET turns == [k \in 1..((Len(key) + 15) \div 16) |-> Len(key) - 16 * (k - 1)]
        out   == FoldLeft(LAMBDA m, len : Turn(m, len, soft, old),
                          [a |-> seed, b |-> seed, c |-> INIT_VAL, d |-> INIT_VAL], turns)
    IN <<out.a, out.b>>

short128_hash_soft == Hash(TRUE, leftFirst)
short128_hash_pipe == Hash(FALSE, TRUE)

-----------------------------------------------------------------------------
Init == key \in Keys /\ seed \in Seeds /\ leftFirst \in BOOLEAN /\ result = <<>>

Compute ==
    /\ result = <<>>
    /\ result' = <<short128_hash_soft, short128_hash_pipe>>
    /\ UNCHANGED <<key, seed, leftFirst>>

Next == Compute

Spec == Init /\ [][Next]_vars

-----------------------------------------------------------------------------
(* A key hashes to the same two words in software and in the pipeline, for *)
(* every key length around the block and word boundaries, if the compiler  *)
(* reads the left operand of EMIX first.  If it does not, the software is  *)
(* the pipeline with that other EMIX: loads and tails agree all the same   *)
(* (short128_hash).                                                        *)
VersionsAgree ==
    result # <<>> => /\ leftFirst => result[1] = result[2]
                     /\ ~leftFirst => result[1] = Hash(FALSE, FALSE)
=============================================================================
