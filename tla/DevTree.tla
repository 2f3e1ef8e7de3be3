------------------------------ MODULE DevTree ------------------------------
(***************************************************************************)
(* dev_search (shared/linux/devtree.c): the search of a directory tree of  *)
(* the kernel for the inst-th device of a name, and the value of one of    *)
(* its properties.  A directory is a record of its "name" file, the bytes  *)
(* of the property file, and its subdirectories in readdir order; a broken *)
(* one cannot be examined (its name is too long, or stat fails).           *)
(***************************************************************************)
EXTENDS Naturals, SequencesExt

CONSTANTS Trees, Name, Size, Insts

VARIABLES tree, inst, result

vars == <<tree, inst, result>>

(* dev_reverse: big-endian bytes of the file to host order *)
dev_reverse(data) == [i \in 1..Len(data) |-> data[Len(data) - i + 1]]

(* fread of the property: the file may be longer than the buffer *)
Value(dir) == SubSeq(dir.prop, 1, IF Len(dir.prop) < Size THEN Len(dir.prop) ELSE Size)

Matches(dir) == dir.name = Name /\ Len(Value(dir)) = Size

(* A property that is too short is still read into the caller's buffer *)
Clobbered(dir, data) ==
    IF dir.name = Name THEN [i \in 1..Size |-> IF i <= Len(Value(dir)) THEN Value(dir)[i] ELSE data[i]]
    ELSE data

(***************************************************************************)
(* The loop over the entries stops at inst matches or at an entry that     *)
(* cannot be examined.  data is the caller's buffer: a later match         *)
(* overwrites an earlier one.                                              *)
(***************************************************************************)
RECURSIVE dev_search(_, _, _)

Entries(dir, n, data) ==
    FoldLeft(LAMBDA r, kid :
                 IF r.stop \/ r.ret >= n THEN r
                 ELSE IF kid.broken THEN [r EXCEPT !.stop = TRUE]
                 ELSE LET sub == dev_search(kid, n, r.data)
                      IN [r EXCEPT !.ret = @ + sub.ret, !.data = sub.data],
             [ret |-> 0, data |-> data, stop |-> FALSE], dir.kids)

dev_search(dir, n, data) ==
    IF Matches(dir) THEN [ret |-> 1, data |-> dev_reverse(Value(dir))]
    ELSE LET r == Entries(dir, n, Clobbered(dir, data)) IN [ret |-> r.ret, data |-> r.data]

-----------------------------------------------------------------------------
Init == tree \in Trees /\ inst \in Insts /\ result = <<>>

Search ==
    /\ result = <<>>
    /\ result' = <<dev_search(tree, inst, [i \in 1..Size |-> 0])>>
    /\ UNCHANGED <<tree, inst>>

Next == Search

Spec == Init /\ [][Next]_vars

-----------------------------------------------------------------------------
(* The devices of a directory in the order of its entries *)
RECURSIVE Devices(_)
Devices(dir) ==
    IF Matches(dir) THEN <<Value(dir)>>
    ELSE LET ok == SelectInSeq(dir.kids, LAMBDA k : k.broken)
         IN FlattenSeq([i \in 1..(IF ok = 0 THEN Len(dir.kids) ELSE ok - 1) |-> Devices(dir.kids[i])])

(* Every device directory has the property in full.  A shorter one is read *)
(* into the buffer as well, and inside a subdirectory the search goes on    *)
(* after a device.                                                          *)
RECURSIVE Whole(_)
Whole(dir) == Matches(dir) \/ (dir.name # Name /\ \A i \in 1..Len(dir.kids) : Whole(dir.kids[i]))

(* No subdirectory that is not itself a device holds more than one *)
RECURSIVE Bus(_)
Bus(dir) == Matches(dir) \/ \A i \in 1..Len(dir.kids) : Len(Devices(dir.kids[i])) <= 1 /\ Bus(dir.kids[i])

(* The search finds what is asked for if it exists, and more only because a *)
(* subdirectory is searched for inst devices however many were found before *)
(* it.  A caller goes by a result of inst, and then the buffer holds the    *)
(* property of the inst-th device, in host order (dev_search, dev_smmap).   *)
SearchExact ==
    LET found == Devices(tree)
        least == IF Len(found) < inst THEN Len(found) ELSE inst
    IN  \A r \in Range(result) :
            /\ r.ret \in least .. (IF Bus(tree) THEN least ELSE Len(found))
            /\ r.ret = inst /\ (\A i \in 1..Len(tree.kids) :
                                   Whole(tree.kids[i]) \/ Devices(tree.kids[i]) = <<>>)
                   => r.data = Reverse(found[inst])
=============================================================================
