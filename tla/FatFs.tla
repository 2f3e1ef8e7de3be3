------------------------------- MODULE FatFs -------------------------------
(***************************************************************************)
(* The system calls of the standalone build over the FatFs library         *)
(* (shared/standalone/fatfs.c): open, lseek, read, write, close, unlink on *)
(* a table of MAX_FD file objects.  The f_* calls are external, modelled   *)
(* from how the code uses them; each may fail with a disk error.  Against  *)
(* them runs a program that opens a file once at a time, unlinks only      *)
(* closed ones, seeks within the file, and remembers what it was told.     *)
(***************************************************************************)
EXTENDS Integers, Sequences, FiniteSets

CONSTANTS Paths, Modes, Bytes, MaxSize, MAX_FD, MaxErrors, MaxCalls, None

VARIABLES mounted, disk, fds,          \* the library: volume, files, file objects
          open, told, errors, calls,   \* the program: descriptors, contents, faults
          lost,                        \* file objects bound to no descriptor any more
          astray                       \* files with a write O_APPEND did not append

vars == <<mounted, disk, fds, open, told, errors, calls, lost, astray>>

Slots == 0..MAX_FD - 1

FreeSlots == {i \in Slots : fds[i] = None}

Lowest(S) == CHOOSE i \in S : \A j \in S : i <= j

(* O_RDWR, O_WRONLY or O_RDONLY, then O_CREAT with or without O_EXCL *)
map_access(flags) ==
    (IF "O_RDWR" \in flags THEN {"FA_READ", "FA_WRITE"}
     ELSE IF "O_WRONLY" \in flags THEN {"FA_WRITE"} ELSE {"FA_READ"})
    \cup (IF {"O_CREAT", "O_EXCL"} \subseteq flags THEN {"FA_CREATE_NEW"}
          ELSE IF "O_CREAT" \in flags THEN {"FA_OPEN_ALWAYS"} ELSE {})

(* What f_open answers: an existing read-only file is not opened to write *)
f_open(path, access) ==
    IF disk[path] = None
    THEN IF access \cap {"FA_CREATE_NEW", "FA_OPEN_ALWAYS"} # {} THEN "FR_OK" ELSE "FR_NO_FILE"
    ELSE IF "FA_CREATE_NEW" \in access THEN "FR_EXIST"
    ELSE IF disk[path].ro /\ access \cap {"FA_WRITE", "FA_OPEN_ALWAYS"} # {} THEN "FR_DENIED"
    ELSE "FR_OK"

Opened(path) == IF disk[path] = None THEN [data |-> <<>>, ro |-> FALSE] ELSE disk[path]

(* f_chmod with AM_RDO: the code tests S_IWUSR in flags, not in mode *)
Chmoded(f, flags) == IF "O_CREAT" \in flags THEN [f EXCEPT !.ro = "S_IWUSR" \notin flags] ELSE f

Truncated(f, flags) == IF "O_TRUNC" \in flags THEN [f EXCEPT !.data = <<>>] ELSE f

\* mutant: O_APPEND does not seek to the end
StartPos_Zero(f, flags) == 0

StartPos(f, flags) == IF "O_APPEND" \in flags THEN Len(f.data) ELSE 0

FirstFree == Lowest(FreeSlots)

-----------------------------------------------------------------------------
Fault == errors < MaxErrors /\ errors' = errors + 1

(* The mount of the first call may fail; then nothing else happens *)
open_fails_to_mount(path, flags) ==
    /\ ~mounted /\ Fault
    /\ UNCHANGED <<mounted, disk, fds, open, told, lost, astray>>

open_fails(path, flags) ==
    /\ mounted' = TRUE
    /\ \/ FreeSlots = {} /\ UNCHANGED errors
       \/ FreeSlots # {} /\ f_open(path, map_access(flags)) # "FR_OK" /\ UNCHANGED errors
       \/ FreeSlots # {} /\ Fault
    /\ UNCHANGED <<disk, fds, open, told, lost, astray>>

_open(path, flags) ==
    LET f == Truncated(Chmoded(Opened(path), flags), flags)
        pos == StartPos(f, flags)
    IN /\ FreeSlots # {} /\ f_open(path, map_access(flags)) = "FR_OK"
       /\ mounted' = TRUE
       /\ disk' = [disk EXCEPT ![path] = f]
       /\ fds' = [fds EXCEPT ![FirstFree] = [path |-> path, access |-> map_access(flags), pos |-> pos]]
       /\ open' = [open EXCEPT ![FirstFree] = [path |-> path, append |-> "O_APPEND" \in flags,
                                               pos |-> IF "O_APPEND" \in flags THEN Len(told[path]) ELSE 0]]
       /\ told' = [told EXCEPT ![path] = IF "O_TRUNC" \in flags THEN <<>> ELSE @]
       /\ UNCHANGED <<errors, lost, astray>>

(* What the file is when f_chmod, f_truncate or f_lseek fails *)
Unfinished(path, flags) ==
    LET f == Opened(path)
    IN (IF "O_CREAT" \in flags THEN {f} ELSE {})
       \cup (IF "O_TRUNC" \in flags THEN {Chmoded(f, flags)} ELSE {})
       \cup (IF "O_APPEND" \in flags THEN {Truncated(Chmoded(f, flags), flags)} ELSE {})

(* Then -1 is returned and the file object stays bound to the file *)
open_fails_late(path, flags) ==
    /\ FreeSlots # {} /\ f_open(path, map_access(flags)) = "FR_OK"
    /\ Fault /\ mounted' = TRUE
    /\ \E f \in Unfinished(path, flags) :
           disk' = [disk EXCEPT ![path] = f] /\ told' = [told EXCEPT ![path] = f.data]
    /\ fds' = [fds EXCEPT ![FirstFree] = [path |-> path, access |-> map_access(flags), pos |-> 0]]
    /\ lost' = lost + 1 /\ UNCHANGED <<open, astray>>

_lseek(fd, offset, whence) ==
    LET absoff == CASE whence = "SEEK_SET" -> offset
                    [] whence = "SEEK_CUR" -> fds[fd].pos + offset
                    [] whence = "SEEK_END" -> Len(disk[fds[fd].path].data) + offset
        from   == CASE whence = "SEEK_SET" -> 0
                    [] whence = "SEEK_CUR" -> open[fd].pos
                    [] whence = "SEEK_END" -> Len(told[open[fd].path])
    IN /\ absoff \in 0..Len(disk[fds[fd].path].data)
       /\ fds' = [fds EXCEPT ![fd].pos = absoff]
       /\ open' = [open EXCEPT ![fd].pos = from + offset]
       /\ UNCHANGED <<mounted, disk, told, errors, lost, astray>>

(* d with byte b at position p *)
Put(d, p, b) == [i \in 1..(IF p < Len(d) THEN Len(d) ELSE p + 1) |->
                     IF i = p + 1 THEN b ELSE IF i <= Len(d) THEN d[i] ELSE 0]

(* The program goes by POSIX, where a descriptor opened with O_APPEND      *)
(* writes at the end every time; f_write writes where the object stands    *)
_write(fd, b) ==
    LET path == open[fd].path
        at   == IF open[fd].append THEN Len(told[path]) ELSE open[fd].pos
    IN /\ "FA_WRITE" \in fds[fd].access
       /\ Len(disk[fds[fd].path].data) < MaxSize
       /\ disk' = [disk EXCEPT ![fds[fd].path].data = Put(@, fds[fd].pos, b)]
       /\ fds' = [fds EXCEPT ![fd].pos = @ + 1]
       /\ told' = [told EXCEPT ![path] = Put(@, at, b)]
       /\ open' = [open EXCEPT ![fd].pos = at + 1]
       /\ astray' = IF at = open[fd].pos THEN astray ELSE astray \cup {path}
       /\ UNCHANGED <<mounted, errors, lost>>

_read(fd) ==
    /\ "FA_READ" \in fds[fd].access
    /\ fds[fd].pos < Len(disk[fds[fd].path].data)
    /\ fds' = [fds EXCEPT ![fd].pos = @ + 1]
    /\ open' = [open EXCEPT ![fd].pos = @ + 1]
    /\ UNCHANGED <<mounted, disk, told, errors, lost, astray>>

\* mutant: the slot is not given back
_close_Skip(fd) ==
    /\ open' = [open EXCEPT ![fd] = None]
    /\ UNCHANGED <<mounted, disk, fds, told, errors, lost, astray>>

_close(fd) ==
    /\ fds' = [fds EXCEPT ![fd] = None]
    /\ open' = [open EXCEPT ![fd] = None]
    /\ UNCHANGED <<mounted, disk, told, errors, lost, astray>>

(* f_lseek, f_read, f_write or f_close fails: the object stays as it was,  *)
(* and after a close the program has given its descriptor up               *)
io_fails(fd) ==
    /\ Fault
    /\ \/ UNCHANGED <<open, lost>>
       \/ open' = [open EXCEPT ![fd] = None] /\ lost' = lost + 1
    /\ UNCHANGED <<mounted, disk, fds, told, astray>>

_unlink(path) ==
    /\ mounted /\ disk[path] # None /\ ~disk[path].ro
    /\ disk' = [disk EXCEPT ![path] = None]
    /\ told' = [told EXCEPT ![path] = <<>>]
    /\ UNCHANGED <<mounted, fds, open, errors, lost, astray>>

-----------------------------------------------------------------------------
Closed(path) == \A i \in Slots : open[i] # None => open[i].path # path

Init ==
    /\ mounted = FALSE /\ errors = 0 /\ calls = 0 /\ lost = 0 /\ astray = {}
    /\ fds = [i \in Slots |-> None] /\ open = [i \in Slots |-> None]
    /\ told \in [Paths -> {<<>>} \cup {<<b>> : b \in Bytes}]
    /\ disk = [p \in Paths |-> IF told[p] = <<>> THEN None ELSE [data |-> told[p], ro |-> FALSE]]

Next ==
    /\ calls < MaxCalls /\ calls' = calls + 1
    /\ \/ \E p \in Paths, m \in Modes :
              /\ Closed(p)
              /\ _open(p, m) \/ open_fails(p, m) \/ open_fails_late(p, m) \/ open_fails_to_mount(p, m)
       \/ \E fd \in {i \in Slots : open[i] # None} :
              \/ \E b \in Bytes : _write(fd, b)
              \/ _read(fd) \/ _close(fd) \/ io_fails(fd)
              \/ \E o \in -1..1, w \in {"SEEK_SET", "SEEK_CUR", "SEEK_END"} : _lseek(fd, o, w)
       \/ \E p \in Paths : Closed(p) /\ _unlink(p)

Spec == Init /\ [][Next]_vars

-----------------------------------------------------------------------------
(* What the program was told is what the volume holds: every descriptor it *)
(* has is a file object bound to its own file at the offset POSIX gives it,*)
(* and every file holds the bytes its writes should have left (_open,      *)
(* _lseek, _read, _write, _close).  A file written through a descriptor    *)
(* that was opened with O_APPEND and moved since is left out: open.2, which*)
(* fatfs.c cites, has every such write append, the code seeks only once.   *)
PosixView ==
    /\ \A i \in Slots : open[i] # None =>
           /\ fds[i] # None /\ fds[i].path = open[i].path
           /\ open[i].path \in astray \/ fds[i].pos = open[i].pos
    /\ \A p \in Paths : p \in astray \/ told[p] = IF disk[p] = None THEN <<>> ELSE disk[p].data

(* The slots of the table without a descriptor are those of opens that     *)
(* failed after f_open, which returns without f_close, and of closes that  *)
(* failed; no other call loses one.  MAX_FD of them end all opens.         *)
SlotsAccounted == Cardinality({i \in Slots : fds[i] # None /\ open[i] = None}) = lost
=============================================================================
