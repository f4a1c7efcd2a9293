----------------------------- MODULE FileSystem -----------------------------
(***************************************************************************)
(* The files in memory (kernel/initrd.c), the descriptors over them        *)
(* (kernel/vfs.c) and the one command that works on both (touch, in        *)
(* kernel/coreutils_port.c), with their buffers in the heap.               *)
(*                                                                         *)
(* A name stands for a path without its leading slash.  A content is what  *)
(* the bytes say (id) and how many there are (len): a prefix of a content  *)
(* has its id and a smaller len.                                           *)
(***************************************************************************)
EXTENDS Heap, Sequences, FiniteSetsExt

CONSTANTS
    Names,          \* the names used, "" for the path "/"
    Stored,         \* a name cut to the 31 characters an entry has room for
    Initrd,         \* the files at boot: a sequence of [name, holds]
    Contents,       \* what gets saved
    MaxFiles,       \* INITRD_MAX_FILES
    Fds,            \* the descriptors 3 .. VFS_MAX_FD - 1
    TouchBuffer     \* what touch reads at most

Empty == [id |-> 0, len |-> 0]
Absent == [id |-> -1, len |-> 0]
Prefix(c, n) == IF n = 0 THEN Empty ELSE IF c.len <= n THEN c ELSE [id |-> c.id, len |-> n]

ASSUME FileSystemAssumption ==
    /\ Stored \in [Names -> Names] /\ \A n \in Names : Stored[Stored[n]] = Stored[n]
    /\ MaxFiles \in Nat /\ Len(Initrd) \in 0 .. MaxFiles - 1
    /\ \A i \in 1 .. Len(Initrd) :
         Initrd[i].name \in Names \ {""} /\ Initrd[i].holds.len \in 0 .. Word - Align
    /\ TouchBuffer \in Nat \ {0} /\ Fds \subseteq Nat
    /\ \A c \in Contents : c.len \in 0 .. Word - Align

VARIABLES
    dir,            \* initrd_files up to initrd_count: [name, data, size]
    fds,            \* [used, data, size, offset] for each descriptor
    saved,          \* history: what was last saved under each name, or Absent
    origin          \* history: what each descriptor was opened on, and whether
                    \* that file was neither saved nor removed since

fsVars == <<dir, fds, saved, origin, heapVars>>

-----------------------------------------------------------------------------
\* The data of the files at boot lies below the heap: -2, -3, ...
StaticAt(i) == -1 - i
IsStatic(p) == p < NULL

\* What a pointer leads to; a buffer that was freed holds anything.
Memory(p) ==
    IF IsStatic(p) THEN Initrd[-1 - p].holds
    ELSE IF p \in DOMAIN live THEN live[p].holds ELSE Absent

Count == Len(dir)
Indices == 1 .. Count

\* The first entry with the name n: initrd_save and initrd_remove look at all
\* of them, vfs_open stops at the first empty name.
IsEntry(i, n) == i \in Indices /\ dir[i].name = n /\ \A j \in 1 .. i - 1 : dir[j].name # n
Exists(n) == \E i \in Indices : dir[i].name = n
Opens(i, n) == IsEntry(i, n) /\ \A j \in 1 .. i : dir[j].name # ""

FreeFds == {fd \in Fds : ~fds[fd].used}

\* A descriptor not in use: its other fields are set before they are read again.
Closed == [used |-> FALSE, data |-> NULL, size |-> 0, offset |-> 0]
NoOrigin == [name |-> "", holds |-> Empty, fresh |-> FALSE]

FsInit ==
    /\ HeapInit
    /\ dir = [i \in 1 .. Len(Initrd) |->
                [name |-> Initrd[i].name, data |-> StaticAt(i), size |-> Initrd[i].holds.len]]
    /\ fds = [fd \in Fds |-> Closed]
    /\ saved = [n \in Names |->
                 IF \E i \in 1 .. Len(Initrd) : Initrd[i].name = n
                 THEN Initrd[CHOOSE i \in 1 .. Len(Initrd) : Initrd[i].name = n].holds ELSE Absent]
    /\ origin = [fd \in Fds |-> NoOrigin]

-----------------------------------------------------------------------------
(***************************************************************************)
(* initrd_save and initrd_remove                                           *)
(***************************************************************************)
Asked(c) == IF c.len = 0 THEN 1 ELSE c.len

\* What callers expect of the name n from now on, and the descriptors on it.
Expect(n, c) ==
    /\ saved' = [saved EXCEPT ![n] = c]
    /\ origin' = [fd \in Fds |->
                    IF origin[fd].name = n THEN NoOrigin ELSE origin[fd]]

Nothing == UNCHANGED <<dir, saved, origin, heapVars>>

\* Mutant of Replace: the entry keeps the old size.
ReplaceKeepingSize(i, n, c, b) ==
    LET old   == dir[i].data
        taken == Taken(blocks, b, Asked(c))
        held  == Held(live, b + Header, Asked(c), c)
    IN  /\ blocks' = IF IsStatic(old) THEN taken ELSE Freed(taken, old)
        /\ live' = IF IsStatic(old) THEN held ELSE Dropped(held, old)
        /\ dir' = [dir EXCEPT ![i].data = b + Header]
        /\ Expect(n, c)

\* The new buffer is filled before the old one, if it was not static, is freed.
Replace(i, n, c, b) ==
    LET old   == dir[i].data
        taken == Taken(blocks, b, Asked(c))
        held  == Held(live, b + Header, Asked(c), c)
    IN  /\ blocks' = IF IsStatic(old) THEN taken ELSE Freed(taken, old)
        /\ live' = IF IsStatic(old) THEN held ELSE Dropped(held, old)
        /\ dir' = [dir EXCEPT ![i] = [name |-> @.name, data |-> b + Header, size |-> c.len]]
        /\ Expect(n, c)

NewEntry(n, c, b) ==
    /\ blocks' = Taken(blocks, b, Asked(c))
    /\ live' = Held(live, b + Header, Asked(c), c)
    /\ dir' = Append(dir, [name |-> Stored[n], data |-> b + Header, size |-> c.len])
    /\ Expect(n, c)

\* Mutant of DirFull: no room is left for the terminator.
DirFullTooLate == Count >= MaxFiles

DirFull == Count >= MaxFiles - 1

InitrdSave(n, c) ==
    \/ ((~Exists(n) /\ DirFull) \/ Fails(blocks, Asked(c))) /\ Nothing
    \/ \E b \in Headers :
         /\ Takes(blocks, Asked(c), b)
         /\ \/ \E i \in Indices : IsEntry(i, n) /\ Replace(i, n, c, b)
            \/ ~Exists(n) /\ ~DirFull /\ NewEntry(n, c, b)

\* Mutant of Without: the last entry goes, whichever was removed.
WithoutLast(i) == [j \in 1 .. Count - 1 |-> dir[j]]

\* The entries behind the one removed move up.
Without(i) == [j \in 1 .. Count - 1 |-> IF j < i THEN dir[j] ELSE dir[j + 1]]

InitrdRemove(n) ==
    \/ ~Exists(n) /\ Nothing
    \/ \E i \in Indices :
         /\ IsEntry(i, n)
         /\ blocks' = IF IsStatic(dir[i].data) THEN blocks ELSE Freed(blocks, dir[i].data)
         /\ live' = IF IsStatic(dir[i].data) THEN live ELSE Dropped(live, dir[i].data)
         /\ dir' = Without(i)
         /\ Expect(n, Absent)

-----------------------------------------------------------------------------
(***************************************************************************)
(* The calls: vfs_save, vfs_remove, vfs_open, vfs_read, vfs_close          *)
(***************************************************************************)
Save(n, c) == InitrdSave(n, c) /\ UNCHANGED fds
Remove(n)  == InitrdRemove(n) /\ UNCHANGED fds

\* The lowest free descriptor gets a copy of the entry's pointer and size.
Open(n) ==
    /\ \/ ~(\E i \in Indices : Opens(i, n)) /\ UNCHANGED <<fds, origin>>
       \/ FreeFds = {} /\ UNCHANGED <<fds, origin>>
       \/ \E i \in Indices : \E fd \in FreeFds :
            /\ Opens(i, n) /\ \A other \in FreeFds : fd <= other
            /\ fds' = [fds EXCEPT ![fd] = [used |-> TRUE, data |-> dir[i].data,
                                           size |-> dir[i].size, offset |-> 0]]
            /\ origin' = [origin EXCEPT ![fd] = [name |-> n, holds |-> Memory(dir[i].data), fresh |-> TRUE]]
    /\ UNCHANGED <<dir, saved, heapVars>>

\* len is such that offset + len does not wrap around.
Read(fd, len) ==
    /\ fds[fd].used
    /\ fds' = [fds EXCEPT ![fd].offset = IF @ >= fds[fd].size THEN @ ELSE Min({@ + len, fds[fd].size})]
    /\ UNCHANGED <<dir, saved, origin, heapVars>>

Close(fd) ==
    /\ fds[fd].used
    /\ fds' = [fds EXCEPT ![fd] = Closed]
    /\ origin' = [origin EXCEPT ![fd] = NoOrigin]
    /\ UNCHANGED <<dir, saved, heapVars>>

\* touch: open, read what fits into its buffer, close, save that; a file that
\* does not open is saved empty unless -c is given.
Touch(n, noCreate) ==
    /\ UNCHANGED fds
    /\ \/ \E i \in Indices :
            Opens(i, n) /\ FreeFds # {} /\ InitrdSave(n, Prefix(Memory(dir[i].data), TouchBuffer))
       \/ /\ ~(\E i \in Indices : Opens(i, n)) \/ FreeFds = {}
          /\ IF noCreate THEN Nothing ELSE InitrdSave(n, Empty)

\* The other users of the heap: the editor's and the loader's buffers, mmap.
Buffers == DOMAIN live \ {dir[i].data : i \in Indices}

OtherBuffer ==
    /\ \/ \E n \in Sizes : Kmalloc(n, Junk)
       \/ \E n \in Sizes : Kcalloc(2, n)
       \/ \E p \in Buffers \cup {NULL} : Kfree(p)
       \/ \E p \in Buffers \cup {NULL}, n \in Sizes : Krealloc(p, n)
    /\ UNCHANGED <<dir, fds, saved, origin>>

FsNext ==
    \/ \E n \in Names : (\E c \in Contents : Save(n, c)) \/ Remove(n) \/ Open(n)
    \/ \E fd \in Fds : (\E len \in Sizes : Read(fd, len)) \/ Close(fd)
    \/ \E n \in Names, noCreate \in BOOLEAN : Touch(n, noCreate)
    \/ OtherBuffer

FsSpec == FsInit /\ [][FsNext]_fsVars

-----------------------------------------------------------------------------
\* The directory, the descriptors and the histories keep their types.
FsTypeOK ==
    /\ HeapTypeOK
    /\ Count < MaxFiles
    /\ \A i \in Indices : dir[i].name \in Names /\ dir[i].data \in Int /\ dir[i].size \in Nat
    /\ \A fd \in Fds : fds[fd].used \in BOOLEAN /\ fds[fd].offset \in 0 .. fds[fd].size

\* Every entry's data is a buffer of its own, static or in use in the heap, and
\* as long as the entry says: nothing is freed twice, read after it was freed or
\* shared by two files (initrd.c: the order of kmalloc and kfree, is_static).
EntriesOwnTheirData ==
    /\ \A i \in Indices :
         \/ IsStatic(dir[i].data)
         \/ dir[i].data \in DOMAIN live /\ blocks[dir[i].data - Header].size >= dir[i].size
    /\ \A i, j \in Indices : dir[i].data = dir[j].data => i = j

\* What the README promises of the files, "save really saves": a name opens
\* exactly if something was saved under it and not removed, and gives what was
\* saved last (vfs.c: vfs_open; initrd.c: initrd_save, initrd_remove).
SaveReallySaves ==
    \A n \in Names :
        IF saved[n] = Absent THEN ~(\E i \in Indices : Opens(i, n))
        ELSE \E i \in Indices : Opens(i, n) /\ Memory(dir[i].data) = saved[n] /\ dir[i].size = saved[n].len

\* A descriptor goes on reading what it was opened on, whatever is done to other
\* files and however the directory moves (vfs.c: it holds copies, no index).
FdsReadTheirFile ==
    \A fd \in Fds : fds[fd].used /\ origin[fd].fresh =>
        Memory(fds[fd].data) = origin[fd].holds /\ fds[fd].size = origin[fd].holds.len
=============================================================================
