------------------------------- MODULE FileSys -------------------------------
(***************************************************************************)
(* The in-memory file system of the stage 2 kernels and its system calls   *)
(* (builder-hex0-riscv64-stage2.S; the AArch64 kernel has the same steps). *)
(*                                                                         *)
(* A table of names and a table of [address, length] grow together and     *)
(* never shrink; the file data is one bump-allocated area (0xD4000000).    *)
(* A file's data starts where next_file_address is when it is created; a   *)
(* write past its end moves next_file_address on, whichever file it is.    *)
(* A program's open files are [entry, 32-bit offset] in its descriptor.    *)
(*                                                                         *)
(* Paths are absolute and normalized (absolute_path); console and standard *)
(* input are not files here.  Addresses are offsets into the data area.    *)
(***************************************************************************)
EXTENDS Integers, Sequences, FiniteSetsExt

CONSTANTS
    Paths, NoName,
    Parent, Root,        \* a path cut at its last '/'; Root when nothing is left
    Bytes, Blank,        \* cells of files; a cell nothing has written yet
    Assembled(_),        \* what the hex0 command makes of a file
    Fds,                 \* the descriptors openat searches (4 .. 447)
    Offsets,             \* an offset is a 32-bit word: 2^32
    MaxFiles,            \* BOUND: entries of the tables
    DataCap,             \* BOUND: cells of the data area
    MaxLevels,           \* BOUND: programs that wait for one another
    Counts,              \* BOUND: what programs read and write at once
    Seeks,               \* BOUND: the offsets programs pass to lseek
    Tidy                 \* TRUE: only the newest file grows, and only at its end

FirstFile == 3

ASSUME FileSysAssumption ==
    /\ {Offsets, MaxFiles, DataCap, MaxLevels} \subseteq Nat
    /\ Offsets > DataCap
    /\ MaxFiles >= FirstFile
    /\ Fds \subseteq Nat \ {0}
    /\ Counts \subseteq Nat
    /\ Seeks \subseteq Int
    /\ Parent \in [Paths -> Paths \cup {Root}]
    /\ Blank \notin Bytes
    /\ NoName \notin Paths
    /\ \A n \in 0 .. DataCap : \A s \in [1 .. n -> Bytes \cup {Blank}] :
          Assembled(s) \in Seq(Bytes \cup {Blank})
    /\ Tidy \in BOOLEAN

VARIABLES
    name,       \* file names, by entry
    addr, len,  \* file_address and file_length, by entry
    nextFile,   \* next_filenum
    nextAddr,   \* next_file_address
    data,       \* the file data area
    level,      \* 0: the shell; otherwise the running program
    files,      \* the open files in the descriptor of every program
    out         \* [ret, bytes]: what the last call returned and read

vars == <<name, addr, len, nextFile, nextAddr, data, level, files, out>>

Entries == 0 .. MaxFiles - 1
Created == FirstFile .. nextFile - 1
Cells   == Bytes \cup {Blank}
Closed  == [file |-> 0, off |-> 0]

Returns(v) == out' = [ret |-> v, bytes |-> <<>>]
UNCHANGEDTables == UNCHANGED <<name, addr, len, nextFile, nextAddr, data>>

-----------------------------------------------------------------------------
(* Looking up and creating *)

Named(p) == {i \in Created : name[i] = p}

\* Mutant: the oldest entry wins.
FindOldest(p) == IF Named(p) = {} THEN -1 ELSE Min(Named(p))

\* find_file searches from the newest entry down.
FindFile(p) == IF Named(p) = {} THEN -1 ELSE Max(Named(p))

\* O_CREAT and mkdirat need the parent: any entry will do.
ParentExists(p) == Parent[p] = Root \/ FindFile(Parent[p]) >= 0

\* A new entry for p, whether or not p exists.
NewEntry(p) ==
    /\ nextFile < MaxFiles                            \* BOUND: see README
    /\ name' = [name EXCEPT ![nextFile] = p]
    /\ addr' = [addr EXCEPT ![nextFile] = nextAddr]
    /\ nextFile' = nextFile + 1

-----------------------------------------------------------------------------
(* Open files of the running program *)

Handle(fd) == files[level][fd]
File(fd)   == Handle(fd).file
Free       == {fd \in Fds : File(fd) = 0}

\* files with h in descriptor fd of the running program.
With(fd, h) == [files EXCEPT ![level] = [@ EXCEPT ![fd] = h]]

Opened(fd, i) == With(fd, [file |-> i, off |-> 0])

\* Mutant: all of a 64-bit offset is kept.
MovedUnwrapped(fd, off) == With(fd, [file |-> File(fd), off |-> off])

\* The offset is stored as a 32-bit word.
Moved(fd, off) == With(fd, [file |-> File(fd), off |-> off % Offsets])

\* openat_alloc_fd: the lowest free descriptor for entry i, or -1.
AllocFd(i) ==
    \/ /\ Free # {}
       /\ files' = Opened(Min(Free), i)
       /\ Returns(Min(Free))
    \/ /\ Free = {}
       /\ Returns(-1)
       /\ UNCHANGED files

-----------------------------------------------------------------------------
(* System calls *)

Openat(p) ==
    /\ level > 0
    /\ UNCHANGEDTables /\ UNCHANGED level
    /\ \/ FindFile(p) >= 0 /\ AllocFd(FindFile(p))
       \/ FindFile(p) < 0 /\ Returns(-1) /\ UNCHANGED files

\* The entry is made before a descriptor is looked for.
OpenatCreat(p) ==
    /\ level > 0
    /\ UNCHANGED level
    /\ \/ /\ ParentExists(p)
          /\ NewEntry(p)
          /\ len' = [len EXCEPT ![nextFile] = 0]
          /\ AllocFd(nextFile)
          /\ UNCHANGED <<nextAddr, data>>
       \/ /\ ~ParentExists(p)
          /\ Returns(-1)
          /\ UNCHANGEDTables /\ UNCHANGED files

Mkdirat(p) ==
    /\ level > 0
    /\ UNCHANGED <<level, files>>
    /\ \/ /\ ParentExists(p)
          /\ NewEntry(p)
          /\ len' = [len EXCEPT ![nextFile] = 0]
          /\ Returns(0)
          /\ UNCHANGED <<nextAddr, data>>
       \/ /\ ~ParentExists(p)
          /\ Returns(-1)
          /\ UNCHANGEDTables

Faccessat(p) ==
    /\ level > 0
    /\ Returns(IF FindFile(p) >= 0 THEN 0 ELSE -1)
    /\ UNCHANGEDTables /\ UNCHANGED <<level, files>>

\* chdir takes any empty file for a directory; the directory itself is in
\* ProcSim.
ChdirAllowed(p) == FindFile(p) >= 0 /\ len[FindFile(p)] = 0

Chdir(p) ==
    /\ level > 0
    /\ Returns(IF ChdirAllowed(p) THEN 0 ELSE -1)
    /\ UNCHANGEDTables /\ UNCHANGED <<level, files>>

Close(fd) ==
    /\ level > 0
    /\ files' = With(fd, [file |-> 0, off |-> Handle(fd).off])
    /\ Returns(0)
    /\ UNCHANGEDTables /\ UNCHANGED level

\* lseek: the result is the 64-bit sum, what is kept its low 32 bits.
Lseek(fd, off) ==
    /\ level > 0
    /\ \E base \in {0, Handle(fd).off, len[File(fd)]} :
         files' = Moved(fd, base + off) /\ Returns(base + off)
    /\ UNCHANGEDTables /\ UNCHANGED level

\* How much of n bytes is left before the end of the file.
Available(fd, n) == Min({n, Max({len[File(fd)] - Handle(fd).off, 0})})

Read(fd, n) ==
    /\ level > 0
    /\ LET at == addr[File(fd)] + Handle(fd).off
           m  == Available(fd, n)
       IN /\ out' = [ret |-> m, bytes |-> [k \in 1 .. m |-> data[at + k - 1]]]
          /\ files' = Moved(fd, Handle(fd).off + m)
    /\ UNCHANGEDTables /\ UNCHANGED level

\* Mutant: next_file_address moves by everything that is written.
GrownByAll(i, off, n) == n

\* write_file_loop: every byte that ends past the length moves the length to
\* its end and next_file_address by one.
Grown(i, off, n) == IF off >= len[i] THEN n ELSE Max({off + n - len[i], 0})

Write(fd, v, n) ==
    LET i   == File(fd)
        off == Handle(fd).off
    IN
    /\ level > 0
    /\ i # 0                        \* BOUND: entry 0 is at physical address 0
    /\ addr[i] + off + n <= DataCap /\ nextAddr + n <= DataCap        \* BOUND
    /\ Tidy => off <= len[i] /\ (off + n > len[i] => i = nextFile - 1)
    /\ data' = [a \in 0 .. DataCap - 1 |->
                  IF a \in addr[i] + off .. addr[i] + off + n - 1 THEN v ELSE data[a]]
    /\ len' = [len EXCEPT ![i] = Max({@, off + n})]
    /\ nextAddr' = nextAddr + Grown(i, off, n)
    /\ files' = Moved(fd, off + n)
    /\ Returns(n)
    /\ UNCHANGED <<name, addr, nextFile, level>>

-----------------------------------------------------------------------------
(* Shell commands *)

Contents(i) == [k \in 1 .. len[i] |-> data[addr[i] + k - 1]]

\* A new file under p with these bytes: no parent is asked for.
Store(p, bytes) ==
    /\ nextAddr + Len(bytes) <= DataCap               \* BOUND
    /\ NewEntry(p)
    /\ len' = [len EXCEPT ![nextFile] = Len(bytes)]
    /\ data' = [a \in 0 .. DataCap - 1 |->
                  IF a \in nextAddr .. nextAddr + Len(bytes) - 1
                  THEN bytes[a - nextAddr + 1] ELSE data[a]]
    /\ nextAddr' = nextAddr + Len(bytes)

\* src n p
Src(p, v, n) ==
    /\ level = 0
    /\ Store(p, [k \in 1 .. n |-> v])
    /\ UNCHANGED <<level, files, out>>

\* hex0 p q; a source that is not found makes nothing.
Hex0(p, q) ==
    /\ level = 0
    /\ FindFile(p) >= 0
    /\ Store(q, Assembled(Contents(FindFile(p))))
    /\ UNCHANGED <<level, files, out>>

-----------------------------------------------------------------------------
(* Programs come and go: ProcSim.  Loading one closes the descriptors of its *)
(* level; an exit uncovers those of its parent.                              *)

Emptied(l) == [files EXCEPT ![l] = [fd \in Fds |-> Closed]]

Enter ==
    /\ level < MaxLevels                              \* BOUND
    /\ level' = level + 1
    /\ files' = Emptied(level + 1)
    /\ UNCHANGEDTables /\ UNCHANGED out

Overlay ==
    /\ level > 0
    /\ files' = Emptied(level)
    /\ UNCHANGEDTables /\ UNCHANGED <<level, out>>

Leave ==
    /\ level > 0
    /\ level' = level - 1
    /\ UNCHANGEDTables /\ UNCHANGED <<files, out>>

-----------------------------------------------------------------------------
Init ==
    /\ name = [i \in Entries |-> NoName]
    /\ addr = [i \in Entries |-> 0]
    /\ len = [i \in Entries |-> 0]
    /\ nextFile = FirstFile
    /\ nextAddr = 0
    /\ data = [a \in 0 .. DataCap - 1 |-> Blank]
    /\ level = 0
    /\ files = [l \in 1 .. MaxLevels |-> [fd \in Fds |-> Closed]]
    /\ out = [ret |-> 0, bytes |-> <<>>]

Next ==
    \/ \E p \in Paths : Openat(p) \/ OpenatCreat(p) \/ Mkdirat(p) \/ Faccessat(p) \/ Chdir(p)
    \/ \E fd \in Fds : Close(fd) \/ \E off \in Seeks : Lseek(fd, off)
    \/ \E fd \in Fds, n \in Counts : Read(fd, n)
    \/ \E fd \in Fds, v \in Bytes, n \in Counts : Write(fd, v, n)
    \/ \E p \in Paths, v \in Bytes, n \in Counts : Src(p, v, n)
    \/ \E p, q \in Paths : Hex0(p, q)
    \/ Enter \/ Overlay \/ Leave

Spec == Init /\ [][Next]_vars

-----------------------------------------------------------------------------
(* Properties *)

TypeOK ==
    /\ name \in [Entries -> Paths \cup {NoName}]
    /\ addr \in [Entries -> 0 .. DataCap]
    /\ len \in [Entries -> 0 .. DataCap]
    /\ nextFile \in FirstFile .. MaxFiles
    /\ nextAddr \in 0 .. DataCap
    /\ data \in [0 .. DataCap - 1 -> Cells]
    /\ level \in 0 .. MaxLevels
    /\ files \in [1 .. MaxLevels -> [Fds -> [file : Entries, off : 0 .. Offsets - 1]]]
    /\ out.ret \in Int

End(i) == addr[i] + len[i]

\* The files are laid out one behind the other in the order of their
\* creation, and next_file_address is the end of the last one: what is
\* created next overlaps nothing, and growing the newest file overlaps
\* nothing.
FilesDisjoint ==
    /\ \A i \in Created : End(i) = IF i = nextFile - 1 THEN nextAddr ELSE addr[i + 1]
    /\ nextFile = FirstFile => nextAddr = 0

-----------------------------------------------------------------------------
(***************************************************************************)
(* The tables and the data area of FileSys implement FileStore: as long as *)
(* programs are tidy, every file has bytes of its own.                     *)
(***************************************************************************)

\* A file as programs know it.
Record(i) == [path |-> name[i], bytes |-> Contents(i)]

FileLog == [k \in 1 .. nextFile - FirstFile |-> Record(k + FirstFile - 1)]

\* The place in FileLog of what an open file refers to.
Reference(h) ==
    [file |-> IF h.file = 0 THEN 0 ELSE h.file - FirstFile + 1, off |-> h.off]

OpenLog == [l \in 1 .. level |-> [fd \in Fds |-> Reference(files[l][fd])]]

Store0 == INSTANCE FileStore WITH files <- FileLog, open <- OpenLog

\* Every behaviour of the file system is one of FileStore: what a program
\* reads at an offset is what was last written there through any descriptor
\* of that file, by itself or by another program; opening finds the newest
\* file; a parent finds its descriptors as it left them.
ImplementsFileStore == Store0!Spec
=============================================================================
