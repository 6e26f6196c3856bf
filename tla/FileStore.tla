------------------------------ MODULE FileStore ------------------------------
(***************************************************************************)
(* What the in-memory file system promises to programs: a log of files,    *)
(* each a path and a sequence of bytes of its own.  A path names the       *)
(* newest file created under it.  An open file is a file and an offset,    *)
(* and belongs to one program.                                             *)
(***************************************************************************)
EXTENDS Integers, Sequences, FiniteSetsExt

CONSTANTS
    Paths, Parent, Root,   \* the parents of the topmost paths are Root
    Bytes, Blank,          \* what a file is made of
    Fds,                   \* the descriptors openat hands out
    Offsets,               \* offsets are kept modulo this
    Counts,                \* how much is read or written at once
    Seeks,                 \* the distances programs seek
    Assembled(_)           \* what the hex0 command makes of a file

VARIABLES
    files,                 \* [path, bytes] of every file, in order of creation
    open,                  \* per running program: descriptor -> [file, off]
    out                    \* [ret, bytes]: what the last call returned

vars == <<files, open, out>>

Closed == [file |-> 0, off |-> 0]
Unopened == [fd \in Fds |-> Closed]

Returns(v)  == out' = [ret |-> v, bytes |-> <<>>]
Handles     == open[Len(open)]
Free        == {fd \in Fds : Handles[fd].file = 0}
Exists(p)   == \E k \in DOMAIN files : files[k].path = p
Newest(p)   == Max({k \in DOMAIN files : files[k].path = p})
BytesOf(fd) == IF Handles[fd].file = 0 THEN <<>> ELSE files[Handles[fd].file].bytes
Reachable(p) == Parent[p] = Root \/ Exists(Parent[p])

WithNew(p, bytes) == Append(files, [path |-> p, bytes |-> bytes])

\* What the running program has open, with h in descriptor fd.
With(fd, h)    == [open EXCEPT ![Len(open)] = [Handles EXCEPT ![fd] = h]]
Opened(fd, k)  == With(fd, [file |-> k, off |-> 0])
Moved(fd, off) == With(fd, [file |-> Handles[fd].file, off |-> off % Offsets])

\* bytes with n times v from offset off on.
Overwritten(bytes, off, v, n) ==
    [k \in 1 .. Max({Len(bytes), off + n}) |->
        IF k \in off + 1 .. off + n THEN v ELSE IF k <= Len(bytes) THEN bytes[k] ELSE Blank]

Init == files = <<>> /\ open = <<>> /\ out = [ret |-> 0, bytes |-> <<>>]

Open(p) ==
    /\ open # <<>>
    /\ UNCHANGED files
    /\ \/ /\ Exists(p) /\ Free # {}
          /\ open' = Opened(Min(Free), Newest(p)) /\ Returns(Min(Free))
       \/ /\ ~(Exists(p) /\ Free # {})
          /\ Returns(-1) /\ UNCHANGED open

\* Creating opens a file of its own even where one exists.  When no
\* descriptor is left, the file stays behind.
Create(p) ==
    /\ open # <<>>
    /\ \/ /\ Reachable(p) /\ Free # {}
          /\ files' = WithNew(p, <<>>)
          /\ open' = Opened(Min(Free), Len(files) + 1) /\ Returns(Min(Free))
       \/ /\ Reachable(p) /\ Free = {}
          /\ files' = WithNew(p, <<>>) /\ Returns(-1) /\ UNCHANGED open
       \/ /\ ~Reachable(p)
          /\ Returns(-1) /\ UNCHANGED <<files, open>>

Mkdir(p) ==
    /\ open # <<>>
    /\ UNCHANGED open
    /\ \/ Reachable(p) /\ files' = WithNew(p, <<>>) /\ Returns(0)
       \/ ~Reachable(p) /\ Returns(-1) /\ UNCHANGED files

\* faccessat finds what exists; chdir enters what exists and is empty.
Access(p) ==
    /\ open # <<>>
    /\ Returns(IF Exists(p) THEN 0 ELSE -1)
    /\ UNCHANGED <<files, open>>

EnterDirectory(p) ==
    /\ open # <<>>
    /\ Returns(IF Exists(p) /\ files[Newest(p)].bytes = <<>> THEN 0 ELSE -1)
    /\ UNCHANGED <<files, open>>

Close(fd) ==
    /\ open # <<>>
    /\ open' = With(fd, [file |-> 0, off |-> Handles[fd].off])
    /\ Returns(0) /\ UNCHANGED files

\* From the start, from the offset or from the end; nothing is checked.
Seek(fd, off) ==
    /\ open # <<>>
    /\ \E base \in {0, Handles[fd].off, Len(BytesOf(fd))} :
         open' = Moved(fd, base + off) /\ Returns(base + off)
    /\ UNCHANGED files

Read(fd, n) ==
    /\ open # <<>>
    /\ LET bytes == BytesOf(fd)
           off   == Handles[fd].off
           got   == SubSeq(bytes, off + 1, Min({off + n, Len(bytes)}))
       IN /\ out' = [ret |-> Len(got), bytes |-> got]
          /\ open' = Moved(fd, off + Len(got))
    /\ UNCHANGED files

\* Writing to one file changes no other.
Write(fd, v, n) ==
    /\ open # <<>>
    /\ Handles[fd].file # 0
    /\ files' = [files EXCEPT ![Handles[fd].file].bytes = Overwritten(@, Handles[fd].off, v, n)]
    /\ open' = Moved(fd, Handles[fd].off + n)
    /\ Returns(n)

\* The shell's src and hex0 commands.
Load(p, v, n) ==
    /\ open = <<>>
    /\ files' = WithNew(p, [k \in 1 .. n |-> v])
    /\ UNCHANGED <<open, out>>

Assemble(p, q) ==
    /\ open = <<>>
    /\ Exists(p)
    /\ files' = WithNew(q, Assembled(files[Newest(p)].bytes))
    /\ UNCHANGED <<open, out>>

Enter   == open' = Append(open, Unopened) /\ UNCHANGED <<files, out>>
Replace == open # <<>> /\ open' = [open EXCEPT ![Len(open)] = Unopened] /\ UNCHANGED <<files, out>>
Leave   == open # <<>> /\ open' = SubSeq(open, 1, Len(open) - 1) /\ UNCHANGED <<files, out>>

Next ==
    \/ \E p \in Paths : 
         Open(p) \/ Create(p) \/ Mkdir(p) \/ Access(p) \/ EnterDirectory(p)
    \/ \E fd \in Fds : Close(fd) \/ \E off \in Seeks : Seek(fd, off)
    \/ \E fd \in Fds, n \in Counts : Read(fd, n)
    \/ \E fd \in Fds, v \in Bytes, n \in Counts : Write(fd, v, n)
    \/ \E p \in Paths, v \in Bytes, n \in Counts : Load(p, v, n)
    \/ \E p, q \in Paths : Assemble(p, q)
    \/ Enter \/ Replace \/ Leave

Spec == Init /\ [][Next]_vars
=============================================================================
