------------------------------- MODULE ProcSim -------------------------------
(***************************************************************************)
(* The process simulation of the stage 2 kernels: clone, execve, exit,     *)
(* wait, brk and the shell's program start (builder-hex0-riscv64-stage2.S; *)
(* the AArch64 kernel has the same steps).                                 *)
(*                                                                         *)
(* There is one user memory window and one user stack.  clone copies the   *)
(* caller's kernel stack, memory and live user stack into a bump-allocated *)
(* save area, records where in the CURRENT descriptor, and returns 0: the  *)
(* child is the same descriptor going on.  execve moves a forked caller to *)
(* the next descriptor and overlays any other.  exit steps one descriptor  *)
(* down and copies the saved image back.                                   *)
(*                                                                         *)
(* A system call runs with interrupts off on the only hart: it is one      *)
(* action.  Memory is counted in cells; addresses are offsets from the     *)
(* base of their region (0x80600000 for mem, 0xB0000000 for save); ustk is *)
(* indexed upwards, its top is StkTop (0x90000000).  The kernel stack is   *)
(* the trap frame, one cell: user sp, return register and the program the  *)
(* other registers belong to.                                              *)
(***************************************************************************)
EXTENDS Integers

CONSTANTS
    Progs,       \* executables the file system holds
    NoProg,      \* a path that find_file does not find
    FileLen,     \* cells of memory each program's segments fill
    Pad,         \* what execve adds to the end of the image for the break (0x2000)
    ShellFloor,  \* the lowest break of a program the shell starts (1 MB)
    ZeroLen,     \* cells of memory that loading clears (2 MB)
    MemCap,      \* cells up to the brk cap (0x8FF00000)
    StkTop,      \* cells of user stack
    ArgLen,      \* cells the marshalled argv and envp take at the stack top
    Touched,     \* BOUND: the memory cells they write to
    WaitSlots,   \* BOUND: the memory cells they collect a status in
    Brks,        \* BOUND: the memory lengths they ask brk for
    Zero,        \* cleared memory
    Root, Dirs,  \* directories; the shell's is Root
    Fds,         \* file descriptors
    Codes,       \* exit statuses of programs
    StatusWord,  \* the word that waiting stores for a status (code << 8)
    MaxProcs,    \* process descriptors
    SaveCap,     \* BOUND: cells of save area
    ExecFirst,   \* TRUE: a child calls exec, and successfully, before it exits
    NoImage      \* what is running while the shell is

FaultCode == 139
StatusCodes == Codes \cup {0, FaultCode}

ASSUME ParamsAssumption ==
    /\ FileLen \in [Progs -> Nat]
    /\ {Pad, ShellFloor, ZeroLen, MemCap, StkTop, ArgLen, SaveCap} \subseteq Nat
    /\ MaxProcs \in Nat \ {0, 1}
    /\ ArgLen <= StkTop
    /\ Touched \cup WaitSlots \subseteq 0 .. MemCap - 1
    /\ Brks \subseteq Nat
    /\ ShellFloor <= MemCap
    /\ \A p \in Progs : FileLen[p] + Pad <= MemCap
    /\ Root \in Dirs
    /\ Codes \subseteq Nat
    /\ DOMAIN StatusWord = StatusCodes
    /\ NoProg \notin Progs
    /\ ExecFirst \in BOOLEAN

VARIABLES
    mode,       \* "shell" or "user": which of the two the hart executes
    npn,        \* next_process_num; the current descriptor is proc[npn - 1]
    proc,       \* the process descriptors
    nextSave,   \* next_save_process_address
    save,       \* the save area
    mem,        \* the user window
    brk,        \* current_brk
    ustk,       \* the user stack
    cpu         \* the user registers, which a trap puts in the trap frame

vars == <<mode, npn, proc, nextSave, save, mem, brk, ustk, cpu>>

-----------------------------------------------------------------------------
(* Data *)

Values == Progs \cup {Zero, NoProg} \cup {StatusWord[c] : c \in StatusCodes}
Cpu    == [sp : 0..StkTop, a0 : {-1, 0, 1}, prog : Progs]

Descriptor ==
    [forked : Nat, savedBrk : 0..MemCap, status : StatusCodes,
     stackAddr : Nat, memAddr : Nat, memLen : 0..MemCap,
     ustkAddr : Nat, ustkLen : 0..StkTop,
     cwd : Dirs, fds : SUBSET Fds]

ClearedDescriptor ==
    [forked |-> 0, savedBrk |-> 0, status |-> 0,
     stackAddr |-> 0, memAddr |-> 0, memLen |-> 0,
     ustkAddr |-> 0, ustkLen |-> 0,
     cwd |-> Root, fds |-> {}]

\* memcpy: n cells of src from s on, to dst from d on.
Copied(dst, d, src, s, n) ==
    [a \in DOMAIN dst |-> IF a \in d .. d + n - 1 THEN src[s + (a - d)] ELSE dst[a]]

\* get_process_base
Current == npn - 1

\* Mutant: nothing is cleared.
LoadedUncleared(p, old) ==
    [i \in 0 .. MemCap - 1 |-> IF i < FileLen[p] THEN p ELSE old[i]]

\* The memory of program p right after loading: image, then ZeroLen cleared
\* cells; beyond that nothing clears what earlier programs left.
LoadedMem(p, old) ==
    [i \in 0 .. MemCap - 1 |->
        IF i < FileLen[p] THEN p ELSE IF i < ZeroLen THEN Zero ELSE old[i]]

\* argv (the path first) and envp, marshalled at the top of the user stack.
WithArgs(stk, path) ==
    [i \in 0 .. StkTop - 1 |-> IF i >= StkTop - ArgLen THEN path ELSE stk[i]]

EntryCpu(p) == [sp |-> StkTop - ArgLen, a0 |-> 0, prog |-> p]

Larger(a, b) == IF a >= b THEN a ELSE b

-----------------------------------------------------------------------------
(* The user program between two system calls *)

Running == mode = "user"

\* A child that has cloned off and not reached execve runs in the
\* descriptor of its parent.
Child == proc[Current].forked > 0

\* A program writes anywhere below its break (Touched bounds where) and on
\* its stack; what it writes bears its name.
Store(i) ==
    /\ Running
    /\ i < brk
    /\ mem' = [mem EXCEPT ![i] = cpu.prog]
    /\ cpu' = [cpu EXCEPT !.a0 = 0]
    /\ UNCHANGED <<mode, npn, proc, nextSave, save, brk, ustk>>

Push ==
    /\ Running
    /\ cpu.sp > 0
    /\ cpu' = [cpu EXCEPT !.sp = @ - 1, !.a0 = 0]
    /\ ustk' = [ustk EXCEPT ![cpu.sp - 1] = cpu.prog]
    /\ UNCHANGED <<mode, npn, proc, nextSave, save, mem, brk>>

Pop ==
    /\ Running
    /\ cpu.sp < StkTop
    /\ cpu' = [cpu EXCEPT !.sp = @ + 1, !.a0 = 0]
    /\ UNCHANGED <<mode, npn, proc, nextSave, save, mem, brk, ustk>>

-----------------------------------------------------------------------------
(* The shell: handle_other_command starts program p.  A command it does not *)
(* find prints "?" and leaves this state alone.                             *)

\* The descriptor of a program that has just been loaded; its save record is
\* what an earlier program left there.
Entered(d, dir) ==
    [forked |-> 0, savedBrk |-> d.savedBrk, status |-> d.status,
     stackAddr |-> d.stackAddr, memAddr |-> d.memAddr, memLen |-> d.memLen,
     ustkAddr |-> d.ustkAddr, ustkLen |-> d.ustkLen,
     cwd |-> dir, fds |-> {}]

ShellRun(p) ==
    /\ mode = "shell"
    /\ npn < MaxProcs
    /\ mode' = "user"
    /\ npn' = npn + 1
    /\ proc' = [proc EXCEPT ![npn] = Entered(@, proc[npn - 1].cwd)]
    /\ mem' = LoadedMem(p, mem)
    /\ brk' = Larger(ShellFloor, FileLen[p] + Pad)
    /\ ustk' = WithArgs(ustk, p)
    /\ cpu' = EntryCpu(p)
    /\ UNCHANGED <<nextSave, save>>

-----------------------------------------------------------------------------
(* System calls *)

\* The save record that clone writes into the descriptor.
Recorded(d) ==
    [forked |-> d.forked + 1, savedBrk |-> brk, status |-> d.status,
     stackAddr |-> nextSave, memAddr |-> nextSave + 1, memLen |-> brk,
     ustkAddr |-> nextSave + 1 + brk, ustkLen |-> StkTop - cpu.sp,
     cwd |-> d.cwd, fds |-> d.fds]

\* Mutant: the user stack is not counted.
SaveEndNoStack == nextSave + 1 + brk

\* next_save_process_address after clone.
SaveEnd == nextSave + 1 + brk + (StkTop - cpu.sp)

Clone ==
    /\ Running
    /\ SaveEnd <= SaveCap                             \* BOUND
    /\ ~Child                  \* README.md:245: one child process at a time
    /\ proc' = [proc EXCEPT ![Current] = Recorded(@)]
    /\ save' = Copied(Copied(Copied(save, nextSave, [z \in {0} |-> cpu], 0, 1),
                             nextSave + 1, mem, 0, brk),
                      nextSave + 1 + brk, ustk, cpu.sp, StkTop - cpu.sp)
    /\ nextSave' = SaveEnd
    /\ cpu' = [cpu EXCEPT !.a0 = 0]
    /\ UNCHANGED <<mode, npn, mem, brk, ustk>>

\* create_new_process: the caller has forked, or it is the shell's own level.
CreatesLevel == Child \/ npn = 1

\* The forked count that execve leaves in the caller's descriptor before it
\* has looked for the file.
Unforked(d) == IF d.forked > 0 THEN [d EXCEPT !.forked = @ - 1] ELSE d

\* next_process_num once execve has found the file.
ExecLevel == IF CreatesLevel THEN npn + 1 ELSE npn

\* The descriptors after a successful execve.
ExecProc ==
    LET dst == ExecLevel - 1
        dir == IF CreatesLevel THEN proc[dst - 1].cwd ELSE proc[dst].cwd
    IN [[proc EXCEPT ![Current] = Unforked(@)] EXCEPT ![dst] = Entered(@, dir)]

Execve(p) ==
    /\ Running
    /\ ExecLevel <= MaxProcs                          \* BOUND: 16 descriptors
    /\ npn' = ExecLevel
    /\ proc' = ExecProc
    /\ mem' = LoadedMem(p, mem)
    /\ brk' = FileLen[p] + Pad
    /\ ustk' = WithArgs(ustk, p)
    /\ cpu' = EntryCpu(p)
    /\ UNCHANGED <<mode, nextSave, save>>

\* find_file fails after the arguments have been marshalled over the top of
\* the caller's stack and after its forked count has gone down.
ExecveFail ==
    /\ Running
    /\ ExecFirst => ~Child
    /\ proc' = [proc EXCEPT ![Current] = Unforked(@)]
    /\ ustk' = WithArgs(ustk, NoProg)
    /\ cpu' = [cpu EXCEPT !.a0 = -1]
    /\ UNCHANGED <<mode, npn, nextSave, save, mem, brk>>

\* Mutants: exit frees nothing; it leaves the user stack as the child had it;
\* it leaves the code in the child's own descriptor.
NothingFreed(d)         == nextSave
ChildStack(d)           == ustk
ReportedBelow(d, code)  == [proc EXCEPT ![d + 1].status = code]

\* next_save_process_address after the process in descriptor d has resumed.
Freed(d) == proc[d].stackAddr

ParentStack(d) ==
    Copied(ustk, StkTop - proc[d].ustkLen, save, proc[d].ustkAddr, proc[d].ustkLen)

\* The child's code in the descriptor of the parent, where waiting looks.
Reported(d, code) == [proc EXCEPT ![d].status = code]

\* The parent's image copied back out of its save record.
Resume(d, code) ==
    /\ proc' = Reported(d, code)
    /\ mem' = Copied(mem, 0, save, proc[d].memAddr, proc[d].memLen)
    /\ nextSave' = Freed(d)
    /\ brk' = proc[d].savedBrk
    /\ cpu' = [save[proc[d].stackAddr] EXCEPT !.a0 = 1]
    /\ ustk' = ParentStack(d)
    /\ UNCHANGED <<mode, save>>

\* exit_to_shell: nothing is restored.
ToShell ==
    /\ mode' = "shell"
    /\ UNCHANGED <<proc, nextSave, save, mem, brk, ustk, cpu>>

\* A trap that is not a system call exits with FaultCode.
Exit(code) ==
    /\ Running
    /\ ExecFirst => ~Child
    /\ npn' = npn - 1
    /\ \/ npn - 1 = 1 /\ ToShell
       \/ npn - 1 # 1 /\ Resume(npn - 2, code)

\* waitid (returns 0) and wait4 (returns 1) store the status in the program.
Wait(i, ret) ==
    /\ Running
    /\ i < brk
    /\ mem' = [mem EXCEPT ![i] = StatusWord[proc[Current].status]]
    /\ cpu' = [cpu EXCEPT !.a0 = ret]
    /\ UNCHANGED <<mode, npn, proc, nextSave, save, brk, ustk>>

\* Mutant: the cap is not checked.
AnyBreak(n) == TRUE

BreakAllowed(n) == n <= MemCap

\* brk(n); n is a length here.  Growing clears, shrinking keeps.
Brk(n) ==
    /\ Running
    /\ \/ /\ ~BreakAllowed(n)
          /\ cpu' = [cpu EXCEPT !.a0 = -1]
          /\ UNCHANGED <<mem, brk>>
       \/ /\ BreakAllowed(n)
          /\ mem' = [i \in 0 .. MemCap - 1 |-> IF i \in brk .. n - 1 THEN Zero ELSE mem[i]]
          /\ brk' = n
          /\ cpu' = [cpu EXCEPT !.a0 = 0]
    /\ UNCHANGED <<mode, npn, proc, nextSave, save, ustk>>

\* chdir, openat and close as far as they touch the descriptor: FileSys has
\* the rest of them.
Chdir(dir) ==
    /\ Running
    /\ proc' = [proc EXCEPT ![Current].cwd = dir]
    /\ cpu' = [cpu EXCEPT !.a0 = 0]
    /\ UNCHANGED <<mode, npn, nextSave, save, mem, brk, ustk>>

SetFds(F) ==
    /\ Running
    /\ proc' = [proc EXCEPT ![Current].fds = F]
    /\ cpu' = [cpu EXCEPT !.a0 = 0]
    /\ UNCHANGED <<mode, npn, nextSave, save, mem, brk, ustk>>

-----------------------------------------------------------------------------
Init ==
    /\ mode = "shell"
    /\ npn = 1
    /\ proc = [l \in 0 .. MaxProcs - 1 |-> ClearedDescriptor]
    /\ nextSave = 0
    /\ save = [a \in 0 .. SaveCap - 1 |-> Zero]
    /\ mem = [i \in 0 .. MemCap - 1 |-> Zero]
    /\ brk = ShellFloor
    /\ ustk = [i \in 0 .. StkTop - 1 |-> Zero]
    /\ cpu \in {EntryCpu(p) : p \in Progs}

UserStep ==
    \/ \E i \in Touched : Store(i)
    \/ Push
    \/ Pop

Syscall ==
    \/ Clone
    \/ ExecveFail
    \/ \E p \in Progs : Execve(p)
    \/ \E c \in Codes \cup {FaultCode} : Exit(c)
    \/ \E i \in WaitSlots, ret \in {0, 1} : Wait(i, ret)
    \/ \E n \in Brks : Brk(n)
    \/ \E dir \in Dirs : Chdir(dir)
    \/ \E F \in SUBSET Fds : SetFds(F)

Next ==
    \/ \E p \in Progs : ShellRun(p)
    \/ UserStep
    \/ Syscall

Spec == Init /\ [][Next]_vars

-----------------------------------------------------------------------------
(* The processes behind the descriptors *)

\* How many processes wait for a child: every level below the current one,
\* and the current one as long as its child has not called exec.  The save
\* records of levels 1 .. Waiting are live.
Waiting == IF npn = 1 THEN 0 ELSE IF Child THEN npn - 1 ELSE npn - 2

RecordStart(l) == proc[l].stackAddr
RecordEnd(l)   == proc[l].ustkAddr + proc[l].ustkLen

\* Where the records of the l oldest waiting processes end.
SavedUpTo(l) == IF l = 0 THEN 0 ELSE RecordEnd(l)

ImageOf(b, m, s, c) ==
    [mem |-> [i \in 0 .. b - 1 |-> m[i]],
     stk |-> [i \in c.sp .. StkTop - 1 |-> s[i]],
     cpu |-> c]

\* What the image of a process may be: none of them is NoImage.
Images ==
    [mem : UNION {[0 .. b - 1 -> Values] : b \in 0 .. MemCap},
     stk : UNION {[n .. StkTop - 1 -> Values] : n \in 0 .. StkTop},
     cpu : Cpu]

ASSUME NoImageAssumption == NoImage \notin Images

\* The image that the save record of level l holds.
SavedImage(l) ==
    [mem |-> [i \in 0 .. proc[l].memLen - 1 |-> save[proc[l].memAddr + i]],
     stk |-> [i \in StkTop - proc[l].ustkLen .. StkTop - 1 |->
                save[proc[l].ustkAddr + i - (StkTop - proc[l].ustkLen)]],
     cpu |-> save[proc[l].stackAddr]]

-----------------------------------------------------------------------------
(* Properties *)

TypeOK ==
    /\ mode \in {"shell", "user"}
    /\ npn \in 1 .. MaxProcs
    /\ mode = "user" <=> npn > 1
    /\ proc \in [0 .. MaxProcs - 1 -> Descriptor]
    /\ nextSave \in 0 .. SaveCap
    /\ save \in [0 .. SaveCap - 1 -> Values \cup Cpu]
    /\ mem \in [0 .. MemCap - 1 -> Values]
    /\ brk \in 0 .. MemCap
    /\ ustk \in [0 .. StkTop - 1 -> Values]
    /\ cpu \in Cpu

\* The save area is a stack of the live records: the oldest starts at its
\* base, each next one where the one below ends, and next_save_process_address
\* is the end of the last one.  With nobody waiting, in the shell in
\* particular, the area is empty again: exit frees exactly what clone took.
SaveAreaIsStack ==
    /\ \A l \in 1 .. Waiting : RecordStart(l) = SavedUpTo(l - 1)
    /\ nextSave = SavedUpTo(Waiting)

\* Whatever its children do, a waiting parent's record is allocated and no
\* other record overlaps it.  A child that exits without a successful exec
\* leaves cells behind that nothing frees, but never frees a live record.
LiveRecordsAllocated ==
    \A l \in 1 .. Waiting :
        /\ RecordEnd(l) <= nextSave
        /\ \A k \in 1 .. l - 1 : RecordEnd(k) <= RecordStart(l)

\* Below its break a program finds what it wrote itself, what it collected
\* and cleared memory: nothing of the programs that ran before it, above it
\* or below it, not even after it has moved its break over their memory.
NoLeftovers ==
    Running => \A i \in 0 .. brk - 1 :
        mem[i] \in {cpu.prog, Zero} \cup {StatusWord[c] : c \in StatusCodes}

\* clone's header: "Parent resumes when child calls exit, returning 1."
ParentResumesOnExit ==
    [][\A c \in Codes \cup {FaultCode} :
         Child /\ Exit(c) =>
            /\ mode' = "user"
            /\ cpu' = [save[proc[Current].stackAddr] EXCEPT !.a0 = 1]]_vars

-----------------------------------------------------------------------------
(***************************************************************************)
(* The save area and the descriptors of ProcSim implement the process      *)
(* stack of ProcStack.  No history is kept: the suspended images are read  *)
(* back out of the save area, so that a record which is overwritten,       *)
(* freed early or left behind shows as a step ProcStack does not have.     *)
(***************************************************************************)

LoadedImage(p, len) ==
    ImageOf(len, LoadedMem(p, [i \in 0 .. MemCap - 1 |-> Zero]),
            WithArgs([i \in 0 .. StkTop - 1 |-> Zero], p), EntryCpu(p))

ExecImage(p)  == LoadedImage(p, FileLen[p] + Pad)
ShellImage(p) == LoadedImage(p, Larger(ShellFloor, FileLen[p] + Pad))

WithReturn(img, v) == [img EXCEPT !.cpu.a0 = v]

\* A failing execve has marshalled its arguments over the top of the stack.
WithArgsOnTop(img) ==
    [WithReturn(img, -1) EXCEPT !.stk =
       [i \in DOMAIN img.stk |-> IF i >= StkTop - ArgLen THEN NoProg ELSE img.stk[i]]]

\* What a program makes of img: a store puts its name in a cell,
Stored(img, i) == [WithReturn(img, 0) EXCEPT !.mem[i] = img.cpu.prog]

\* a push or a pop moves the stack pointer to s, a push its name under it.
StackFrom(img, s) ==
    [mem |-> img.mem,
     stk |-> [i \in s .. StkTop - 1 |-> IF i < img.cpu.sp THEN img.cpu.prog ELSE img.stk[i]],
     cpu |-> [img.cpu EXCEPT !.sp = s, !.a0 = 0]]

ComputedOf(img) ==
    {Stored(img, i) : i \in Touched \cap DOMAIN img.mem}
      \cup {StackFrom(img, s) : s \in {img.cpu.sp - 1, img.cpu.sp + 1} \cap 0 .. StkTop}

\* brk(n): refused above the cap; growing clears, shrinking keeps.
BreakAt(img, n) ==
    IF n > MemCap THEN WithReturn(img, -1)
    ELSE [WithReturn(img, 0) EXCEPT
            !.mem = [i \in 0 .. n - 1 |-> IF i \in DOMAIN img.mem THEN img.mem[i] ELSE Zero]]

WithStatus(img, c) ==
    {[WithReturn(img, ret) EXCEPT !.mem[i] = StatusWord[c]] :
       i \in WaitSlots \cap DOMAIN img.mem, ret \in {0, 1}}

\* The image of the running process.
Cur == IF Running THEN ImageOf(brk, mem, ustk, cpu) ELSE NoImage

\* The images of the processes that wait, the oldest first.
Suspended == [k \in 1 .. Waiting |-> SavedImage(k)]

\* What every process that has called exec has in its descriptor.
OwnPart(d) == [cwd |-> d.cwd, fds |-> d.fds, status |-> d.status]

Level == [k \in 1 .. npn - 1 |-> OwnPart(proc[k])]

Processes == INSTANCE ProcStack WITH
    Codes      <- StatusCodes,
    Breaks     <- Brks,
    Start      <- ExecImage,
    ShellStart <- ShellImage,
    Returned   <- WithReturn,
    Computed   <- ComputedOf,
    WithBreak  <- BreakAt,
    Damaged    <- WithArgsOnTop,
    Collected  <- WithStatus,
    cur        <- Cur,
    suspended  <- Suspended,
    level      <- Level

\* What a process exits with is what its parent's level gets, and what waiting
\* stores is what the level holds: each of the two calls is its own operation of
\* the stack, with its own status, and no other one that changes as much.
StatusHandedUp ==
    /\ \A c \in Codes \cup {FaultCode} : Exit(c) => Processes!Exit(c)
    /\ \A i \in WaitSlots, ret \in {0, 1} : Wait(i, ret) => Processes!Wait

\* Every behaviour of the kernel is a behaviour of the process stack: a parent
\* whose children keep to one child at a time gets its memory, its live stack
\* and its registers back as they were when it forked, however deep its
\* descendants nest and whatever they write; and the code a child exits with is
\* what its parent's waiting stores until its next child exits, whatever execs
\* and exits of other levels do in between.
ImplementsProcStack == Processes!Spec /\ [][StatusHandedUp]_vars
=============================================================================
