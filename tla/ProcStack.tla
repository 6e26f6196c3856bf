------------------------------ MODULE ProcStack ------------------------------
(***************************************************************************)
(* What the fork/exec/exit simulation of the stage 2 kernels promises to   *)
(* the programs it runs: no save area, no descriptor slots, no copying.    *)
(*                                                                         *)
(* One process runs at a time.  A fork suspends the caller: its image (the *)
(* memory below its break, its live user stack, its registers) is pushed   *)
(* on a stack and the child goes on from the same image.  An exit brings   *)
(* the topmost image back exactly as it was, except that its fork returns  *)
(* 1 and that it can collect the exit status.                              *)
(***************************************************************************)
EXTENDS Integers, Sequences

CONSTANTS
    Progs,                 \* programs
    Codes,                 \* exit statuses
    Breaks,                \* what a process asks brk for
    Root,                  \* the directory the shell runs in
    NoImage,               \* there is no process: the shell has control
    Start(_),              \* Start(p): the image of p just loaded by an execve
    ShellStart(_),         \* the same for a program that the shell loads
    Returned(_, _),        \* Returned(img, v): img with v as its return value
    Computed(_),           \* Computed(img): what one instruction can make of img
    WithBreak(_, _),       \* WithBreak(img, n): img after its brk(n)
    Damaged(_),            \* Damaged(img): what a failing execve makes of img
    Collected(_, _)        \* Collected(img, c): img after it has waited and got c

VARIABLES
    cur,                   \* the image of the running process, or NoImage
    suspended,             \* the images waiting in fork, the oldest first
    level                  \* [cwd, fds, status] of every process that has called exec

vars == <<cur, suspended, level>>

Top(s)   == s[Len(s)]
Popped(s) == SubSeq(s, 1, Len(s) - 1)

Running == cur # NoImage

\* A child that has not called exec yet shares its parent's level.
PreExec == Len(suspended) = Len(level)

Init ==
    /\ cur = NoImage
    /\ suspended = <<>>
    /\ level = <<>>

\* A new level inherits the directory, starts with no open file, and with
\* whatever status an earlier process may have left there.
NewLevel(dir) == {[cwd |-> dir, fds |-> {}, status |-> c] : c \in Codes}

\* The shell starts a program.
Run(p) ==
    /\ ~Running
    /\ cur' = ShellStart(p)
    /\ suspended' = <<>>
    /\ \E lv \in NewLevel(Root) : level' = <<lv>>

\* The running process computes: it stores what is its own to its own memory
\* or stack.
Compute ==
    /\ Running
    /\ cur' \in Computed(cur)
    /\ UNCHANGED <<suspended, level>>

\* It moves the end of its memory.
Brk(n) ==
    /\ Running
    /\ cur' = WithBreak(cur, n)
    /\ UNCHANGED <<suspended, level>>

\* It opens or closes a file or changes directory: only its level changes.
Attributes ==
    /\ Running
    /\ \E v \in {-1, 0} : cur' = Returned(cur, v)
    /\ level # <<>>
    /\ level' = [level EXCEPT ![Len(level)] = [Top(level') EXCEPT !.status = Top(level).status]]
    /\ UNCHANGED suspended

Fork ==
    /\ Running
    /\ ~PreExec
    /\ suspended' = Append(suspended, cur)
    /\ cur' = Returned(cur, 0)
    /\ UNCHANGED level

\* A child gets a level of its own, any other process is replaced.
Exec(p) ==
    /\ Running
    /\ cur' = Start(p)
    /\ \/ /\ PreExec
          /\ \E lv \in NewLevel(Top(level).cwd) : level' = Append(level, lv)
       \/ /\ ~PreExec
          /\ level' = [level EXCEPT ![Len(level)].fds = {}]
    /\ UNCHANGED suspended

ExecFail ==
    /\ Running
    /\ ~PreExec
    /\ cur' = Damaged(cur)
    /\ UNCHANGED <<suspended, level>>

\* The process exits with status c, which its parent finds in its level
\* whatever was there before.
Exit(c) ==
    /\ Running
    /\ ~PreExec
    /\ \/ /\ suspended = <<>>
          /\ cur' = NoImage
          /\ level' = <<>>
          /\ UNCHANGED suspended
       \/ /\ suspended # <<>>
          /\ cur' = Returned(Top(suspended), 1)
          /\ suspended' = Popped(suspended)
          /\ level' = [Popped(level) EXCEPT ![Len(level) - 1].status = c]

\* The process collects what its last child to exit left in its level.
Wait ==
    /\ Running
    /\ cur' \in Collected(cur, Top(level).status)
    /\ UNCHANGED <<suspended, level>>

Next ==
    \/ Attributes
    \/ Compute
    \/ Fork
    \/ \E c \in Codes : Exit(c)
    \/ \E n \in Breaks : Brk(n)
    \/ \E p \in Progs : Run(p) \/ Exec(p)
    \/ ExecFail
    \/ Wait

Spec == Init /\ [][Next]_vars
=============================================================================
