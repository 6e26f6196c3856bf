-------------------------------- MODULE Paths --------------------------------
(***************************************************************************)
(* absolute_path of the stage 2 kernels (riscv64-stage2.S; the AArch64     *)
(* kernel's is the same): the current directory and a path become an       *)
(* absolute path without "//" and "/..", in the scratch buffer.            *)
(*                                                                         *)
(* It works on memory, one loop iteration a step: the path it is given may *)
(* lie in the scratch buffer itself.  Address 0 is the scratch buffer.     *)
(***************************************************************************)
EXTENDS Integers, SequencesExt

CONSTANTS
    Letters,      \* what names are made of, next to "." and "/"
    Cwds,         \* current directories: chdir leaves them with a last "/"
    MaxLen,       \* BOUND: the length of a path
    Input,        \* where the path that is resolved lies: 0 or beyond the buffer
    MemSize       \* BOUND: cells of memory

Chars == Letters \cup {".", "/"}
NUL   == "NUL"

ASSUME PathsAssumption ==
    /\ MaxLen \in Nat /\ Input \in Nat /\ MemSize \in Nat
    /\ Input + MaxLen < MemSize
    /\ NUL \notin Letters
    /\ \A c \in Cwds : c \in Seq(Chars) /\ c # <<>> /\ c[1] = "/" /\ Last(c) = "/"

VARIABLES
    mem,          \* memory
    src, dst,     \* s0 and s1
    last,         \* the last character that was kept
    pc,           \* the loop absolute_path is in
    cwd, path     \* what it was called with

vars == <<mem, src, dst, last, pc, cwd, path>>

\* The string at address a.
StringAt(a) ==
    LET end == CHOOSE e \in a .. MemSize - 1 :
                 mem[e] = NUL /\ \A i \in a .. e - 1 : mem[i] # NUL
    IN [k \in 1 .. end - a |-> mem[a + k - 1]]

\* Memory with the string s and its NUL at address a.
Stored(m, s, a) ==
    [i \in DOMAIN m |-> IF i \in a .. a + Len(s) - 1 THEN s[i - a + 1]
                        ELSE IF i = a + Len(s) THEN NUL ELSE m[i]]

\* The string s is at a, whatever follows it.
At(a, s) == \A k \in 1 .. Len(s) : a + k - 1 < MemSize /\ mem[a + k - 1] = s[k]

Init ==
    /\ cwd \in Cwds
    /\ path \in UNION {[1 .. n -> Chars] : n \in 0 .. MaxLen}
    /\ mem = Stored([i \in 0 .. MemSize - 1 |-> NUL], path, Input)
    /\ src = Input /\ dst = 0 /\ last = NUL
    /\ pc = "start"

BehindCwd == Len(cwd)

\* Skip one "./"; a relative path is copied behind the current directory,
\* which lies in the process descriptor.
Start ==
    /\ pc = "start"
    /\ LET p == IF At(src, <<".", "/">>) THEN src + 2 ELSE src
       IN /\ src' = p
          /\ \/ /\ mem[p] = "/"
                /\ UNCHANGED <<mem, dst>>
             \/ /\ mem[p] # "/"
                /\ mem' = [i \in DOMAIN mem |-> IF i < Len(cwd) THEN cwd[i + 1] ELSE mem[i]]
                /\ dst' = BehindCwd
    /\ pc' = "copy"
    /\ UNCHANGED <<last, cwd, path>>

\* abs_copy_input: one character, the NUL included.  Beyond the modelled
\* memory the copy runs into other data and never stops for a reason of its own.
CopyInput ==
    /\ pc = "copy" /\ dst < MemSize
    /\ mem' = [mem EXCEPT ![dst] = mem[src]]
    /\ \/ /\ mem[src] = NUL
          /\ pc' = "collapse" /\ src' = 0 /\ dst' = 0
       \/ /\ mem[src] # NUL
          /\ pc' = pc /\ src' = src + 1 /\ dst' = dst + 1
    /\ UNCHANGED <<last, cwd, path>>

\* Mutant: runs of "/" stay.
KeptAlways(c) == TRUE

\* abs_collapse_loop keeps a "/" only behind something else.
Kept(c) == ~(c = "/" /\ last = "/")

Collapse ==
    /\ pc = "collapse"
    /\ \/ /\ mem[src] = NUL
          /\ mem' = [mem EXCEPT ![dst] = NUL]
          /\ pc' = "scan" /\ src' = 0 /\ UNCHANGED <<dst, last>>
       \/ /\ mem[src] # NUL /\ Kept(mem[src])
          /\ mem' = [mem EXCEPT ![dst] = mem[src]]
          /\ dst' = dst + 1 /\ last' = mem[src] /\ src' = src + 1 /\ UNCHANGED pc
       \/ /\ mem[src] # NUL /\ ~Kept(mem[src])
          /\ src' = src + 1 /\ UNCHANGED <<mem, dst, last, pc>>
    /\ UNCHANGED <<cwd, path>>

UpHere == At(src, <<"/", ".", ".", "/">>) \/ At(src, <<"/", ".", ".", NUL>>)

\* Where the component in front of the "/.." at src begins; at the root there
\* is none.
Before == Max({0} \cup {i \in 0 .. src - 1 : mem[i] = "/"})

\* Mutant: nothing is taken out.
AtUp == src

\* What follows the "/..".
AfterUp == src + 3

\* Mutant: the scan resumes in front of what it took out.
InFront == Before - 1

\* The scan starts again.
Restart == 0

\* abs_norm_scan
Scan ==
    /\ pc = "scan"
    /\ \/ /\ mem[src] = NUL
          /\ pc' = "done" /\ UNCHANGED <<mem, src>>
       \/ /\ mem[src] # NUL /\ ~UpHere
          /\ src' = src + 1 /\ UNCHANGED <<mem, pc>>
       \/ /\ At(src, <<"/", ".", ".", "/">>)
          /\ mem' = Stored(mem, StringAt(AfterUp), Before)
          /\ src' = Restart /\ UNCHANGED pc
       \/ /\ At(src, <<"/", ".", ".", NUL>>)
          /\ mem' = Stored(mem, IF Before = 0 THEN <<"/">> ELSE <<>>, Before)
          /\ pc' = "done" /\ UNCHANGED src
    /\ UNCHANGED <<dst, last, cwd, path>>

Next == Start \/ CopyInput \/ Collapse \/ Scan

Spec == Init /\ [][Next]_vars /\ WF_vars(Next)

-----------------------------------------------------------------------------
(* What an absolute path is: its components, one after the other. *)

\* A component goes behind the others, ".." takes the last of them away, and
\* between two slashes next to each other there is none.
Into(dirs, part) ==
    IF part = <<>> THEN dirs
    ELSE IF part # <<".", ".">> THEN Append(dirs, part)
    ELSE IF dirs = <<>> THEN <<>> ELSE Front(dirs)

\* One character more, behind complete components and a part of the next.
Take(got, c) ==
    IF c = "/" THEN [dirs |-> Into(got.dirs, got.part), part |-> <<>>]
    ELSE [dirs |-> got.dirs, part |-> Append(got.part, c)]

\* What each number of characters of s comes to.
Walk(s) ==
    LET walk[i \in 0 .. Len(s)] ==
          IF i = 0 THEN [dirs |-> <<>>, part |-> <<>>] ELSE Take(walk[i - 1], s[i])
    IN walk

Components(s) == Into(Walk(s)[Len(s)].dirs, Walk(s)[Len(s)].part)

\* A relative path begins at the directory; one "./" in front does not count.
Whole(dir, p) ==
    LET rel == IF IsPrefix(<<".", "/">>, p) THEN SubSeq(p, 3, Len(p)) ELSE p
    IN IF IsPrefix(<<"/">>, rel) THEN rel ELSE dir \o rel

Named(parts) == FlattenSeq([k \in DOMAIN parts |-> <<"/">> \o parts[k]])

\* A "/" at the end stays, so that such a path is no file's.
Absolute(dir, p) ==
    LET parts == Components(Whole(dir, p))
    IN IF parts = <<>> THEN <<"/">>
       ELSE Named(parts) \o (IF Last(Whole(dir, p)) = "/" THEN <<"/">> ELSE <<>>)

TypeOK ==
    /\ mem \in [0 .. MemSize - 1 -> Chars \cup {NUL}]
    /\ src \in 0 .. MemSize /\ dst \in 0 .. MemSize
    /\ last \in Chars \cup {NUL}
    /\ pc \in {"start", "copy", "collapse", "scan", "done"}

\* Whatever detours a path takes, absolute_path returns the one name under
\* which find_file and openat know the file.
ResolvesToAbsolute == pc = "done" => StringAt(0) = Absolute(cwd, path)

\* What comes out has one form, or find_file, which compares names byte by
\* byte, would take one file for two: it begins with "/", and neither an empty
\* component nor a ".." is left in it.
Canonical ==
    pc = "done" =>
        LET s == StringAt(0) IN
        /\ s # <<>> /\ s[1] = "/"
        /\ \A k \in 1 .. Len(s) - 1 : ~(s[k] = "/" /\ s[k + 1] = "/")
        /\ \A k \in 1 .. Len(s) - 2 :
             s[k] = "/" /\ s[k + 1] = "." /\ s[k + 2] = "." => k + 3 <= Len(s) /\ s[k + 3] # "/"

\* The path lies behind the place the current directory is copied to.
Apart == \A c \in Cwds : Len(c) <= Input

\* absolute_path writes the current directory and the path, and nothing
\* behind them: "a0 = pointer to resolved path in scratch buffer
\* (0xA0000000). Uses current process's current_dir if path is relative".
WritesOnlyTheResult == dst <= Len(cwd) + Len(path)

\* However often "/.." takes out a component and the scan starts again,
\* absolute_path returns.
Returns == <>(pc = "done")
=============================================================================
