------------------------------ MODULE Commands ------------------------------
(***************************************************************************)
(* What the builder shell promises: the commands of its script take effect *)
(* one after the other, each as a whole, and whatever /dev/hda is in the   *)
(* end is on the disk when the machine stops.                              *)
(***************************************************************************)
EXTENDS Naturals, Sequences

CONSTANTS
    Hda,              \* the name /dev/hda
    Compiled(_),      \* the bytes a hex0 source stands for
    Scripts           \* the scripts: sequences of commands

(* A command is [op, name, arg, data]: src stores data in name, hex0       *)
(* compiles name into arg, run has program name store its input data in    *)
(* arg; f, comment and blank use none of these.                            *)

VARIABLES
    script,           \* the commands still to be executed
    started,          \* the first of them has begun
    files,            \* the files, oldest first: [name, data]
    enable_flush,     \* f was executed
    disk,             \* what was written to the disk last
    halted

cvars == <<script, started, files, enable_flush, disk, halted>>

Exists(fs, n) == \E i \in 1 .. Len(fs) : fs[i].name = n

\* The newest file of a name counts.
Newest(fs, n) ==
    LET i == CHOOSE i \in 1 .. Len(fs) : fs[i].name = n /\ \A j \in i + 1 .. Len(fs) : fs[j].name # n
    IN fs[i].data

WriteBack == disk' = IF Exists(files, Hda) THEN Newest(files, Hda) ELSE disk

Store(n, d) == files' = Append(files, [name |-> n, data |-> d])

Init ==
    /\ script \in Scripts
    /\ started = FALSE
    /\ files = <<>>
    /\ enable_flush = FALSE
    /\ disk = <<>>
    /\ halted = FALSE

Begin ==
    /\ ~started /\ script # <<>> /\ Head(script).op # "blank"
    /\ started' = TRUE
    /\ IF Head(script).op = "run" /\ enable_flush THEN WriteBack ELSE UNCHANGED disk
    /\ UNCHANGED <<script, files, enable_flush, halted>>

Effect(c) ==
    \/ c.op = "src" /\ Store(c.name, c.data) /\ UNCHANGED enable_flush
    \/ c.op = "hex0" /\ Exists(files, c.name) /\ Store(c.arg, Compiled(Newest(files, c.name))) /\ UNCHANGED enable_flush
    \/ c.op = "run" /\ Exists(files, c.name) /\ Store(c.arg, c.data) /\ UNCHANGED enable_flush
    \/ c.op \in {"hex0", "run"} /\ ~Exists(files, c.name) /\ UNCHANGED <<files, enable_flush>>
    \/ c.op = "comment" /\ UNCHANGED <<files, enable_flush>>
    \/ c.op = "f" /\ enable_flush' = TRUE /\ UNCHANGED files

Complete ==
    /\ started
    /\ Effect(Head(script))
    /\ script' = Tail(script)
    /\ started' = FALSE
    /\ UNCHANGED <<disk, halted>>

BlankLine ==
    /\ ~started /\ script # <<>> /\ Head(script).op = "blank"
    /\ script' = Tail(script)
    /\ UNCHANGED <<started, files, enable_flush, disk, halted>>

Halt ==
    /\ ~started /\ script = <<>> /\ ~halted
    /\ halted' = TRUE
    /\ WriteBack
    /\ UNCHANGED <<script, started, files, enable_flush>>

Next == Begin \/ Complete \/ BlankLine \/ Halt

Spec == Init /\ [][Next]_cvars
=============================================================================
