-------------------------------- MODULE Tools --------------------------------
(***************************************************************************)
(* What the tools of the build share: the files, and how they read them.   *)
(* Each tool is one process that reads a file line by line, some of them   *)
(* twice; one runs at a time.                                              *)
(***************************************************************************)
EXTENDS Assembly

(* A line of a hex2 file: the label it defines (or none, ""), fragments and *)
(* references for the shift register, bytes; and, in its comment, the       *)
(* source line it came from and which part of it it is.                     *)

HexLine(def, refs, bytes, line, part) ==
    [def |-> def, refs |-> refs, bytes |-> bytes, line |-> line, part |-> part]

Frag(word)     == [sigil |-> ".", word |-> word]      \* .XXXXXXXX
Ref(sigil, nm) == [sigil |-> sigil, name |-> nm]      \* @ $ ~ ! and a label

\* .zero, as bytes.
Zeros8(n) == [i \in 1 .. n |-> {}]

VARIABLES
    assembly,         \* the .S file: lines of Assembly
    hex2, bin, hex0,  \* what is made of it: lines, bytes, and lines with bytes
    job,              \* which tool runs, and in which of its passes
    at, addr          \* how many lines it is through with, how many bytes it has counted

reading == <<job, at, addr>>

\* Line i of a file is the next; none is left.
AtLine(i, lines) == at = i - 1 /\ i \in DOMAIN lines

AtEndOf(lines) == at = Len(lines)

\* A tool starts over, or goes on by a line that stands for size bytes.
Begin(tool) == job' = tool /\ at' = 0 /\ addr' = 0

Advance(size) == at' = at + 1 /\ addr' = addr + size /\ UNCHANGED job

\* The tool is through, or exits with an error: "refused".
Exits(how) == job' = how /\ UNCHANGED <<at, addr>>
=============================================================================
