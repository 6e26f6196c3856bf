----------------------------- MODULE Hex2ToHex0 -----------------------------
(***************************************************************************)
(* hex2tohex0.py: the linker's bytes, with the lines of the hex2 file as   *)
(* comments.  It counts for itself how many bytes each line stands for; if *)
(* it counts otherwise than the linker, bytes and lines come apart.        *)
(***************************************************************************)
EXTENDS Tools

Hex0Line(line, bytes) == [def |-> line.def, bytes |-> bytes, line |-> line.line, part |-> line.part]

\* Mutant: a line with fragments counts a byte for each of them as well.
count_every_word(line) == 4 * Len(line.refs) + Len(line.bytes)

\* A line with a dot, a $ or an @ is one word.
count_bytes(line) ==
    IF \E r \in DOMAIN line.refs : line.refs[r].sigil \in {".", "$", "@"} THEN 4 ELSE Len(line.bytes)

AnnotateBegins == Begin("annotate") /\ hex0' = <<>>

\* Comment, label definition, or empty line.
CopyLine ==
    \E i \in DOMAIN hex2 :
        /\ job = "annotate" /\ AtLine(i, hex2) /\ count_bytes(hex2[i]) = 0
        /\ hex0' = Append(hex0, Hex0Line(hex2[i], <<>>))
        /\ Advance(0)

\* binary[offset:offset + nbytes]
Chunk(n) == SubSeq(bin, addr + 1, addr + n)

AnnotateLine ==
    \E i \in DOMAIN hex2 :
        LET n == count_bytes(hex2[i])
        IN /\ job = "annotate" /\ AtLine(i, hex2)
           /\ n > 0 /\ addr + n <= Len(bin)
           /\ hex0' = Append(hex0, Hex0Line(hex2[i], Chunk(n)))
           /\ Advance(n)

\* The binary is too short: what is written stays.
AnnotateRefuses ==
    /\ job = "annotate"
    /\ \E i \in DOMAIN hex2 : AtLine(i, hex2) /\ addr + count_bytes(hex2[i]) > Len(bin)
    /\ Exits("refused")
    /\ UNCHANGED hex0

\* Bytes that are left over are worth a warning only.
AnnotateEnds ==
    /\ job = "annotate" /\ AtEndOf(hex2)
    /\ Exits("annotated")
    /\ UNCHANGED hex0

Annotate == CopyLine \/ AnnotateLine \/ AnnotateRefuses \/ AnnotateEnds
=============================================================================
