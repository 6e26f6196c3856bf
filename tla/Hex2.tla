-------------------------------- MODULE Hex2 --------------------------------
(***************************************************************************)
(* The hex2 linker, vendored in hex2/: from lines to bytes, in two passes. *)
(* For RISC-V it xors fragments and references into a shift register, and  *)
(* that into the bytes that follow, on the same line or on a later one.    *)
(* For AArch64 the assembler leaves it nothing but bytes and labels.       *)
(***************************************************************************)
EXTENDS Tools, SequencesExt

VARIABLES
    targets,          \* the labels and where they are
    shift             \* the shift register

linking == <<targets, shift>>

\* The fields of the RISC-V formats.
Fits(sigil, d) ==
    CASE sigil = "@" -> d \in -4096 .. 4095 /\ d % 2 = 0
      [] sigil = "$" -> d \in -1048576 .. 1048575 /\ d % 2 = 0
      [] OTHER       -> TRUE

\* Mutant: the upper part takes no account of the sign of the lower.
UpperAsItIs(d) == Moved(d, 12, 20, 12)

\* One more, if the lower 12 bits will count as negative.
Upper(d) == Moved(IF d % 4096 < 2048 THEN d ELSE d + 4096, 12, 20, 12)

\* UpdateShiftRegister: ! is on the line behind that of its ~.
Reference(sigil, d) ==
    CASE sigil = "!" -> At(d + 4, 20, 12)
      [] sigil = "@" -> Moved(d, 1, 4, 8) \cup Moved(d, 5, 6, 25) \cup Moved(d, 11, 1, 7) \cup Moved(d, 12, 1, 31)
      [] sigil = "$" -> Moved(d, 1, 10, 21) \cup Moved(d, 11, 1, 20) \cup Moved(d, 12, 8, 12) \cup Moved(d, 20, 1, 31)
      [] sigil = "~" -> Upper(d)

\* GetTarget, and what a reference comes to from the line at addr.
Resolvable(ref) ==
    IF ref.sigil = "." THEN TRUE ELSE ref.name \in DOMAIN targets /\ Fits(ref.sigil, targets[ref.name] - addr)

Resolved(ref) == IF ref.sigil = "." THEN ref.word ELSE Reference(ref.sigil, targets[ref.name] - addr)

\* The register with the references of a line in it.
Shifted(refs) ==
    LET word[r \in 0 .. Len(refs)] == IF r = 0 THEN shift ELSE SymDiff(word[r - 1], Resolved(refs[r]))
    IN word[Len(refs)]

\* Mutant: the register is shifted, but nothing drops out of it.
BehindAll(word, n) == {k - 8 * n : k \in word}

\* sr_nextb: n bytes are out of the register.
Behind(word, n) == {k - 8 * n : k \in {j \in word : j >= 8 * n}}

-----------------------------------------------------------------------------
\* hex2 -o opens, and empties, its output first of all.
LinkBegins ==
    /\ Begin("link1")
    /\ bin' = <<>> /\ targets' = <<>> /\ shift' = {}

\* storeLabel: a later label hides an earlier one of its name.
Stored(def) ==
    IF def = "" THEN targets
    ELSE [l \in DOMAIN targets \cup {def} |-> IF l = def THEN addr ELSE targets[l]]

\* First pass: only bytes move the place.
LinkCounts ==
    \E i \in DOMAIN hex2 :
        /\ job = "link1" /\ AtLine(i, hex2)
        /\ targets' = Stored(hex2[i].def)
        /\ Advance(Len(hex2[i].bytes))
        /\ UNCHANGED <<bin, shift>>

LinkTurns ==
    /\ job = "link1" /\ AtEndOf(hex2)
    /\ Begin("link2")
    /\ UNCHANGED <<bin, linking>>

\* Second pass
LinkWrites ==
    \E i \in DOMAIN hex2 :
        LET line == hex2[i]
            word == Shifted(line.refs)
            n    == Len(line.bytes)
        IN /\ job = "link2" /\ AtLine(i, hex2)
           /\ \A r \in DOMAIN line.refs : Resolvable(line.refs[r])
           /\ bin' = bin \o [b \in 1 .. n |-> SymDiff(line.bytes[b], Field(word, 8 * (b - 1), 8))]
           /\ shift' = Behind(word, n)
           /\ Advance(n)
           /\ UNCHANGED targets

\* An unknown label or a displacement out of range: what is written stays.
LinkRefuses ==
    \E i \in DOMAIN hex2 :
        /\ job = "link2" /\ AtLine(i, hex2)
        /\ \E r \in DOMAIN hex2[i].refs : ~Resolvable(hex2[i].refs[r])
        /\ Exits("refused")
        /\ UNCHANGED <<bin, linking>>

LinkEnds ==
    /\ job = "link2" /\ AtEndOf(hex2)
    /\ Exits("linked")
    /\ UNCHANGED <<bin, linking>>

Link == LinkCounts \/ LinkTurns \/ LinkWrites \/ LinkRefuses \/ LinkEnds
=============================================================================
