------------------------------- MODULE Meaning -------------------------------
(***************************************************************************)
(* What the toolchain owes its user: a .hex0 file whose bytes do what the  *)
(* lines of the .S file ask for, instruction by instruction.               *)
(***************************************************************************)
EXTENDS Toolchain, Manuals

\* A line of the .hex0 file that begins what a source line has become.
Begins(line) == line.part \notin {"lower", "addi", "more"}

\* The lines of a file that begin something begin the first n lines of a
\* source: the one with k of them up to it begins line k.
Covers(lines, source, n) ==
    LET begin == {i \in DOMAIN lines : Begins(lines[i])}
    IN  /\ Cardinality(begin) = n
        /\ \A i \in begin : lines[i].line = source[Cardinality({j \in begin : j <= i})]

\* The bytes of a file from line i on, each by its line and its place there.
BytesFrom(lines, i) == UNION {{k} \X DOMAIN lines[k].bytes : k \in i .. Len(lines)}

\* Where the lines begin, by the bytes of those before.
Spots(lines) ==
    LET spot[i \in 1 .. Len(lines) + 1] == IF i = 1 THEN 0 ELSE spot[i - 1] + Len(lines[i - 1].bytes)
    IN spot

\* From line i on, where each label is; the last of several with its name.
There(lines, i) ==
    LET defs == {j \in DOMAIN lines : lines[j].def # ""}
        spot == Spots(lines)
    IN [l \in {lines[j].def : j \in defs} |-> spot[Max({j \in defs : lines[j].def = l})] - spot[i]]

\* The words of a source line: of line i and those that go on from it.
WordsFrom(lines, i) ==
    LET last == Max({j \in i .. Len(lines) : \A k \in i + 1 .. j : ~Begins(lines[k])})
    IN [w \in 1 .. last - i + 1 |-> Word(lines[i + w - 1].bytes)]

\* What an instruction asks for is what its words do.
Obeys(machine, line, words, there) ==
    IF machine = "riscv64" THEN RvMeans(line.mn, line.ops, words, there)
    ELSE Len(words) = 1 /\ Decoded(words[1]) = Asked(line.mn, line.ops, there)

Means(lines, i) ==
    LET line  == lines[i].line
        bytes == lines[i].bytes
    IN CASE line.kind = "insn"  -> Len(bytes) = 4 /\ Obeys(isa, line, WordsFrom(lines, i), There(lines, i))
         [] line.kind = "raw"   -> bytes = line.bytes
         [] line.kind = "word"  -> Len(bytes) = 4 /\ Word(bytes) = Bits(line.n, 32)
         [] line.kind = "dword" -> Len(bytes) = 8 /\ Word(bytes) = Bits(line.n, 64)
         [] line.kind = "zero"  -> bytes = Zeros8(line.n)
         [] line.kind = "align" -> /\ bytes = Zeros8(Len(bytes)) /\ Len(bytes) < 2^line.n
                                   /\ (Spots(lines)[i] + Len(bytes)) % 2^line.n = 0
         [] OTHER -> bytes = <<>>

\* What the lines of data are: bytes, or numbers of them.
Legible(line) ==
    /\ line.kind = "raw"   => line.bytes \in Seq(SUBSET (0 .. 7)) /\ line.hidden \in Nat
    /\ line.kind = "zero"  => line.n \in Nat
    /\ line.kind = "align" => 2^line.n \in Nat \ {0}

AllLegible(sources) == \A s \in sources : \A i \in DOMAIN s.lines : Legible(s.lines[i])

\* A line pass 1 can count: its kind is known, and a mov is one word.
Countable(line) ==
    /\ line.kind \in {"blank", "comment", "label", "insn", "raw", "word", "dword", "zero", "align"}
    /\ line.kind = "label" => line.name # ""
    /\ Legible(line)
    /\ line.kind = "insn"  => (line.mn = "mov" => Mov(line.ops) = <<>> \/ DOMAIN Mov(line.ops) = {1})

AllCountable(sources) ==
    \A s \in sources : s.isa = "aarch64" => \A i \in DOMAIN s.lines : Countable(s.lines[i])

-----------------------------------------------------------------------------
(* Properties *)

ToolsTypeOK ==
    /\ isa \in Machines /\ made \in {"none", "running", "ok", "failed"} /\ spoilt \in BOOLEAN
    /\ fresh \subseteq {"hex2", "bin", "hex0"}
    /\ job \in {"idle", "pass1", "pass2", "rv64", "printed", "link1", "link2", "linked", "annotate", "annotated", "refused"}
    /\ at \in Nat /\ addr \in Nat
    /\ \A l \in DOMAIN labels : labels[l] \in Nat
    /\ \A l \in DOMAIN targets : targets[l] \in Nat
    /\ shift \subseteq 0 .. 31
    /\ \A i \in DOMAIN bin : bin[i] \subseteq 0 .. 7

\* Made, and no recipe has failed on the way.
Made == made = "ok" /\ ~spoilt

\* The .hex0 file has the lines of the .S file, each once and in their order:
\* not those of a source that was there before.
MakesTheSource == Made => Covers(hex0, assembly, Len(assembly))

\* The bytes next to a line do what it says: immediates, registers, and the
\* distances to labels, measured on the bytes that are there.
SaysWhatItMeans == Made => \A i \in DOMAIN hex0 : Begins(hex0[i]) => Means(hex0, i)

\* The addresses that a64-asm2hex2.py counted, and encoded branches with, are
\* those the linker finds: counting by the line comes out as counting bytes.
AddressesAgree == isa = "aarch64" /\ job = "link2" /\ ~spoilt => targets = labels

\* hex2tohex0.py and the linker count alike: the bytes it has still to hand
\* out are those of the lines it has still to read.  It neither runs short nor
\* leaves bytes over, which it would only warn of.
BytesInStep ==
    job = "annotate" /\ ~spoilt =>
        Len(bin) - addr = Cardinality(BytesFrom(hex2, at + 1))
=============================================================================
