------------------------------ MODULE Assembly ------------------------------
(***************************************************************************)
(* Lines of the .S files and operands of their instructions, for both      *)
(* assemblers.  A line is classified here by what its text is; its tail is *)
(* what follows the code: nothing, a comment, or "count": a # and a digit. *)
(***************************************************************************)
EXTENDS Integers, Sequences, FiniteSetsExt

(* Operands: a register, a number or the bits of a number of more than 31  *)
(* bits, a label, another name, an "lsl #n", or a memory operand with its  *)
(* base, its offset (a register or a number) and whether it ends in "!".   *)

Reg(r)     == [is |-> "reg", reg |-> r]
Imm(n)     == [is |-> "imm", n |-> n]
Mask(bits) == [is |-> "mask", bits |-> bits]
Lab(name)  == [is |-> "label", name |-> name]
Name(name) == [is |-> "name", name |-> name]
Lsl(n)     == [is |-> "lsl", n |-> n]
Mem(base, off, bang) == [is |-> "mem", base |-> base, off |-> off, bang |-> bang]

\* The first operands are of these kinds.
Shaped(ops, kinds) == Len(kinds) <= Len(ops) /\ \A i \in DOMAIN kinds : ops[i].is = kinds[i]

-----------------------------------------------------------------------------
Line(kind) == [kind |-> kind, tail |-> "none"]
Blank           == Line("blank")
Comment         == Line("comment")
Label(name)     == [kind |-> "label", name |-> name, tail |-> "none"]
Insn(mn, ops)   == [kind |-> "insn", mn |-> mn, ops |-> ops, tail |-> "none"]
Directive(d, n) == [kind |-> d, n |-> n, tail |-> "none"]         \* word dword zero align
\* Hex pairs, and how many more of them stand in a comment behind a ";".
RawLine(bytes, hidden) == [kind |-> "raw", bytes |-> bytes, hidden |-> hidden, tail |-> "none"]
Counted(line)   == [line EXCEPT !.tail = "count"]

-----------------------------------------------------------------------------
(***************************************************************************)
(* Machine words as the assemblers put them together.  A word is the set   *)
(* of the positions of its 1 bits: Python's (v & mask) << lo is            *)
(* At(v, lo, n), its | is \cup, the linker's ^ is SymDiff.                 *)
(***************************************************************************)
\* Bit k of v in two's complement.  Numbers are below 2^31 in size.
Bit(v, k) == IF k < 31 THEN (v \div 2^k) % 2 = 1 ELSE v < 0

Bits(v, n) == {k \in 0 .. n - 1 : Bit(v, k)}

\* The low n bits of v, from position lo on.
At(v, lo, n) == {lo + k : k \in Bits(v, n)}

\* n bits of v from its bit k on, moved to position lo.
Moved(v, k, n, lo) == {lo + i : i \in {j \in 0 .. n - 1 : Bit(v, k + j)}}

Up(bits, lo) == {lo + k : k \in bits}

\* A word from its halves: 0x8B000000 is W(\h8B00, 0).
W(hi, lo) == At(hi, 16, 16) \cup At(lo, 0, 16)

-----------------------------------------------------------------------------
\* n bits of a word from position lo on, as a word and as a number.
Field(word, lo, n) == {k \in 0 .. n - 1 : lo + k \in word}

Number(bits) == MapThenSumSet(LAMBDA k : 2^k, bits)

Unsigned(word, lo, n) == Number(Field(word, lo, n))

Signed(word, lo, n) ==
    LET f == Field(word, lo, n)
    IN Number(f \ {n - 1}) - IF n - 1 \in f THEN 2^(n - 1) ELSE 0

\* to_le_hex: the bytes of a word, the low one first.
Bytes(word, n) == [i \in 1 .. n |-> Field(word, 8 * (i - 1), 8)]

\* The word that four bytes are.
Word(bytes) == UNION {Up(bytes[i], 8 * (i - 1)) : i \in DOMAIN bytes}
=============================================================================
