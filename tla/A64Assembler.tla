---------------------------- MODULE A64Assembler ----------------------------
(***************************************************************************)
(* a64-asm2hex2.py: two passes over the lines of a .S file.  The first     *)
(* gives every label an address, the second encodes; both count addresses  *)
(* by the line, and only the linker will count bytes.  Nothing is printed  *)
(* before the second pass is through.                                      *)
(*                                                                         *)
(* The tail "count" of a line, a # and a digit, pass 1 takes for a part of *)
(* the code.                                                               *)
(***************************************************************************)
EXTENDS A64Mnemonics, Tools

Sizes == [word |-> 4, dword |-> 8]

VARIABLES
    labels, parsed,
    starts,           \* HISTORY: where pass 1 had each line begin
    listing           \* output: what pass 2 will print

asm64 == <<labels, parsed, starts, listing>>

\* The shell has emptied the file that is to be printed to.
A64Begins ==
    /\ Begin("pass1") /\ hex2' = <<>>
    /\ labels' = <<>> /\ parsed' = <<>> /\ starts' = <<>> /\ listing' = <<>>

\* The line the pass is at.
Here == assembly[at + 1]

-----------------------------------------------------------------------------
(* Pass 1 *)

\* Mutant: padding as if .align gave the bytes themselves.
PaddingOfBytes(n) == (n - (addr % n)) % n

Padding(n) == (2^n - (addr % 2^n)) % 2^n

\* A label with text behind it is no label, and no instruction either.
TypeOf(line) == IF line.kind = "label" /\ line.tail = "count" THEN "insn" ELSE line.kind

Meets(pass, type) == job = pass /\ ~AtEndOf(assembly) /\ TypeOf(Here) = type

\* parsed.append: the type of the line, and how many bytes it stands for.
Parse(type, size) ==
    /\ Meets("pass1", type)
    /\ parsed' = Append(parsed, [type |-> type, size |-> size])
    /\ starts' = Append(starts, addr)
    /\ Advance(size)
    /\ UNCHANGED <<hex2, listing>>

ParseNothing == \E type \in {"blank", "comment"} : Parse(type, 0) /\ UNCHANGED labels

\* Mutant: the first definition of a label stands.
FirstLabel == [l \in DOMAIN labels \cup {Here.name} |-> IF l \in DOMAIN labels THEN labels[l] ELSE addr]

\* labels[label_name] = addr
LabelHere == [l \in DOMAIN labels \cup {Here.name} |-> IF l = Here.name THEN addr ELSE labels[l]]

ParseLabel == Parse("label", 0) /\ labels' = LabelHere

\* count_hex_bytes of the code: what is behind a ";" was cut off.
ParseRaw == Parse("raw", Len(Here.bytes)) /\ UNCHANGED labels

ParseWord == \E type \in DOMAIN Sizes : Parse(type, Sizes[type]) /\ UNCHANGED labels

Readable(type) == Meets("pass1", type) /\ Here.tail # "count"

ParseZero == Readable("zero") /\ Parse("zero", Here.n) /\ UNCHANGED labels

ParseAlign == Readable("align") /\ Parse("align", Padding(Here.n)) /\ UNCHANGED labels

\* Instruction: 4 bytes
ParseInstruction == Parse("insn", 4) /\ UNCHANGED labels

\* parse_int raises: of the directives, pass 1 reads the operands of these.
ParseRefuses ==
    /\ \E type \in {"zero", "align"} : Meets("pass1", type) /\ ~Readable(type)
    /\ Exits("refused")
    /\ UNCHANGED <<hex2, asm64>>

Pass1Ends ==
    /\ job = "pass1" /\ AtEndOf(assembly)
    /\ Begin("pass2")
    /\ UNCHANGED <<hex2, asm64>>

-----------------------------------------------------------------------------
(* Pass 2 *)

Entry == parsed[at + 1]

\* output.append
Emit(type, lines, size) ==
    /\ job = "pass2" /\ ~AtEndOf(assembly) /\ Entry.type = type
    /\ listing' = listing \o lines
    /\ Advance(size)
    /\ UNCHANGED <<hex2, labels, parsed, starts>>

Bare(bytes) == <<HexLine("", <<>>, bytes, Here, "")>>

EmitNothing == \E type \in {"blank", "comment"} : Emit(type, Bare(<<>>), 0)

EmitLabel == Emit("label", <<HexLine(Here.name, <<>>, <<>>, Here, "")>>, 0)

\* count_hex_bytes of the whole line.
EmitRaw == Emit("raw", Bare(Here.bytes), Len(Here.bytes) + Here.hidden)

\* Mutant: pass 2 counts a .dword like a .word.
AlwaysFour(type) == 4

SizeOf(type) == Sizes[type]

EmitWord ==
    \E type \in DOMAIN Sizes :
        /\ Emit(type, Bare(Bytes(Bits(Here.n, 8 * Sizes[type]), Sizes[type])), SizeOf(type))
        /\ Here.tail # "count"

\* .zero and .align, by what pass 1 has stored.
EmitZeros == \E type \in {"zero", "align"} : Emit(type, Bare(Zeros8(Entry.size)), Entry.size)

\* With a # and a digit behind it the last operand is no operand; a mnemonic
\* that reads none, and a shift amount, are read all the same.
Encoding(line) ==
    IF line.kind # "insn" THEN <<>>
    ELSE IF /\ line.tail = "count"
            /\ line.mn \notin {"ret", "eret", "nop", "wfe", "isb"}
            /\ ~(line.mn \in DOMAIN MoveWideWords /\ Shaped(line.ops, <<"reg", "imm", "lsl">>)) THEN <<>>
    ELSE encode_mnemonic(line.mn, line.ops, addr, labels)

Listed(line, words) ==
    [j \in DOMAIN words |-> HexLine("", <<>>, Bytes(words[j], 4), line, IF j = 1 THEN "" ELSE "more")]

EmitInstruction ==
    LET words == Encoding(Here)
    IN Emit("insn", Listed(Here, words), 4) /\ words # <<>>

\* encode_instruction exits; parse_int of a .word raises.  What was to be
\* printed is lost.
EmitRefuses ==
    /\ job = "pass2" /\ ~AtEndOf(assembly)
    /\ \/ Entry.type = "insn" /\ Encoding(Here) = <<>>
       \/ Entry.type \in DOMAIN Sizes /\ Here.tail = "count"
    /\ Exits("refused")
    /\ UNCHANGED <<hex2, asm64>>

Pass2Ends ==
    /\ job = "pass2" /\ AtEndOf(assembly)
    /\ Exits("printed") /\ hex2' = listing
    /\ UNCHANGED asm64

Pass1 == ParseNothing \/ ParseLabel \/ ParseRaw \/ ParseWord \/ ParseZero \/ ParseAlign
            \/ ParseInstruction \/ ParseRefuses \/ Pass1Ends
Pass2 == EmitNothing \/ EmitLabel \/ EmitRaw \/ EmitWord \/ EmitZeros \/ EmitInstruction
            \/ EmitRefuses \/ Pass2Ends
Assemble == Pass1 \/ Pass2
=============================================================================
