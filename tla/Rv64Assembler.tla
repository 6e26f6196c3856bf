---------------------------- MODULE Rv64Assembler ----------------------------
(***************************************************************************)
(* rv64-asm2hex2.py: line by line from RISC-V assembly to hex2.  It keeps  *)
(* no state and resolves nothing: an instruction becomes fragments that    *)
(* the linker will xor, and a label a reference.  Nothing but its kind is  *)
(* asked of an operand: what has no room in its field is masked.           *)
(* sfence.vma and fence.i are sfence_vma and fence_i here.                 *)
(***************************************************************************)
EXTENDS Tools, SequencesExt

REGS == [
    zero |-> 0, ra |-> 1, sp |-> 2, gp |-> 3, tp |-> 4, t0 |-> 5, t1 |-> 6, t2 |-> 7, s0 |-> 8, fp |-> 8, s1 |-> 9,
    a0 |-> 10, a1 |-> 11, a2 |-> 12, a3 |-> 13, a4 |-> 14, a5 |-> 15, a6 |-> 16, a7 |-> 17, s2 |-> 18, s3 |-> 19,
    s4 |-> 20, s5 |-> 21, s6 |-> 22, s7 |-> 23, s8 |-> 24, s9 |-> 25, s10 |-> 26, s11 |-> 27,
    t3 |-> 28, t4 |-> 29, t5 |-> 30, t6 |-> 31]

CSRS == [
    sstatus |-> \h100, sie |-> \h104, stvec |-> \h105, sscratch |-> \h140, sepc |-> \h141, scause |-> \h142,
    stval |-> \h143, sip |-> \h144, satp |-> \h180, mstatus |-> \h300, mie |-> \h304, mtvec |-> \h305,
    mscratch |-> \h340, mepc |-> \h341, mcause |-> \h342, mtval |-> \h343, mip |-> \h344]

OPCODES == [
    lui  |-> W(0, \h37),    auipc |-> W(0, \h17),   jal   |-> W(0, \h6F),   jalr |-> W(0, \h67),
    beq  |-> W(0, \h63),    bne   |-> W(0, \h1063), blt   |-> W(0, \h4063), bge  |-> W(0, \h5063),
    bltu |-> W(0, \h6063),  bgeu  |-> W(0, \h7063),
    lb   |-> W(0, \h03),    lh    |-> W(0, \h1003), lw    |-> W(0, \h2003), ld   |-> W(0, \h3003),
    lbu  |-> W(0, \h4003),  lhu   |-> W(0, \h5003), lwu   |-> W(0, \h6003),
    sb   |-> W(0, \h23),    sh    |-> W(0, \h1023), sw    |-> W(0, \h2023), sd   |-> W(0, \h3023),
    addi |-> W(0, \h13),    slti  |-> W(0, \h2013), sltiu |-> W(0, \h3013), xori |-> W(0, \h4013),
    ori  |-> W(0, \h6013),  andi  |-> W(0, \h7013), addiw |-> W(0, \h1B),
    slli |-> W(0, \h1013),  srli  |-> W(0, \h5013), srai  |-> W(\h4000, \h5013),
    add  |-> W(0, \h33),    sub   |-> W(\h4000, \h33), sll |-> W(0, \h1033), slt |-> W(0, \h2033),
    sltu |-> W(0, \h3033),  xor   |-> W(0, \h4033), srl   |-> W(0, \h5033), sra  |-> W(\h4000, \h5033),
    or   |-> W(0, \h6033),  and   |-> W(0, \h7033),
    mul  |-> W(\h0200, \h0033), div  |-> W(\h0200, \h4033), rem  |-> W(\h0200, \h6033),
    mulw |-> W(\h0200, \h003B), divw |-> W(\h0200, \h403B), remw |-> W(\h0200, \h603B),
    csrrw  |-> W(0, \h1073), csrrs  |-> W(0, \h2073), csrrc  |-> W(0, \h3073),
    csrrwi |-> W(0, \h5073), csrrsi |-> W(0, \h6073), csrrci |-> W(0, \h7073),
    ecall |-> W(0, \h73), ebreak |-> W(\h10, \h73), sret |-> W(\h1020, \h73), ret |-> W(0, \h8067),
    fence |-> W(\h0FF0, \h0F), fence_i |-> W(0, \h100F), sfence_vma |-> W(\h1200, \h73)]

-----------------------------------------------------------------------------
(* Fragments, of registers by their names and of numbers. *)

rd_f(r)  == Frag(At(REGS[r], 7, 5))
rs1_f(r) == Frag(At(REGS[r], 15, 5))
rs2_f(r) == Frag(At(REGS[r], 20, 5))

rs1_raw_f(v) == Frag(At(v, 15, 5))

itype_f(imm) == Frag(At(imm, 20, 12))

\* Mutant: the two parts of a store's offset change places.
stype_swapped(imm) == Frag(Moved(imm, 0, 5, 25) \cup Moved(imm, 5, 7, 7))

stype_f(imm) == Frag(Moved(imm, 0, 5, 7) \cup Moved(imm, 5, 7, 25))

utype_f(imm) == Frag(At(imm, 12, 20))

csr_f(op) == Frag(At(IF op.is = "csr" THEN CSRS[op.csr] ELSE op.n, 20, 12))

-----------------------------------------------------------------------------
(* Operands.  imm(reg) comes as the register and then the number. *)

Abi(name) == [is |-> "reg", abi |-> name]
Csr(name) == [is |-> "csr", csr |-> name]

\* A label of an operand is its text, whatever it looks like: a number stands
\* for no label of the lines here.
Target(op) == CASE op.is = "label" -> op.name [] op.is = "reg" -> op.abi [] op.is = "csr" -> op.csr [] OTHER -> "0"

\* The number of operand i, which may be left out.
OffsetOf(args, i) == IF i \in DOMAIN args THEN args[i].n ELSE 0

\* Of a load, store or jalr: two registers and, if there is more, a number.
RegistersAndOffset(args) ==
    Shaped(args, <<"reg", "reg">>) /\ (Len(args) > 2 => args[3].is = "imm")

NoOperands == {"sfence_vma", "ecall", "sret", "ret", "fence", "fence_i", "ebreak"}
RTypes     == {"add", "sub", "sll", "slt", "sltu", "xor", "srl", "sra", "or", "and",
               "mul", "div", "rem", "mulw", "divw", "remw"}
ITypes     == {"addi", "andi", "ori", "xori", "slti", "sltiu", "addiw", "slli", "srli", "srai"}
Loads      == {"lb", "lh", "lw", "ld", "lbu", "lhu", "lwu"}
Stores     == {"sb", "sh", "sw", "sd"}
Compared   == {"beq", "bne", "blt", "bge", "bltu", "bgeu"}
Swapped    == [bgt |-> "blt", ble |-> "bge", bgtu |-> "bltu", bleu |-> "bgeu"]
\* Which operand field the register of a comparison with zero goes to.
WithZero   == [beqz |-> <<"beq", 15>>, bnez |-> <<"bne", 15>>, bgez |-> <<"bge", 15>>, bltz |-> <<"blt", 15>>,
               blez |-> <<"bge", 20>>, bgtz |-> <<"blt", 20>>]

\* A line of an instruction: fragments, and the opcode as bytes behind them.
Half(refs, mn, part) == [refs |-> refs, bytes |-> Bytes(OPCODES[mn], 4), part |-> part]

\* The one line of an instruction; none when it raises.
Emitted(refs, mn) == {Half(refs, mn, "")}

Arithmetic(mn, args) ==
    CASE mn \in RTypes /\ Shaped(args, <<"reg", "reg", "reg">>) ->
            Emitted(<<rd_f(args[1].abi), rs1_f(args[2].abi), rs2_f(args[3].abi)>>, mn)
      [] mn \in ITypes /\ Shaped(args, <<"reg", "reg", "imm">>) ->
            Emitted(<<rd_f(args[1].abi), rs1_f(args[2].abi), itype_f(args[3].n)>>, mn)
      [] mn \in {"lui", "auipc"} /\ Shaped(args, <<"reg", "imm">>) ->
            Emitted(<<rd_f(args[1].abi), utype_f(args[2].n)>>, mn)
      [] OTHER -> {}

LoadsAndStores(mn, args) ==
    CASE mn \in Loads \cup {"jalr"} /\ RegistersAndOffset(args) ->
            Emitted(<<rd_f(args[1].abi), rs1_f(args[2].abi), itype_f(OffsetOf(args, 3))>>, mn)
      [] mn \in Stores /\ RegistersAndOffset(args) ->
            Emitted(<<rs1_f(args[2].abi), rs2_f(args[1].abi), stype_f(OffsetOf(args, 3))>>, mn)
      [] OTHER -> {}

JumpsAndBranches(mn, args) ==
    CASE mn = "jal" /\ Shaped(args, <<"reg", "label">>) ->
            Emitted(<<rd_f(args[1].abi), Ref("$", args[2].name)>>, mn)
      [] mn = "j" /\ args # <<>>    -> Emitted(<<Ref("$", Target(args[1]))>>, "jal")
      [] mn = "call" /\ args # <<>> -> Emitted(<<rd_f("ra"), Ref("$", Target(args[1]))>>, "jal")
      [] mn = "jr" /\ Shaped(args, <<"reg">>) -> Emitted(<<rs1_f(args[1].abi)>>, "jalr")
      [] mn \in Compared /\ Shaped(args, <<"reg", "reg">>) /\ Len(args) > 2 ->
            Emitted(<<rs1_f(args[1].abi), rs2_f(args[2].abi), Ref("@", Target(args[3]))>>, mn)
      [] mn \in DOMAIN Swapped /\ Shaped(args, <<"reg", "reg">>) /\ Len(args) > 2 ->
            Emitted(<<rs1_f(args[2].abi), rs2_f(args[1].abi), Ref("@", Target(args[3]))>>, Swapped[mn])
      [] mn \in DOMAIN WithZero /\ Shaped(args, <<"reg">>) /\ Len(args) > 1 ->
            Emitted(<<Frag(At(REGS[args[1].abi], WithZero[mn][2], 5)), Ref("@", Target(args[2]))>>, WithZero[mn][1])
      [] OTHER -> {}

ControlRegisters(mn, args) ==
    CASE mn \in {"csrrw", "csrrs", "csrrc"} /\ (Shaped(args, <<"reg", "csr", "reg">>) \/ Shaped(args, <<"reg", "imm", "reg">>)) ->
            Emitted(<<rd_f(args[1].abi), rs1_f(args[3].abi), csr_f(args[2])>>, mn)
      [] mn \in {"csrrwi", "csrrsi", "csrrci"} /\ (Shaped(args, <<"reg", "csr", "imm">>) \/ Shaped(args, <<"reg", "imm", "imm">>)) ->
            Emitted(<<rd_f(args[1].abi), rs1_raw_f(args[3].n), csr_f(args[2])>>, mn)
      [] OTHER -> {}

Pseudo(mn, args) ==
    CASE mn = "nop" -> Emitted(<<>>, "addi")
      [] ~Shaped(args, <<"reg", "reg">>) -> {}
      [] mn = "mv"   -> Emitted(<<rd_f(args[1].abi), rs1_f(args[2].abi)>>, "addi")
      [] mn = "neg"  -> Emitted(<<rd_f(args[1].abi), rs2_f(args[2].abi)>>, "sub")
      [] mn = "not"  -> Emitted(<<rd_f(args[1].abi), rs1_f(args[2].abi), itype_f(-1)>>, "xori")
      [] mn = "seqz" -> Emitted(<<rd_f(args[1].abi), rs1_f(args[2].abi), itype_f(1)>>, "sltiu")
      [] mn = "snez" -> Emitted(<<rd_f(args[1].abi), rs2_f(args[2].abi)>>, "sltu")

OneLine(mn, args) ==
    CASE mn \in NoOperands -> Emitted(<<>>, mn)
      [] mn \in RTypes \cup ITypes \cup {"lui", "auipc"} -> Arithmetic(mn, args)
      [] mn \in Loads \cup Stores \cup {"jalr"} -> LoadsAndStores(mn, args)
      [] mn \in {"jal", "j", "call", "jr"} \cup Compared \cup DOMAIN Swapped \cup DOMAIN WithZero ->
            JumpsAndBranches(mn, args)
      [] mn \in {"csrrw", "csrrs", "csrrc", "csrrwi", "csrrsi", "csrrci"} -> ControlRegisters(mn, args)
      [] mn \in {"nop", "mv", "neg", "not", "seqz", "snez"} -> Pseudo(mn, args)
      [] OTHER -> {}

-----------------------------------------------------------------------------
(* Two instructions for one: a number of 32 bits, the address of a label. *)

\* Mutant: the upper part is cut off, not rounded.
UpperCut(imm) == imm \div 4096

\* (imm + 0x800) >> 12
UpperPart(imm) == imm \div 4096 + (IF imm % 4096 < 2048 THEN 0 ELSE 1)

LowerPart(imm) == (imm % 4096) + (imm \div 4096 - UpperPart(imm)) * 4096

LoadImmediate(rd, imm) ==
    IF imm \in -2048 .. 2047 THEN <<Half(<<rd_f(rd), itype_f(imm)>>, "addi", "")>>
    ELSE <<Half(<<rd_f(rd), utype_f(UpperPart(imm))>>, "lui", "upper")>>
         \o IF LowerPart(imm) = 0 THEN <<>>
            ELSE <<Half(<<rd_f(rd), rs1_f(rd), itype_f(LowerPart(imm))>>, "addi", "lower")>>

LoadAddress(rd, label) ==
    <<Half(<<rd_f(rd), Ref("~", label)>>, "auipc", "auipc"),
      Half(<<rd_f(rd), rs1_f(rd), Ref("!", label)>>, "addi", "addi")>>

\* emit: the lines of an instruction, none when it raises.
emit(mn, args) ==
    IF mn = "li" THEN IF Shaped(args, <<"reg", "imm">>) THEN LoadImmediate(args[1].abi, args[2].n) ELSE <<>>
    ELSE IF mn = "la" THEN
        IF Shaped(args, <<"reg">>) /\ Len(args) > 1 THEN LoadAddress(args[1].abi, Target(args[2])) ELSE <<>>
    ELSE SetToSeq(OneLine(mn, args))

-----------------------------------------------------------------------------
\* Only words and hex pairs are data here; an .align or a .zero is unknown.
process_line(line) ==
    CASE line.kind \in {"blank", "comment"} -> <<HexLine("", <<>>, <<>>, line, "")>>
      [] line.kind = "raw"   -> <<HexLine("", <<>>, line.bytes, line, "")>>
      [] line.kind = "label" -> <<HexLine(line.name, <<>>, <<>>, line, "")>>
      [] line.kind = "word"  -> <<HexLine("", <<>>, Bytes(Bits(line.n, 32), 4), line, "")>>
      [] line.kind = "dword" -> <<HexLine("", <<>>, Bytes(Bits(line.n, 64), 8), line, "")>>
      [] line.kind = "insn"  ->
            LET halves == emit(line.mn, line.ops)
            IN [i \in DOMAIN halves |-> HexLine("", halves[i].refs, halves[i].bytes, line, halves[i].part)]
      [] OTHER -> <<>>

Rv64Begins == Begin("rv64") /\ hex2' = <<>>

\* A line is printed as soon as it is read, ...
PrintLine ==
    \E i \in DOMAIN assembly :
        /\ job = "rv64" /\ AtLine(i, assembly)
        /\ process_line(assembly[i]) # <<>>
        /\ hex2' = hex2 \o process_line(assembly[i])
        /\ Advance(0)

\* ... and stays when a later one is refused.
RefuseLine ==
    \E i \in DOMAIN assembly :
        /\ job = "rv64" /\ AtLine(i, assembly)
        /\ process_line(assembly[i]) = <<>>
        /\ Exits("refused")
        /\ UNCHANGED hex2

PrintEnds ==
    /\ job = "rv64" /\ AtEndOf(assembly)
    /\ Exits("printed")
    /\ UNCHANGED hex2

Print64 == PrintLine \/ RefuseLine \/ PrintEnds
=============================================================================
