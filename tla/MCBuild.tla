------------------------------ MODULE MCBuild ------------------------------
(* Small instances of Build: every form of instruction, every short program,  *)
(* and short images of the disk.                                             *)
EXTENDS Build

(* Instruction lines for AArch64: every form, with operands at the edges. *)
Wr(n) == [cls |-> "w", n |-> n]

SomeRegs == {X(1), X(30), XZR}
Threes(regs) == {<<Reg(X(18)), Reg(r), Reg(X(5))>> : r \in regs} \cup {<<Reg(LR), Reg(X(0)), Reg(r)>> : r \in regs}

\* One run of ones, at its ends and across them; elements of every size.
Masks == {{0}, {63}, 0 .. 62, {0, 63}, {0, 31, 32, 63}, 4 .. 63, {k \in 0 .. 63 : k % 2 = 1},
          {k \in 0 .. 63 : k % 8 \in {0, 1, 7}}, {k \in 0 .. 63 : k % 16 # 9}, 8 .. 15}
NoMasks == {{}, 0 .. 63, {0, 2}, {0, 1, 33}}

A64Good ==
    {Insn(mn, <<>>) : mn \in {"ret", "eret", "nop", "wfe", "isb", "ic", "dsb", "tlbi"}}
    \cup {Insn(mn, <<Imm(n)>>) : mn \in {"svc", "hvc"}, n \in {0, 65535}}
    \cup {Insn("msr", <<Name(s), Reg(r)>>) : s \in DOMAIN SYSREGS \ {"spsel"}, r \in {X(9), XZR}}
    \cup {Insn("mrs", <<Reg(X(0)), Name(s)>>) : s \in DOMAIN SYSREGS}
    \cup {Insn("msr", <<Name(f), Imm(1)>>) : f \in DOMAIN PstateFields}
    \cup {Insn("msr", <<Name("daifset"), Imm(15)>>)}
    \cup {Insn(mn, ops) : mn \in {"add", "sub", "adds", "subs", "and", "orr", "eor", "ands",
                                  "mul", "udiv", "sdiv", "lsl", "lsr", "asr"}, ops \in Threes(SomeRegs)}
    \cup {Insn(mn, <<Reg(rd), Reg(rn), Imm(n)>>) : mn \in {"add", "sub"}, rd \in {SP, X(1)}, rn \in {SP, LR},
                                                   n \in {0, 4095, 4096, 4095 * 4096}}
    \cup {Insn(mn, <<Reg(X(3)), Reg(SP), Imm(n)>>) : mn \in {"adds", "subs"}, n \in {1, 8192}}
    \cup {Insn(mn, <<Reg(r), Imm(n)>>) : mn \in {"cmp", "cmn"}, r \in {SP, Wr(7)}, n \in {0, 4095, 65536}}
    \cup {Insn(mn, <<Reg(r), Reg(X(20))>>) : mn \in {"cmp", "cmn", "tst"}, r \in {X(0), XZR}}
    \cup {Insn("tst", <<Reg(X(4)), Mask(m)>>) : m \in Masks}
    \cup {Insn(mn, <<Reg(X(6)), Reg(Wr(7)), Mask(m)>>) : mn \in {"and", "orr", "eor", "ands"}, m \in Masks}
    \cup {Insn("and", <<Reg(SP), Reg(X(2)), Imm(-16)>>)}
    \cup {Insn("mov", <<Reg(rd), Reg(rn)>>) : rd \in {X(0), SP, Wr(3), LR}, rn \in {X(29), SP, Wr(1)}}
    \cup {Insn("mov", <<Reg(rd), Reg(XZR)>>) : rd \in {X(0), LR}}
    \cup {Insn("mov", <<Reg(X(8)), Imm(n)>>) : n \in {0, 1, 65535, 65536, 32767 * 65536}}
    \cup {Insn("mov", <<Reg(Wr(2)), Mask(m)>>) : m \in {32 .. 47, {63}}}
    \cup {Insn(mn, <<Reg(X(10)), Imm(n)>>) : mn \in {"movz", "movk", "movn"}, n \in {0, 65535}}
    \cup {Insn(mn, <<Reg(LR), Imm(4660), Lsl(s)>>) : mn \in {"movz", "movk", "movn"}, s \in {0, 16, 32, 48}}
    \cup {Insn(mn, <<Reg(X(11)), Reg(r)>>) : mn \in {"neg", "sxtw", "rev"}, r \in {X(12), Wr(13)}}
    \cup {Insn("rev", <<Reg(Wr(11)), Reg(Wr(12))>>)}
    \cup {Insn(mn, <<Reg(X(14)), Reg(X(15)), Imm(n)>>) : mn \in {"lsl", "lsr", "asr"}, n \in {1, 32, 63}}
    \cup {Insn(mn, <<Reg(X(14)), Reg(X(15)), Imm(0)>>) : mn \in {"lsr", "asr"}}
    \cup {Insn(mn, <<Reg(r), Mem(b, Imm(n), FALSE)>>) :
            mn \in {"ldr", "str"}, r \in {X(16), XZR}, b \in {SP, X(17)}, n \in {0, 8, 4095 * 8}}
    \cup {Insn(mn, <<Reg(r), Mem(b, Imm(n), FALSE)>>) :
            mn \in {"ldr", "str"}, r \in {Wr(16), WZR}, b \in {SP, X(17)}, n \in {0, 4, 4095 * 4}}
    \cup {Insn(mn, <<Reg(Wr(19)), Mem(X(21), Imm(n), FALSE)>>) : mn \in {"ldrb", "strb"}, n \in {0, 1, 4095}}
    \cup {Insn(mn, <<Reg(Wr(19)), Mem(X(21), Imm(n), FALSE)>>) : mn \in {"ldrh", "strh"}, n \in {0, 2, 8190}}
    \cup {Insn("ldrsw", <<Reg(X(19)), Mem(X(21), Imm(n), FALSE)>>) : n \in {0, 4, 16380}}
    \cup {Insn(mn, <<Reg(r), Mem(X(22), Reg(X(23)), FALSE)>>) :
            mn \in {"ldr", "str", "ldrb", "strb", "ldrh", "strh"}, r \in {X(24), Wr(24)}}
    \cup {Insn(mn, <<Reg(X(25)), Reg(LR), Mem(SP, Imm(n), FALSE)>>) : mn \in {"stp", "ldp"}, n \in {-512, 0, 504}}
    \cup {Insn("stp", <<Reg(X(26)), Reg(X(27)), Mem(SP, Imm(n), TRUE)>>) : n \in {-16, 496}}
    \cup {Insn("ldp", <<Reg(X(26)), Reg(X(27)), Mem(SP, Imm(0), FALSE), Imm(n)>>) : n \in {16, -8}}
    \cup {Insn(mn, <<Reg(X(28))>>) : mn \in {"br", "blr"}}

-----------------------------------------------------------------------------
(* Instruction lines for RISC-V: every form, with operands at the edges. *)
Regs(names) == {Abi(r) : r \in names}

Rv64Good ==
    {Insn(mn, <<>>) : mn \in NoOperands \cup {"nop"}}
    \cup {Insn(mn, <<Abi("a0"), r, Abi("t6")>>) : mn \in RTypes, r \in Regs({"zero", "s11"})}
    \cup {Insn("add", <<Abi(r), Abi(r), Abi("zero")>>) : r \in DOMAIN REGS}
    \cup {Insn(mn, <<Abi("sp"), Abi("fp"), Imm(n)>>) : mn \in ITypes \ {"slli", "srli", "srai"}, n \in {-2048, -1, 0, 2047}}
    \cup {Insn(mn, <<Abi("a1"), Abi("a2"), Imm(n)>>) : mn \in {"slli", "srli", "srai"}, n \in {0, 1, 31, 32, 63}}
    \cup {Insn(mn, <<Abi("s2"), Abi("t3"), Imm(n)>>) : mn \in Loads \cup Stores \cup {"jalr"}, n \in {-2048, -33, 0, 31, 2047}}
    \cup {Insn(mn, <<Abi("s3"), Abi("t4")>>) : mn \in Loads \cup Stores \cup {"jalr"}}
    \cup {Insn(mn, <<Abi("gp"), Imm(n)>>) : mn \in {"lui", "auipc"}, n \in {0, 1, 524287, 524288, 1048575}}
    \cup {Insn("li", <<Abi("t0"), Imm(n)>>) : n \in {-2147483647, -4096, -2049, -2048, -1, 0, 2047, 2048, 4096, 6144, 305419896,
                                                     2147481599}}
    \cup {Insn(mn, <<Abi("tp"), Csr(c), Abi("ra")>>) : mn \in {"csrrw", "csrrs", "csrrc"}, c \in DOMAIN CSRS}
    \cup {Insn(mn, <<Abi("zero"), Csr("sie"), Imm(n)>>) : mn \in {"csrrwi", "csrrsi", "csrrci"}, n \in {0, 31}}
    \cup {Insn("csrrw", <<Abi("zero"), Imm(3857), Abi("a3")>>), Insn("csrrsi", <<Abi("zero"), Imm(3857), Imm(2)>>)}
    \cup {Insn(mn, <<Abi("s4"), Abi("s5")>>) : mn \in {"mv", "neg", "not", "seqz", "snez"}}
    \cup {Insn("jr", <<Abi("t5")>>)}

-----------------------------------------------------------------------------
A64(lines)  == [isa |-> "aarch64", lines |-> lines]
Rv64(lines) == [isa |-> "riscv64", lines |-> lines]

\* The instructions of lines as programs of n lines at most, by mnemonic.
Programs(lines, n) ==
    LET program(mn) == FoldSet(LAMBDA l, rest : Append(rest, l), <<>>, {l \in lines : l.mn = mn})
        cut(all)    == {SubSeq(all, n * k + 1, Min({n * k + n, Len(all)})) : k \in 0 .. (Len(all) - 1) \div n}
    IN UNION {cut(program(mn)) : mn \in {l.mn : l \in lines}}

UpTo(n, lines) == UNION {[1 .. k -> lines] : k \in 0 .. n}

\* Every kind of line; labels before and behind, twice, or not at all.
Bytes3 == RawLine(<<{0, 7}, {}, {4}>>, 0)

A64Lines ==
    {Label("a"), Label("b"), Insn("b", <<Lab("a")>>), Insn("cbnz", <<Reg(X(2)), Lab("b")>>),
     Insn("adr", <<Reg(X(1)), Lab("a")>>), Insn("b.", <<Name("cs"), Lab("b")>>), Bytes3,
     Directive("dword", 305419896), Directive("align", 3), Directive("zero", 5), Blank}

Rv64Lines ==
    {Label("a"), Label("b"), Insn("j", <<Lab("a")>>), Insn("bgtu", <<Abi("a0"), Abi("a1"), Lab("b")>>),
     Insn("la", <<Abi("t0"), Lab("a")>>), Insn("blez", <<Abi("s1"), Lab("a")>>), Bytes3,
     Insn("li", <<Abi("a7"), Imm(74565)>>), Directive("word", -2), Comment}

\* Refused, in one pass or the other.
A64Bad == {Counted(Directive("zero", 1)), Counted(Insn("neg", <<Reg(X(0)), Reg(X(1))>>)), Counted(Label("c")),
           Counted(Directive("word", 1)), Insn("add", <<Reg(X(0)), Reg(X(1)), Imm(4097)>>),
           Insn("and", <<Reg(X(0)), Reg(X(1)), Imm(0)>>), Insn("bl", <<Lab("nowhere")>>)}
Rv64Bad == {Directive("align", 2), Insn("addi", <<Abi("a0"), Imm(1)>>), Insn("call", <<Lab("nowhere")>>)}

MCDrafts ==
    {A64(<<Label("a"), Insn("b", <<Lab("a")>>)>>), A64(<<Directive("zero", 8), Label("a"), Insn("b", <<Lab("a")>>)>>)}
    \cup {A64(<<Insn("nop", <<>>), l>>) : l \in A64Bad}
    \cup {Rv64(<<Label("a"), Insn("call", <<Lab("a")>>)>>), Rv64(<<Bytes3, Insn("li", <<Abi("a0"), Imm(4096)>>)>>)}
    \cup {Rv64(<<Insn("nop", <<>>), l>>) : l \in Rv64Bad}

\* Displacements at the limits of a branch, and of the halves of la.
Far(n)       == RawLine([i \in 1 .. n |-> {}], 0)
Back(n, l)   == Rv64(<<Label("a"), Far(n), l>>)
Onward(n, l) == Rv64(<<l, Far(n), Label("a")>>)

MCFar ==
    LET branch == Insn("bnez", <<Abi("a0"), Lab("a")>>)
        load   == Insn("la", <<Abi("t0"), Lab("a")>>)
    IN {Back(n, branch) : n \in {4094, 4096, 4098}} \cup {Onward(n, branch) : n \in {4088, 4090, 4092}}
       \cup {Back(n, load) : n \in {2047, 2048, 2049, 2052}} \cup {Onward(n, load) : n \in {2039, 2040, 4084, 4088}}

\* A move of a number that takes one word, and of one that takes two.
MovLines ==
    {Label("a"), Insn("b", <<Lab("a")>>), Insn("mov", <<Reg(X(0)), Imm(65535)>>),
     Insn("mov", <<Reg(X(0)), Imm(74565)>>)}

MCMovSources == {A64(p) : p \in UpTo(3, MovLines)}

MCSources ==
    MCDrafts \cup MCFar \cup {A64(p) : p \in Programs(A64Good, 8) \cup UpTo(3, A64Lines)}
             \cup {Rv64(p) : p \in Programs(Rv64Good, 8) \cup UpTo(3, Rv64Lines)}

\* What the theorems on the tools ask of the sources holds of these.
ASSUME MCCountable == AllCountable(MCSources) /\ AllLegible(MCSources)

-----------------------------------------------------------------------------
\* 0 f F g # ; newline
Alphabet == {48, 102, 70, 103, 35, 59, NL}

Short(n) == UNION {[1 .. k -> Alphabet] : k \in 0 .. n}

\* Every byte, between digits.
Single == {<<49, b, 50, 51>> : b \in 1 .. 255}

Script == <<52, 53, 35>>

\* A zero is behind the source, on its last sector.
Terminated == {t \in Short(4) \cup Single : Len(t) % SectorSize # 0}
MCImages == {Image(t, Script) : t \in Terminated}

\* What the theorems on stage 1 ask of the images holds of these.
ASSUME MCBuilt == AllBuilt(MCImages)

\* An empty comment.
MCOldDisk == Image(<<35>>, Script)
MCOldImages == {MCOldDisk}
=============================================================================
