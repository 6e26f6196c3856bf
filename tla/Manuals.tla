------------------------------ MODULE Manuals ------------------------------
(***************************************************************************)
(* The instructions of both machines read the other way round: from a word *)
(* to what it does, by the decode tables of the AArch64 manual and the     *)
(* formats of the RISC-V one; and what a line asks for, with aliases       *)
(* resolved and pseudo-instructions expanded as the manuals say.           *)
(***************************************************************************)
EXTENDS A64Mnemonics

-----------------------------------------------------------------------------
(* AArch64 *)

\* Register 31 is the stack pointer for some operands and zero for others.
Zr(n) == IF n = 31 THEN <<"zr", n>> ELSE <<"x", n>>
Sp(n) == IF n = 31 THEN <<"sp", n>> ELSE <<"x", n>>

Does(op, regs, num)     == [op |-> op, regs |-> regs, num |-> num]
DoesBits(op, regs, bits) == [op |-> op, regs |-> regs, bits |-> bits]
Undefined == [op |-> "undefined"]

ManualRegisters == [
    sctlr_el1 |-> <<3, 0, 1, 0, 0>>, tcr_el1 |-> <<3, 0, 2, 0, 2>>, ttbr0_el1 |-> <<3, 0, 2, 0, 0>>,
    ttbr1_el1 |-> <<3, 0, 2, 0, 1>>, mair_el1 |-> <<3, 0, 10, 2, 0>>, vbar_el1 |-> <<3, 0, 12, 0, 0>>,
    elr_el1 |-> <<3, 0, 4, 0, 1>>, spsr_el1 |-> <<3, 0, 4, 0, 0>>, esr_el1 |-> <<3, 0, 5, 2, 0>>,
    far_el1 |-> <<3, 0, 6, 0, 0>>, sp_el0 |-> <<3, 0, 4, 1, 0>>, spsel |-> <<3, 0, 4, 2, 0>>,
    currentel |-> <<3, 0, 4, 2, 2>>, daif |-> <<3, 3, 4, 2, 1>>, mpidr_el1 |-> <<3, 0, 0, 0, 5>>,
    hcr_el2 |-> <<3, 4, 1, 1, 0>>, sctlr_el2 |-> <<3, 4, 1, 0, 0>>, spsr_el2 |-> <<3, 4, 4, 0, 0>>,
    elr_el2 |-> <<3, 4, 4, 0, 1>>, cnthctl_el2 |-> <<3, 4, 14, 1, 0>>, cptr_el2 |-> <<3, 4, 1, 1, 2>>]

ManualConditions == <<"eq", "ne", "hs", "lo", "mi", "pl", "vs", "vc", "hi", "ls", "ge", "lt", "gt", "le", "al">>

\* DecodeBitMasks of the manual, for 64 bits: S + 1 ones rotated right by R,
\* in elements of a size that N and imms encode.
DecodeBitMasks(n, imms, immr) ==
    LET code == Bits(imms, 6)
        len  == IF n = 1 THEN 6 ELSE Max((0 .. 5) \ code)
        size == 2^len
        S    == imms % size
        R0   == immr % size
    IN {k \in 0 .. 63 : (k + R0) % size <= S}

-----------------------------------------------------------------------------
\* Bits hi to lo of a word.
F(w, hi, lo) == Unsigned(w, lo, hi - lo + 1)

AddOrSub(w) == IF F(w, 29, 29) = 0 THEN <<"add", "sub">>[F(w, 30, 30) + 1] ELSE <<"adds", "subs">>[F(w, 30, 30) + 1]

LogicalName(w) == <<"and", "orr", "eor", "ands">>[F(w, 30, 29) + 1]

Immediates(w, rd, rn) ==
    CASE F(w, 31, 31) = 0 /\ F(w, 28, 24) = 16 ->
            Does("adr", <<Zr(rd)>>, 4 * Signed(w, 5, 19) + F(w, 30, 29))
      [] F(w, 31, 31) = 1 /\ F(w, 28, 23) = 34 ->
            Does(AddOrSub(w), <<IF F(w, 29, 29) = 0 THEN Sp(rd) ELSE Zr(rd), Sp(rn)>>,
                 F(w, 21, 10) * (IF F(w, 22, 22) = 1 THEN 4096 ELSE 1))
      [] F(w, 31, 31) = 1 /\ F(w, 28, 23) = 36 ->
            DoesBits(LogicalName(w), <<IF F(w, 30, 29) = 3 THEN Zr(rd) ELSE Sp(rd), Zr(rn)>>,
                     DecodeBitMasks(F(w, 22, 22), F(w, 15, 10), F(w, 21, 16)))
      [] F(w, 31, 31) = 1 /\ F(w, 28, 23) = 37 /\ F(w, 30, 29) # 1 ->
            [op |-> <<"movn", "", "movz", "movk">>[F(w, 30, 29) + 1], regs |-> <<Zr(rd)>>,
             bits |-> Up(Field(w, 5, 16), 16 * F(w, 22, 21)), hw |-> IF F(w, 30, 29) = 3 THEN F(w, 22, 21) ELSE 0]
      [] F(w, 31, 31) = 1 /\ F(w, 28, 22) = 77 ->
            LET immr == F(w, 21, 16)
                imms == F(w, 15, 10)
            IN CASE F(w, 30, 29) = 2 /\ imms = 63        -> Does("lsr", <<Zr(rd), Zr(rn)>>, immr)
                 [] F(w, 30, 29) = 2 /\ imms + 1 = immr  -> Does("lsl", <<Zr(rd), Zr(rn)>>, 63 - imms)
                 [] F(w, 30, 29) = 0 /\ imms = 63        -> Does("asr", <<Zr(rd), Zr(rn)>>, immr)
                 [] F(w, 30, 29) = 0 /\ immr = 0 /\ imms = 31 -> Does("sxtw", <<Zr(rd), Zr(rn)>>, 0)
                 [] OTHER -> Undefined
      [] OTHER -> Undefined

Registers(w, rd, rn, rm) ==
    CASE F(w, 31, 31) = 1 /\ F(w, 28, 21) = 80 /\ F(w, 15, 10) = 0 ->
            Does(LogicalName(w), <<Zr(rd), Zr(rn), Zr(rm)>>, 0)
      [] F(w, 31, 31) = 1 /\ F(w, 28, 21) = 88 /\ F(w, 15, 10) = 0 ->
            Does(AddOrSub(w), <<Zr(rd), Zr(rn), Zr(rm)>>, 0)
      [] F(w, 31, 21) = 1240 /\ F(w, 15, 10) = 31 -> Does("mul", <<Zr(rd), Zr(rn), Zr(rm)>>, 0)
      [] F(w, 31, 21) = 1238 /\ F(w, 15, 10) \in {2, 3, 8, 9, 10} ->
            Does(<<"", "udiv", "sdiv", "", "", "", "", "lsl", "lsr", "asr">>[F(w, 15, 10)], <<Zr(rd), Zr(rn), Zr(rm)>>, 0)
      [] F(w, 30, 16) = 23232 /\ F(w, 15, 10) = 2 + F(w, 31, 31) ->
            Does("rev", <<Zr(rd), Zr(rn)>>, 32 + 32 * F(w, 31, 31))
      [] OTHER -> Undefined

\* The fixed words of the manual are operands of hints, barriers, pstate
\* fields, cache and TLB maintenance: op0, op1, CRn, CRm, op2.
SystemWords == [
    nop  |-> <<0, 3, 2, 0, 0>>, wfe  |-> <<0, 3, 2, 0, 2>>, dsb |-> <<0, 3, 3, 15, 4>>, isb |-> <<0, 3, 3, 15, 6>>,
    ic   |-> <<1, 0, 7, 5, 0>>, tlbi |-> <<1, 0, 8, 7, 0>>]

Systems(w) ==
    LET ops == <<F(w, 20, 19), F(w, 18, 16), F(w, 15, 12), F(w, 11, 8), F(w, 7, 5)>>
        rt  == F(w, 4, 0)
    IN CASE ops[1] \in {2, 3} ->
               [op |-> IF F(w, 21, 21) = 0 THEN "msr" ELSE "mrs", regs |-> <<Zr(rt)>>, sysreg |-> ops]
         [] ops[1] = 0 /\ ops[3] = 4 /\ rt = 31 /\ F(w, 21, 21) = 0 ->
               [op |-> "pstate", field |-> <<ops[2], ops[5]>>, num |-> ops[4]]
         [] rt = 31 /\ F(w, 21, 21) = 0 /\ \E k \in DOMAIN SystemWords : SystemWords[k] = ops ->
               Does(CHOOSE k \in DOMAIN SystemWords : SystemWords[k] = ops, <<>>, 0)
         [] OTHER -> Undefined

Jumps64(w, rd, rn) ==
    CASE F(w, 30, 26) = 5 -> Does(<<"b", "bl">>[F(w, 31, 31) + 1], <<>>, 4 * Signed(w, 0, 26))
      [] F(w, 31, 24) = 84 /\ F(w, 4, 4) = 0 /\ F(w, 3, 0) < 15 ->
            Does("b.", << <<"if", ManualConditions[F(w, 3, 0) + 1]>> >>, 4 * Signed(w, 5, 19))
      [] F(w, 31, 25) = 90 -> Does(<<"cbz", "cbnz">>[F(w, 24, 24) + 1], <<Zr(rd)>>, 4 * Signed(w, 5, 19))
      [] F(w, 31, 25) = 107 /\ F(w, 24, 21) \in {0, 1, 2, 4} /\ F(w, 20, 10) = 1984 /\ rd = 0 ->
            Does(<<"br", "blr", "ret", "", "eret">>[F(w, 24, 21) + 1], <<Zr(rn)>>, 0)
      [] F(w, 31, 21) = 1696 /\ F(w, 4, 0) \in {1, 2} ->
            Does(<<"svc", "hvc">>[F(w, 4, 0)], <<>>, F(w, 20, 5))
      [] F(w, 31, 22) = 852 -> Systems(w)
      [] OTHER -> Undefined

\* Loads and stores by size (8, 16, 32, 64 bits) and opc (store, load, and
\* load with the sign of a word).
Accesses == << <<"strb", "ldrb", "", "">>, <<"strh", "ldrh", "", "">>, <<"str_w", "ldr_w", "ldrsw", "">>,
               <<"str", "ldr", "", "">> >>

Memory(w, rt, rn, rm) ==
    LET access == Accesses[F(w, 31, 30) + 1][F(w, 23, 22) + 1]
    IN CASE F(w, 29, 24) = 57 -> Does(access, <<Zr(rt), Sp(rn)>>, F(w, 21, 10) * 2^F(w, 31, 30))
         [] F(w, 29, 24) = 56 /\ F(w, 21, 21) = 1 /\ F(w, 15, 10) = 26 ->
               Does(access, <<Zr(rt), Sp(rn), Zr(rm)>>, 0)
         [] F(w, 31, 26) = 42 /\ F(w, 25, 23) \in 1 .. 3 ->
               [op  |-> <<"stp", "ldp">>[F(w, 22, 22) + 1], regs |-> <<Zr(rt), Zr(F(w, 14, 10)), Sp(rn)>>,
                num |-> 8 * Signed(w, 15, 7), index |-> <<"post", "offset", "pre">>[F(w, 25, 23)]]
         [] OTHER -> Undefined

Decoded(w) ==
    LET rd == F(w, 4, 0)
        rn == F(w, 9, 5)
        rm == F(w, 20, 16)
    IN CASE F(w, 28, 26) = 4      -> Immediates(w, rd, rn)
         [] F(w, 27, 25) = 5      -> Registers(w, rd, rn, rm)
         [] F(w, 28, 26) = 5      -> Jumps64(w, rd, rn)
         [] F(w, 27, 27) = 1 /\ F(w, 25, 25) = 0 -> Memory(w, rd, rn, rm)
         [] OTHER -> Undefined

-----------------------------------------------------------------------------
(* What a line asks for.  A w register of an operation on registers is its *)
(* x register, as normalize_reg says.                                      *)

Named(r) == CASE r.cls = "sp"               -> <<"sp", 31>>
              [] r.cls \in {"xzr", "wzr"}   -> <<"zr", 31>>
              [] r.cls \in {"x", "w", "lr"} -> <<"x", r.n>>

MovesWide(mn, ops, value, hw) == [op |-> mn, regs |-> <<Named(ops[1].reg)>>, bits |-> value, hw |-> hw]

\* The aliases of the manual: what cmp, mov and others stand for.
AsksMove(ops) ==
    LET regs == <<Named(ops[1].reg), Named(ops[2].reg)>>
    IN IF SP \in {ops[1].reg, ops[2].reg} THEN Does("add", regs, 0)
       ELSE Does("orr", <<regs[1], Zr(31), regs[2]>>, 0)

AsksData(mn, ops) ==
    LET n    == Len(ops)
        last == ops[n]
        flags == [cmp |-> "subs", cmn |-> "adds", tst |-> "ands"]
        op   == IF mn \in DOMAIN flags THEN flags[mn] ELSE mn
        regs == (IF mn \in DOMAIN flags THEN <<Zr(31)>> ELSE <<>>)
                  \o [i \in 1 .. IF last.is = "reg" THEN n ELSE n - 1 |-> Named(ops[i].reg)]
    IN CASE mn = "neg" -> Does("sub", <<regs[1], Zr(31), regs[2]>>, 0)
         [] mn = "rev" -> Does("rev", regs, IF Narrow(ops[1]) THEN 32 ELSE 64)
         [] op \in {"and", "orr", "eor", "ands"} /\ last.is # "reg" -> DoesBits(op, regs, Value(last))
         [] OTHER -> Does(op, regs, IF last.is = "reg" THEN 0 ELSE last.n)

AsksMemory(mn, ops) ==
    LET pair == mn \in {"stp", "ldp"}
        mem  == ops[IF pair THEN 3 ELSE 2]
        regs == [i \in 1 .. IF pair THEN 2 ELSE 1 |-> Named(ops[i].reg)] \o <<Named(mem.base)>>
        size == IF mn \in {"ldr", "str"} /\ Narrow(ops[1]) THEN (IF mn = "ldr" THEN "ldr_w" ELSE "str_w") ELSE mn
    IN IF pair
       THEN [op |-> mn, regs |-> regs,
             num |-> IF Len(ops) > 3 THEN ops[4].n ELSE mem.off.n,
             index |-> IF mem.bang THEN "pre" ELSE IF Len(ops) > 3 THEN "post" ELSE "offset"]
       ELSE IF mem.off.is = "imm" THEN Does(size, regs, mem.off.n)
       ELSE Does(size, Append(regs, Named(mem.off.reg)), 0)

AsksSystem(mn, ops) ==
    LET pstate == [spsel |-> <<0, 5>>, daifset |-> <<3, 6>>, daifclr |-> <<3, 7>>]
    IN CASE mn = "msr" /\ ops[2].is = "imm" -> [op |-> "pstate", field |-> pstate[ops[1].name], num |-> ops[2].n]
         [] mn = "msr" -> [op |-> mn, regs |-> <<Named(ops[2].reg)>>, sysreg |-> ManualRegisters[ops[1].name]]
         [] mn = "mrs" -> [op |-> mn, regs |-> <<Named(ops[1].reg)>>, sysreg |-> ManualRegisters[ops[2].name]]
         [] mn = "ret"  -> Does(mn, <<Zr(30)>>, 0)
         [] mn = "eret" -> Does(mn, <<Zr(31)>>, 0)
         [] mn \in {"svc", "hvc"} -> Does(mn, <<>>, ops[1].n)
         [] OTHER -> Does(mn, <<>>, 0)

\* Where a line's label is, from the line on: there.
AsksJump(mn, ops, there) ==
    CASE mn \in {"br", "blr"} -> Does(mn, <<Named(ops[1].reg)>>, 0)
      [] mn \in {"b", "bl"}   -> Does(mn, <<>>, there[ops[1].name])
      [] mn = "b." ->
            LET cond == CASE ops[1].name = "cs" -> "hs" [] ops[1].name = "cc" -> "lo" [] OTHER -> ops[1].name
            IN Does(mn, << <<"if", cond>> >>, there[ops[2].name])
      [] OTHER -> Does(mn, <<Named(ops[1].reg)>>, there[ops[2].name])

AsksWide(mn, ops) ==
    LET shift == IF Len(ops) > 2 THEN ops[3].n ELSE 0
    IN IF mn = "mov" THEN MovesWide("movz", ops, Value(ops[2]), 0)
       ELSE MovesWide(mn, ops, Up(Value(ops[2]), shift), IF mn = "movk" THEN shift \div 16 ELSE 0)

Asked(mn, ops, there) ==
    CASE mn = "mov" /\ ops[2].is = "reg" -> AsksMove(ops)
      [] mn \in {"mov", "movz", "movk", "movn"} -> AsksWide(mn, ops)
      [] mn \in {"b", "bl", "b.", "cbz", "cbnz", "adr", "br", "blr"} -> AsksJump(mn, ops, there)
      [] mn \in {"ldr", "str", "ldrb", "strb", "ldrh", "strh", "ldrsw", "stp", "ldp"} -> AsksMemory(mn, ops)
      [] mn \in {"ret", "eret", "nop", "wfe", "isb", "dsb", "ic", "tlbi", "svc", "hvc", "msr", "mrs"} ->
            AsksSystem(mn, ops)
      [] OTHER -> AsksData(mn, ops)

-----------------------------------------------------------------------------
(* RISC-V *)

AbiNames == <<"zero", "ra", "sp", "gp", "tp", "t0", "t1", "t2", "s0", "s1",
              "a0", "a1", "a2", "a3", "a4", "a5", "a6", "a7",
              "s2", "s3", "s4", "s5", "s6", "s7", "s8", "s9", "s10", "s11", "t3", "t4", "t5", "t6">>

ManualCsrs == [
    sstatus |-> 256, sie |-> 260, stvec |-> 261, sscratch |-> 320, sepc |-> 321, scause |-> 322, stval |-> 323,
    sip |-> 324, satp |-> 384, mstatus |-> 768, mie |-> 772, mtvec |-> 773, mscratch |-> 832, mepc |-> 833,
    mcause |-> 834, mtval |-> 835, mip |-> 836]

RvDoes(op, regs, num) == [op |-> op, regs |-> regs, num |-> num]
RvUndefined == [op |-> "undefined"]

\* Tables by funct3.
OpNames     == <<"add", "sll", "slt", "sltu", "xor", "srl", "or", "and">>
OpImmNames  == <<"addi", "slli", "slti", "sltiu", "xori", "srli", "ori", "andi">>
MulNames    == <<"mul", "", "", "", "div", "", "rem", "">>
LoadNames   == <<"lb", "lh", "lw", "ld", "lbu", "lhu", "lwu", "">>
StoreNames  == <<"sb", "sh", "sw", "sd", "", "", "", "">>
BranchNames == <<"beq", "bne", "", "", "blt", "bge", "bltu", "bgeu">>
CsrNames    == <<"", "csrrw", "csrrs", "csrrc", "", "csrrwi", "csrrsi", "csrrci">>

RvDecoded(w) ==
    LET opcode == Unsigned(w, 0, 7)
        f3  == Unsigned(w, 12, 3) + 1
        f7  == Unsigned(w, 25, 7)
        reg(lo) == AbiNames[Unsigned(w, lo, 5) + 1]
        imm == Signed(w, 20, 12)
        Three(names, suffix) == RvDoes(names[f3], <<reg(7), reg(15), reg(20)>>, suffix)
    IN CASE opcode = 51 /\ f7 = 0  -> Three(OpNames, 0)
         [] opcode = 51 /\ f7 = 32 /\ f3 \in {1, 6} -> Three(<<"sub", "", "", "", "", "sra">>, 0)
         [] opcode = 51 /\ f7 = 1  -> Three(MulNames, 0)
         [] opcode = 59 /\ f7 = 1  -> Three(MulNames, 32)
         [] opcode = 19 /\ f3 \notin {2, 6} -> RvDoes(OpImmNames[f3], <<reg(7), reg(15)>>, imm)
         [] opcode = 19 /\ f3 \in {2, 6} /\ Unsigned(w, 26, 6) \in {0, 16} ->
               RvDoes(IF Unsigned(w, 26, 6) = 0 THEN OpImmNames[f3] ELSE "srai", <<reg(7), reg(15)>>, Unsigned(w, 20, 6))
         [] opcode = 27 /\ f3 = 1  -> RvDoes("addiw", <<reg(7), reg(15)>>, imm)
         [] opcode = 3             -> RvDoes(LoadNames[f3], <<reg(7), reg(15)>>, imm)
         [] opcode = 35            -> RvDoes(StoreNames[f3], <<reg(20), reg(15)>>, 32 * Signed(w, 25, 7) + Unsigned(w, 7, 5))
         [] opcode = 55            -> RvDoes("lui", <<reg(7)>>, Signed(w, 12, 20))
         [] opcode = 23            -> RvDoes("auipc", <<reg(7)>>, Signed(w, 12, 20))
         [] opcode = 111           -> RvDoes("jal", <<reg(7)>>, 2^20 * Signed(w, 31, 1) + 2^12 * Unsigned(w, 12, 8)
                                                                 + 2^11 * Unsigned(w, 20, 1) + 2 * Unsigned(w, 21, 10))
         [] opcode = 103 /\ f3 = 1 -> RvDoes("jalr", <<reg(7), reg(15)>>, imm)
         [] opcode = 99            -> RvDoes(BranchNames[f3], <<reg(15), reg(20)>>,
                                             2^12 * Signed(w, 31, 1) + 2^11 * Unsigned(w, 7, 1)
                                               + 2^5 * Unsigned(w, 25, 6) + 2 * Unsigned(w, 8, 4))
         [] opcode = 115 /\ f3 \in 2 .. 4 -> RvDoes(CsrNames[f3], <<reg(7), reg(15)>>, Unsigned(w, 20, 12))
         [] opcode = 115 /\ f3 \in 6 .. 8 -> RvDoes(CsrNames[f3], <<reg(7)>>, <<Unsigned(w, 15, 5), Unsigned(w, 20, 12)>>)
         [] opcode = 115 /\ f3 = 1 -> RvDoes("system", <<reg(7), reg(15)>>, <<Unsigned(w, 20, 5), f7>>)
         [] opcode = 15            -> RvDoes(IF f3 = 1 THEN "fence" ELSE "fence_i", <<reg(7), reg(15)>>, Unsigned(w, 20, 12))
         [] OTHER -> RvUndefined

-----------------------------------------------------------------------------
AbiName(r) == IF r = "fp" THEN "s0" ELSE r

\* By the manual: what a pseudo-instruction is short for.  there: where a
\* label is, from the line on.
Expanded(mn, ops, there) ==
    LET r(i)  == AbiName(ops[i].abi)
        to(i) == there[ops[i].name]
    IN CASE mn = "mv"   -> RvDoes("addi", <<r(1), r(2)>>, 0)
         [] mn = "not"  -> RvDoes("xori", <<r(1), r(2)>>, -1)
         [] mn = "neg"  -> RvDoes("sub", <<r(1), "zero", r(2)>>, 0)
         [] mn = "seqz" -> RvDoes("sltiu", <<r(1), r(2)>>, 1)
         [] mn = "snez" -> RvDoes("sltu", <<r(1), "zero", r(2)>>, 0)
         [] mn = "nop"  -> RvDoes("addi", <<"zero", "zero">>, 0)
         [] mn = "ret"  -> RvDoes("jalr", <<"zero", "ra">>, 0)
         [] mn = "jr"   -> RvDoes("jalr", <<"zero", r(1)>>, 0)
         [] mn = "j"    -> RvDoes("jal", <<"zero">>, to(1))
         [] mn = "call" -> RvDoes("jal", <<"ra">>, to(1))
         [] mn = "jal"  -> RvDoes("jal", <<r(1)>>, to(2))
         [] mn = "li"   -> RvDoes("addi", <<r(1), "zero">>, ops[2].n)
         [] mn \in {"beqz", "bnez", "bltz", "bgez"} ->
               RvDoes([beqz |-> "beq", bnez |-> "bne", bltz |-> "blt", bgez |-> "bge"][mn], <<r(1), "zero">>, to(2))
         [] mn = "blez" -> RvDoes("bge", <<"zero", r(1)>>, to(2))
         [] mn = "bgtz" -> RvDoes("blt", <<"zero", r(1)>>, to(2))
         [] mn \in {"bgt", "ble", "bgtu", "bleu"} ->
               RvDoes([bgt |-> "blt", ble |-> "bge", bgtu |-> "bltu", bleu |-> "bgeu"][mn], <<r(2), r(1)>>, to(3))
         [] OTHER       -> RvDoes(mn, <<r(1), r(2)>>, to(3))

RvSystem == [
    ecall  |-> RvDoes("system", <<"zero", "zero">>, <<0, 0>>), ebreak |-> RvDoes("system", <<"zero", "zero">>, <<1, 0>>),
    sret   |-> RvDoes("system", <<"zero", "zero">>, <<2, 8>>), sfence_vma |-> RvDoes("system", <<"zero", "zero">>, <<0, 9>>),
    fence  |-> RvDoes("fence", <<"zero", "zero">>, 255),       fence_i |-> RvDoes("fence_i", <<"zero", "zero">>, 0)]

\* What one word is to do for a line.
RvAsked(mn, ops, there) ==
    LET csr(op) == IF op.is = "csr" THEN ManualCsrs[op.csr] ELSE op.n
        regs    == [i \in 1 .. 2 |-> AbiName(ops[i].abi)]
    IN CASE mn \in DOMAIN RvSystem -> RvSystem[mn]
         [] mn \in {"mulw", "divw", "remw"} ->
               RvDoes([mulw |-> "mul", divw |-> "div", remw |-> "rem"][mn], Append(regs, AbiName(ops[3].abi)), 32)
         [] mn \in {"csrrw", "csrrs", "csrrc"} -> RvDoes(mn, <<regs[1], AbiName(ops[3].abi)>>, csr(ops[2]))
         [] mn \in {"csrrwi", "csrrsi", "csrrci"} -> RvDoes(mn, <<regs[1]>>, <<ops[3].n, csr(ops[2])>>)
         [] mn \in {"lui", "auipc"} ->
               RvDoes(mn, <<regs[1]>>, ops[2].n - IF ops[2].n >= 2^19 THEN 2^20 ELSE 0)
         [] Shaped(ops, <<"reg", "reg", "reg">>) -> RvDoes(mn, Append(regs, AbiName(ops[3].abi)), 0)
         [] Shaped(ops, <<"reg", "reg", "imm">>) -> RvDoes(mn, regs, ops[3].n)
         [] mn \in {"lb", "lh", "lw", "ld", "lbu", "lhu", "lwu", "sb", "sh", "sw", "sd", "jalr"} -> RvDoes(mn, regs, 0)
         [] OTHER -> Expanded(mn, ops, there)

\* Two words, the second an addi to what the first has put into the register:
\* together they make the number, or from here the address, that is asked for.
RvPairMakes(mn, ops, words, there) ==
    LET first  == RvDecoded(words[1])
        second == RvDecoded(words[2])
        rd     == AbiName(ops[1].abi)
    IN /\ first.op = (IF mn = "li" THEN "lui" ELSE "auipc") /\ first.regs = <<rd>>
       /\ second.op = "addi" /\ second.regs = <<rd, rd>>
       /\ first.num * 4096 + second.num = IF mn = "li" THEN ops[2].n ELSE there[ops[2].name]

RvMeans(mn, ops, words, there) ==
    CASE mn \in {"li", "la"} /\ Len(words) = 2 -> RvPairMakes(mn, ops, words, there)
      [] mn = "li" /\ Len(words) = 1 /\ ops[2].n \notin -2048 .. 2047 ->
            LET only == RvDecoded(words[1])
            IN only.op = "lui" /\ only.regs = <<AbiName(ops[1].abi)>> /\ only.num * 4096 = ops[2].n
      [] OTHER -> Len(words) = 1 /\ RvDecoded(words[1]) = RvAsked(mn, ops, there)
=============================================================================
