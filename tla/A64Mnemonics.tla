---------------------------- MODULE A64Mnemonics ----------------------------
(***************************************************************************)
(* encode_mnemonic of a64-asm2hex2.py: from a mnemonic and its operands to *)
(* the encoders of a64_asm.py.  b.eq is "b." and a name.                   *)
(*                                                                         *)
(* Operands behind those a mnemonic looks at are never looked at; one of   *)
(* another kind raises: a KeyError of REGS, a ValueError of int, an        *)
(* IndexError of args.                                                     *)
(***************************************************************************)
EXTENDS A64Encode

normalize_reg(r) == IF r.cls = "w" THEN X(r.n) ELSE r

\* The register that operand i names.
R(ops, i) == normalize_reg(ops[i].reg)

\* Written as a 32-bit register, wzr included.
Narrow(op) == op.reg.cls \in {"w", "wzr"}

Value(op) == IF op.is = "mask" THEN op.bits ELSE Bits(op.n, 64)

If(condition, word) == IF condition THEN {word} ELSE {}

-----------------------------------------------------------------------------
(* Branch targets *)

check_offset(offset, bits, name) ==
    IF name = "adr" THEN offset \in -2^20 .. 2^20 - 1
    ELSE offset % 4 = 0 /\ offset \div 4 \in -2^(bits - 1) .. 2^(bits - 1) - 1

\* The offset to the label that operand i names, if there is one and it fits.
Offsets(ops, i, bits, name, addr, labels) ==
    {o \in {labels[l] - addr : l \in {ops[i].name} \cap DOMAIN labels} : check_offset(o, bits, name)}

Adr(ops, addr, labels) ==
    IF ~Shaped(ops, <<"reg", "label">>) THEN {}
    ELSE {At(o, 29, 2) \cup {28} \cup At(o \div 4, 5, 19) \cup D(R(ops, 1)) :
            o \in Offsets(ops, 2, 21, "adr", addr, labels)}

\* A "b" whose operand is a register goes on to the end and raises.
Branches(mn, ops, addr, labels) ==
    CASE mn \in {"b", "bl"} /\ Shaped(ops, <<"label">>) ->
            {Branch(mn, o) : o \in Offsets(ops, 1, 26, mn, addr, labels)}
      [] mn = "b." /\ Shaped(ops, <<"name", "label">>) /\ ops[1].name \in DOMAIN CONDS ->
            {BranchIf(ops[1].name, o) : o \in Offsets(ops, 2, 19, mn, addr, labels)}
      [] mn \in {"cbz", "cbnz"} /\ Shaped(ops, <<"reg", "label">>) ->
            {CompareBranch(mn, R(ops, 1), o) : o \in Offsets(ops, 2, 19, mn, addr, labels)}
      [] mn \in {"br", "blr"} /\ Shaped(ops, <<"reg">>) -> {BranchRegister(mn, R(ops, 1))}
      [] OTHER -> {}

-----------------------------------------------------------------------------
(* System instructions *)

Variants == [ic |-> "iallu", dsb |-> "sy", tlbi |-> "vmalle1"]

\* Each of the three has one variant, which may be left out.
Maintenance(mn, ops) ==
    If(ops = <<>> \/ ops[1] = Name(Variants[mn]),
       FixedWords[CASE mn = "ic" -> "ic_iallu" [] mn = "dsb" -> "dsb_sy" [] OTHER -> "tlbi_vmalle1"])

System(mn, ops) ==
    CASE mn \in {"svc", "hvc"} /\ Shaped(ops, <<"imm">>) -> {Call(mn, ops[1].n)}
      [] mn = "msr" /\ Shaped(ops, <<"name", "imm">>) ->
            If(ops[1].name \in DOMAIN PstateFields, Pstate(ops[1].name, ops[2].n))
      [] mn = "msr" /\ Shaped(ops, <<"name", "reg">>) ->
            If(ops[1].name \in DOMAIN SYSREGS \ DOMAIN PstateFields, SystemRegister(mn, ops[1].name, R(ops, 2)))
      [] mn = "mrs" /\ Shaped(ops, <<"reg", "name">>) ->
            If(ops[2].name \in DOMAIN SYSREGS, SystemRegister(mn, ops[2].name, R(ops, 1)))
      [] OTHER -> {}

-----------------------------------------------------------------------------
(* Moves: mov of a number may take several words *)

Mov(ops) ==
    CASE Shaped(ops, <<"reg", "reg">>) -> <<Move(R(ops, 1), R(ops, 2))>>
      [] Len(ops) >= 2 /\ ops[1].is = "reg" /\ ops[2].is \in {"imm", "mask"} ->
            IF ops[2].is = "imm" /\ ops[2].n \in 0 .. \hFFFF
            THEN <<MoveWide("movz", R(ops, 1), Bits(ops[2].n, 16), 0)>>
            ELSE load_addr(R(ops, 1), Value(ops[2]))
      [] OTHER -> <<>>

\* A third operand that is no "lsl #n" counts for nothing.
WideMoves(mn, ops) ==
    IF ~Shaped(ops, <<"reg", "imm">>) THEN {}
    ELSE {MoveWide(mn, R(ops, 1), Bits(ops[2].n, 16), IF Shaped(ops, <<"reg", "imm", "lsl">>) THEN ops[3].n ELSE 0)}

-----------------------------------------------------------------------------
(* Arithmetic *)

Compares(mn, ops) ==
    CASE Shaped(ops, <<"reg", "reg">>) -> {ThreeRegisters(RegisterWords[mn], XZR, R(ops, 1), R(ops, 2))}
      [] mn = "tst" /\ Len(ops) >= 2 /\ ops[1].is = "reg" /\ ops[2].is \in {"imm", "mask"} ->
            LogicalImm(mn, XZR, R(ops, 1), Value(ops[2]))
      [] mn # "tst" /\ Shaped(ops, <<"reg", "imm">>) -> AddSub(mn, XZR, R(ops, 1), ops[2].n)
      [] OTHER -> {}

AddsAndSubs(mn, ops) ==
    CASE Shaped(ops, <<"reg", "reg", "imm">>) -> AddSub(mn, R(ops, 1), R(ops, 2), ops[3].n)
      [] Shaped(ops, <<"reg", "reg", "reg">>) ->
            {ThreeRegisters(RegisterWords[mn], R(ops, 1), R(ops, 2), R(ops, 3))}
      [] OTHER -> {}

Logicals(mn, ops) ==
    CASE Shaped(ops, <<"reg", "reg", "reg">>) ->
            {ThreeRegisters(RegisterWords[mn], R(ops, 1), R(ops, 2), R(ops, 3))}
      [] Len(ops) >= 3 /\ Shaped(ops, <<"reg", "reg">>) /\ ops[3].is \in {"imm", "mask"} ->
            LogicalImm(mn, R(ops, 1), R(ops, 2), Value(ops[3]))
      [] OTHER -> {}

Products(mn, ops) ==
    If(Shaped(ops, <<"reg", "reg", "reg">>), ThreeRegisters(MulDivWords[mn], R(ops, 1), R(ops, 2), R(ops, 3)))

Unary(mn, ops) ==
    IF ~Shaped(ops, <<"reg", "reg">>) THEN {}
    ELSE {CASE mn = "neg"  -> Neg(R(ops, 1), R(ops, 2))
            [] mn = "sxtw" -> Sxtw(R(ops, 1), R(ops, 2))
            [] mn = "rev"  -> Reversal(~Narrow(ops[1]), R(ops, 1), R(ops, 2))}

Shifts(mn, ops) ==
    CASE Shaped(ops, <<"reg", "reg", "imm">>) -> {ShiftImm(mn, R(ops, 1), R(ops, 2), ops[3].n)}
      [] Shaped(ops, <<"reg", "reg", "reg">>) ->
            {ThreeRegisters(ShiftWords[mn], R(ops, 1), R(ops, 2), R(ops, 3))}
      [] OTHER -> {}

-----------------------------------------------------------------------------
(* Loads and stores *)

\* stp with "!", ldp with an offset behind its brackets, or a plain offset.
Pairs(mn, ops) ==
    IF ~Shaped(ops, <<"reg", "reg", "mem">>) THEN {}
    ELSE LET mem == ops[3]
             base == normalize_reg(mem.base)
             pair(name, imm) == Pair(name, R(ops, 1), R(ops, 2), base, imm)
         IN CASE mem.bang -> If(mn = "stp" /\ mem.off.is = "imm", pair("stp_pre", mem.off.n))
              [] ~mem.bang /\ Len(ops) > 3 ->
                    If(mn = "ldp" /\ mem.off = Imm(0) /\ ops[4].is = "imm", pair("ldp_post", ops[4].n))
              [] OTHER -> If(mem.off.is = "imm", pair(mn, mem.off.n))

\* What the "!" of a single register says, and an operand behind it, is lost.
Singles(mn, ops) ==
    IF ~Shaped(ops, <<"reg", "mem">>) THEN {}
    ELSE LET name == IF Narrow(ops[1]) /\ mn = "ldr" THEN "ldr_w"
                     ELSE IF Narrow(ops[1]) /\ mn = "str" THEN "str_w" ELSE mn
             rt   == R(ops, 1)
             base == normalize_reg(ops[2].base)
             off  == ops[2].off
         IN IF off.is = "imm" THEN LoadStore(name, rt, base, off.n)
            ELSE {ThreeRegisters(RegisterOffsetWords[m], rt, base, normalize_reg(off.reg)) :
                    m \in {name} \cap DOMAIN RegisterOffsetWords}

-----------------------------------------------------------------------------
OneWord(mn, ops, addr, labels) ==
    CASE mn \in {"ret", "eret", "nop", "wfe", "isb"}       -> {FixedWords[mn]}
      [] mn \in DOMAIN Variants                            -> Maintenance(mn, ops)
      [] mn \in {"svc", "hvc", "msr", "mrs"}               -> System(mn, ops)
      [] mn = "adr"                                        -> Adr(ops, addr, labels)
      [] mn \in {"b", "bl", "b.", "cbz", "cbnz", "br", "blr"} -> Branches(mn, ops, addr, labels)
      [] mn \in DOMAIN MoveWideWords                       -> WideMoves(mn, ops)
      [] mn \in {"neg", "sxtw", "rev"}                     -> Unary(mn, ops)
      [] mn \in {"cmp", "cmn", "tst"}                      -> Compares(mn, ops)
      [] mn \in {"add", "sub", "adds", "subs"}             -> AddsAndSubs(mn, ops)
      [] mn \in {"and", "orr", "eor", "ands"}              -> Logicals(mn, ops)
      [] mn \in DOMAIN MulDivWords                         -> Products(mn, ops)
      [] mn \in DOMAIN ShiftWords                          -> Shifts(mn, ops)
      [] mn \in {"stp", "ldp"}                             -> Pairs(mn, ops)
      [] mn \in {"ldr", "str", "ldrb", "strb", "ldrh", "strh", "ldrsw"} -> Singles(mn, ops)
      [] OTHER -> {}

\* The words of an instruction, none when it raises.
encode_mnemonic(mn, ops, addr, labels) ==
    IF mn = "mov" THEN Mov(ops) ELSE SetToSeq(OneWord(mn, ops, addr, labels))
=============================================================================
