------------------------------ MODULE A64Encode ------------------------------
(***************************************************************************)
(* a64_asm.py: the instruction words of AArch64, from tables and fields.   *)
(* An encoder that may raise returns a set: of the word, or empty.         *)
(* Registers are records: what REGS numbers, and the letter of the name.   *)
(***************************************************************************)
EXTENDS Assembly, SequencesExt

\* REGS
X(n) == [cls |-> "x", n |-> n]
SP   == [cls |-> "sp", n |-> 31]
XZR  == [cls |-> "xzr", n |-> 31]
WZR  == [cls |-> "wzr", n |-> 31]
LR   == [cls |-> "lr", n |-> 30]

CONDS == [eq |-> 0, ne |-> 1, cs |-> 2, hs |-> 2, cc |-> 3, lo |-> 3, mi |-> 4, pl |-> 5, vs |-> 6,
          vc |-> 7, hi |-> 8, ls |-> 9, ge |-> 10, lt |-> 11, gt |-> 12, le |-> 13, al |-> 14]

SYSREGS == [
    sctlr_el1 |-> \h4080, tcr_el1  |-> \h4102, ttbr0_el1 |-> \h4100, ttbr1_el1 |-> \h4101,
    mair_el1  |-> \h4510, vbar_el1 |-> \h4600, elr_el1   |-> \h4201, spsr_el1  |-> \h4200,
    esr_el1   |-> \h4290, far_el1  |-> \h4300, sp_el0    |-> \h4208, spsel     |-> \h4210,
    currentel |-> \h4212, daif     |-> \h5A11, mpidr_el1 |-> \h4005, hcr_el2   |-> \h6088,
    sctlr_el2 |-> \h6080, spsr_el2 |-> \h6200, elr_el2   |-> \h6201, cnthctl_el2 |-> \h6708,
    cptr_el2  |-> \h608A]

\* _reg(rd) | (_reg(rn) << 5) | (_reg(rm) << 16)
D(rd) == At(rd.n, 0, 5)
N(rn) == At(rn.n, 5, 5)
M(rm) == At(rm.n, 16, 5)

-----------------------------------------------------------------------------
FixedWords == [
    ret          |-> W(\hD65F, \h03C0), eret     |-> W(\hD69F, \h03E0), nop |-> W(\hD503, \h201F),
    wfe          |-> W(\hD503, \h205F), dsb_sy   |-> W(\hD503, \h3F9F), isb |-> W(\hD503, \h3FDF),
    tlbi_vmalle1 |-> W(\hD508, \h871F), ic_iallu |-> W(\hD508, \h751F)]

PstateFields == [spsel   |-> [word |-> W(\hD500, \h40BF), bits |-> 1],
                 daifset |-> [word |-> W(\hD503, \h40DF), bits |-> 4],
                 daifclr |-> [word |-> W(\hD503, \h40FF), bits |-> 4]]

Pstate(field, imm) == PstateFields[field].word \cup At(imm, 8, PstateFields[field].bits)

Reversal(wide, rd, rn) ==
    (IF wide THEN W(\hDAC0, \h0C00) ELSE W(\h5AC0, \h0800)) \cup N(rn) \cup D(rd)

-----------------------------------------------------------------------------
(* Data processing (immediate) *)

\* Mutant: a multiple of 4096 is taken as it is.
encode_addsub_unshifted(imm) == IF imm \in 0 .. 4095 * 4096 THEN {[sh |-> 0, imm12 |-> imm % 4096]} ELSE {}

\* sh and imm12; no pair when it raises.
encode_addsub_imm(imm) ==
    IF imm \in 0 .. 4095 THEN {[sh |-> 0, imm12 |-> imm]}
    ELSE IF imm % 4096 = 0 /\ imm \div 4096 \in 1 .. 4095 THEN {[sh |-> 1, imm12 |-> imm \div 4096]}
    ELSE {}

AddSubImm == [add |-> W(\h9100, 0), sub |-> W(\hD100, 0), adds |-> W(\hB100, 0), subs |-> W(\hF100, 0),
              cmp |-> W(\hF100, \h1F), cmn |-> W(\hB100, \h1F)]

AddSub(mn, rd, rn, imm) ==
    {AddSubImm[mn] \cup At(e.sh, 22, 1) \cup At(e.imm12, 10, 12) \cup N(rn) \cup D(rd) :
        e \in encode_addsub_imm(imm)}

MoveWideWords == [movz |-> W(\hD280, 0), movk |-> W(\hF280, 0), movn |-> W(\h9280, 0)]

\* imm16 as its bits.  hw is not masked.
MoveWide(mn, rd, imm16, shift) ==
    MoveWideWords[mn] \cup At(shift \div 16, 21, 11) \cup Up(imm16, 5) \cup D(rd)

-----------------------------------------------------------------------------
(* Logical (immediate) *)

\* element rotated right by r places.
Rotated(element, size, r) == {(k + size - r) % size : k \in element}

\* How far to rotate element for its ones to be consecutive from bit 0 on.
Rotations(element, size) ==
    {r \in 0 .. size - 1 : Rotated(element, size, r) = 0 .. Cardinality(element) - 1}

Repeats(value, size) == \A i \in 0 .. 64 \div size - 1 : Field(value, i * size, size) = Field(value, 0, size)

\* N, immr and imms of a mask of reg_size bits, none when it raises: the
\* smallest element that repeats and that is one run of ones, rotated.
encode_bitmask_imm(mask, is_64bit) ==
    LET value   == IF is_64bit THEN mask ELSE (mask \cap 0 .. 31) \cup Up(mask \cap 0 .. 31, 32)
        sizes   == {s \in {2, 4, 8, 16, 32, 64} : Repeats(value, s) /\ Rotations(Field(value, 0, s), s) # {}}
        size    == Min(sizes)
        element == Field(value, 0, size)
        r       == Min(Rotations(element, size))
        upper   == {k \in 0 .. 5 : 2^k > size}
    IN IF value = {} \/ value = 0 .. 63 \/ sizes = {} THEN {}
       ELSE {[N    |-> IF size = 64 THEN 1 ELSE 0,
              immr |-> (size - r) % size,
              imms |-> Number(upper) + Cardinality(element) - 1]}

LogicalOpc == [and |-> 0, orr |-> 1, eor |-> 2, ands |-> 3, tst |-> 3]

\* The width goes by the name of rd, which normalize_reg has made an x name.
LogicalImm(mn, rd, rn, mask) ==
    LET is_64 == rd.cls \in {"x", "sp", "xzr"}
    IN {At(LogicalOpc[mn], 29, 2) \cup At(\h24, 23, 6) \cup (IF is_64 THEN {31} ELSE {})
            \cup At(e.N, 22, 1) \cup At(e.immr, 16, 6) \cup At(e.imms, 10, 6) \cup N(rn) \cup D(rd) :
        e \in encode_bitmask_imm(mask, is_64)}

-----------------------------------------------------------------------------
(* Registers only *)

RegisterWords == [
    add |-> W(\h8B00, 0), sub |-> W(\hCB00, 0), adds |-> W(\hAB00, 0), subs |-> W(\hEB00, 0),
    cmp |-> W(\hEB00, \h1F), cmn |-> W(\hAB00, \h1F), tst |-> W(\hEA00, \h1F),
    and |-> W(\h8A00, 0), orr |-> W(\hAA00, 0), eor |-> W(\hCA00, 0), ands |-> W(\hEA00, 0)]

MulDivWords == [mul |-> W(\h9B00, \h7C00), udiv |-> W(\h9AC0, \h0800), sdiv |-> W(\h9AC0, \h0C00)]

ShiftWords == [lsl |-> W(\h9AC0, \h2000), lsr |-> W(\h9AC0, \h2400), asr |-> W(\h9AC0, \h2800)]

ThreeRegisters(word, rd, rn, rm) == word \cup M(rm) \cup N(rn) \cup D(rd)

\* Mutant: the stack pointer is moved like any other register.
MoveAlways(rd, rn) == W(\hAA00, \h03E0) \cup M(rn) \cup D(rd)

\* ORR takes register 31 for zero, ADD for the stack pointer.
Move(rd, rn) ==
    IF SP \in {rd, rn} THEN W(\h9100, 0) \cup N(rn) \cup D(rd)
    ELSE W(\hAA00, \h03E0) \cup M(rn) \cup D(rd)

Neg(rd, rm) == W(\hCB00, \h03E0) \cup M(rm) \cup D(rd)

\* UBFM and SBFM; the amount is not checked.
ShiftImm(mn, rd, rn, imm) ==
    (CASE mn = "lsl" -> W(\hD340, 0) \cup At(-imm, 16, 6) \cup At(63 - imm, 10, 22)
       [] mn = "lsr" -> W(\hD340, \hFC00) \cup At(imm, 16, 16)
       [] mn = "asr" -> W(\h9340, \hFC00) \cup At(imm, 16, 16)) \cup N(rn) \cup D(rd)

Sxtw(rd, rn) == W(\h9340, \h7C00) \cup N(rn) \cup D(rd)

-----------------------------------------------------------------------------
(* Loads and stores *)

OffsetWords == [
    ldr   |-> [word |-> W(\hF940, 0), size |-> 8], str   |-> [word |-> W(\hF900, 0), size |-> 8],
    ldr_w |-> [word |-> W(\hB940, 0), size |-> 4], str_w |-> [word |-> W(\hB900, 0), size |-> 4],
    ldrb  |-> [word |-> W(\h3940, 0), size |-> 1], strb  |-> [word |-> W(\h3900, 0), size |-> 1],
    ldrh  |-> [word |-> W(\h7940, 0), size |-> 2], strh  |-> [word |-> W(\h7900, 0), size |-> 2],
    ldrsw |-> [word |-> W(\hB980, 0), size |-> 4]]

\* Only the alignment is checked: an offset beyond 12 bits runs over.
LoadStore(mn, rt, rn, imm) ==
    {o.word \cup At(imm \div o.size, 10, 22) \cup N(rn) \cup D(rt) :
        o \in {m \in {OffsetWords[mn]} : imm % m.size = 0}}

RegisterOffsetWords == [
    ldr   |-> W(\hF860, \h6800), str   |-> W(\hF820, \h6800), ldrb |-> W(\h3860, \h6800),
    strb  |-> W(\h3820, \h6800), ldrh  |-> W(\h7860, \h6800), strh |-> W(\h7820, \h6800),
    ldr_w |-> W(\hB860, \h6800), str_w |-> W(\hB820, \h6800)]

PairWords == [stp_pre |-> W(\hA980, 0), ldp_post |-> W(\hA8C0, 0), stp |-> W(\hA900, 0), ldp |-> W(\hA940, 0)]

Pair(mn, rt1, rt2, rn, imm) ==
    PairWords[mn] \cup At(imm \div 8, 15, 7) \cup At(rt2.n, 10, 5) \cup N(rn) \cup D(rt1)

-----------------------------------------------------------------------------
(* Branches and system instructions *)

Branch(mn, offset) ==
    (IF mn = "b" THEN W(\h1400, 0) ELSE W(\h9400, 0)) \cup At(offset \div 4, 0, 26)

BranchIf(cond, offset) == W(\h5400, 0) \cup At(offset \div 4, 5, 19) \cup At(CONDS[cond], 0, 4)

CompareBranch(mn, rt, offset) ==
    (IF mn = "cbz" THEN W(\hB400, 0) ELSE W(\hB500, 0)) \cup At(offset \div 4, 5, 19) \cup D(rt)

BranchRegister(mn, rn) == (IF mn = "br" THEN W(\hD61F, 0) ELSE W(\hD63F, 0)) \cup N(rn)

Call(mn, imm16) == (IF mn = "svc" THEN W(\hD400, 1) ELSE W(\hD400, 2)) \cup At(imm16, 5, 16)

SystemRegister(mn, sysreg, rt) ==
    (IF mn = "msr" THEN W(\hD510, 0) ELSE W(\hD530, 0)) \cup At(SYSREGS[sysreg], 5, 15) \cup D(rt)

-----------------------------------------------------------------------------
\* load_addr: the words that set a 64-bit value, the lowest chunk that is not
\* zero first; the value as its bits.
load_addr(rd, value) ==
    LET chunk(i) == Field(value, 16 * i, 16)
        used     == {i \in 0 .. 3 : chunk(i) # {}}
        nth(j)   == CHOOSE i \in used : Cardinality({k \in used : k <= i}) = j
    IN IF value = {} THEN <<MoveWide("movz", rd, {}, 0)>>
       ELSE [j \in 1 .. Cardinality(used) |->
                MoveWide(IF j = 1 THEN "movz" ELSE "movk", rd, chunk(nth(j)), 16 * nth(j))]
=============================================================================
