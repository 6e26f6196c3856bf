----------------------------- MODULE BuildProofs -----------------------------
(***************************************************************************)
(* Theorems about the way from the assembly source to the running program. *)
(*                                                                         *)
(* The toolchain.  The addresses a64-asm2hex2.py counts by the line are    *)
(* those the linker finds by counting bytes: for every set of sources,     *)
(* whatever is edited and however often it is made, as long as no mov      *)
(* takes several words.  What the passes have built when they are through  *)
(* with n lines is said by operators on the files themselves, so that a    *)
(* lemma about one line more serves pass 1 and the linker's first pass     *)
(* alike.  rv64-asm2hex2.py prints lines that the linker and hex2tohex0.py *)
(* count alike, though one counts bytes and the other looks for dots and   *)
(* sigils; and the two instructions of a li come to its number.            *)
(*                                                                         *)
(* What the tools make has the lines of the source, each once and in their *)
(* order, is of the types its readers expect, and hex2tohex0.py never runs *)
(* out of the linker's bytes.  The files are sequences that the tools read *)
(* to the end while others may have written them anew: `Lined', `Copies'   *)
(* and `Rest' say of one file what it is in terms of the one before it,    *)
(* and Ordered says which of them still belong together.  What a fold or a *)
(* recursive function comes to is shown by induction on sets of naturals   *)
(* (Upwards), with StepsExist and StepsStay for functions on 0 .. n.       *)
(*                                                                         *)
(* The two compilers, for every sector size and all images that            *)
(* build-self.sh makes of texts with a zero byte behind them: both make of *)
(* a text the bytes it stands for, they keep their types, and stage 1      *)
(* tells stage 2 the sector the script begins in.  Stage 1 counts sectors  *)
(* and bytes of a sector, build-self.sh divides the length of the text;    *)
(* Consumed is what relates them: how many bytes of the disk stage 1 has   *)
(* looked at.  What both compilers have written is related to the text by  *)
(* Translated: as many digits as there are in what was looked at, in       *)
(* pairs, and the last one in `high' if it is alone.                       *)
(*                                                                         *)
(* The whole.  The lines of the .hex0 file are digits between comments,    *)
(* written one behind the other; the scanner finds the bytes of the lines  *)
(* in it (FileRead), and they are the linker's, in their order, because    *)
(* hex2tohex0.py's counting hands each line its own (Handing).  So what    *)
(* was linked is what runs, however often it is edited, made and booted.   *)
(***************************************************************************)
EXTENDS Build, SequenceTheorems, FiniteSetTheorems, WellFoundedInduction, TLAPS

(***************************************************************************)
(* Whatever its operands, and wherever the labels are: a mnemonic other    *)
(* than mov becomes one word or is refused.  This is what lets both passes *)
(* of a64-asm2hex2.py count four bytes for an instruction.                 *)
(***************************************************************************)
\* An encoder that may raise gives one word or none.
AtMostOne(S) == \A x, y \in S : x = y

LEMMA NoneOrOne ==
    ASSUME NEW S, AtMostOne(S)
    PROVE  (SetToSeq(S) = <<>> \/ DOMAIN SetToSeq(S) = {1}) /\ SetToSeq(S) \in Seq(S)
  <1>1. CASE S = {}
    <2>1. Cardinality(S) = 0
      BY <1>1, FS_EmptySet
    <2> DEFINE f == [i \in 1 .. 0 |-> 0]
    <2>2. f \in [1 .. Cardinality(S) -> S] /\ IsInjective(f)
      BY <2>1 DEF IsInjective
    <2>3. SetToSeq(S) \in [1 .. Cardinality(S) -> S]
      BY <2>2 DEF SetToSeq
    <2> QED
      BY <2>1, <2>3
  <1>2. CASE S # {}
    <2>1. PICK x : x \in S
      BY <1>2
    <2>2. S = {x}
      BY <2>1 DEF AtMostOne
    <2>3. Cardinality(S) = 1
      BY <2>2, FS_Singleton
    <2> DEFINE f == [i \in 1 .. 1 |-> x]
    <2>4. f \in [1 .. Cardinality(S) -> S] /\ IsInjective(f)
      BY <2>1, <2>3 DEF IsInjective
    <2>5. SetToSeq(S) \in [1 .. Cardinality(S) -> S]
      BY <2>4 DEF SetToSeq
    <2> QED
      BY <2>3, <2>5
  <1> QED
    BY <1>1, <1>2

-----------------------------------------------------------------------------
(* Offsets and fields *)

LEMMA OneOffset ==
    ASSUME NEW ops, NEW i, NEW bits, NEW name, NEW a, NEW lbls
    PROVE  AtMostOne(Offsets(ops, i, bits, name, a, lbls))
  BY DEF AtMostOne, Offsets

LEMMA OneAddSub ==
    ASSUME NEW mn, NEW rd, NEW rn, NEW imm
    PROVE  AtMostOne(AddSub(mn, rd, rn, imm))
  <1>1. AtMostOne(encode_addsub_imm(imm))
    BY DEF AtMostOne, encode_addsub_imm
  <1> QED
    BY <1>1 DEF AtMostOne, AddSub

LEMMA OneLogicalImm ==
    ASSUME NEW mn, NEW rd, NEW rn, NEW mask
    PROVE  AtMostOne(LogicalImm(mn, rd, rn, mask))
  <1>1. \A is64 : AtMostOne(encode_bitmask_imm(mask, is64))
    BY DEF AtMostOne, encode_bitmask_imm
  <1> QED
    BY <1>1 DEF AtMostOne, LogicalImm

LEMMA OneLoadStore ==
    ASSUME NEW mn, NEW rt, NEW rn, NEW imm
    PROVE  AtMostOne(LoadStore(mn, rt, rn, imm))
  BY DEF AtMostOne, LoadStore

-----------------------------------------------------------------------------
(* The families of mnemonics *)

LEMMA OneBranch ==
    ASSUME NEW mn, NEW ops, NEW a, NEW lbls
    PROVE  AtMostOne(Branches(mn, ops, a, lbls)) /\ AtMostOne(Adr(ops, a, lbls))
  <1>1. AtMostOne(Branches(mn, ops, a, lbls))
    BY OneOffset DEF AtMostOne, Branches
  <1>2. AtMostOne(Adr(ops, a, lbls))
    BY OneOffset DEF AtMostOne, Adr
  <1> QED
    BY <1>1, <1>2

LEMMA OneSystem ==
    ASSUME NEW mn, NEW ops
    PROVE  AtMostOne(System(mn, ops)) /\ AtMostOne(Maintenance(mn, ops))
  <1>1. AtMostOne(System(mn, ops))
    BY DEF AtMostOne, System, If
  <1>2. AtMostOne(Maintenance(mn, ops))
    BY DEF AtMostOne, Maintenance, If
  <1> QED
    BY <1>1, <1>2

LEMMA OneMove ==
    ASSUME NEW mn, NEW ops
    PROVE  AtMostOne(WideMoves(mn, ops)) /\ AtMostOne(Unary(mn, ops))
  <1>1. AtMostOne(WideMoves(mn, ops))
    BY DEF AtMostOne, WideMoves
  <1>2. AtMostOne(Unary(mn, ops))
    BY DEF AtMostOne, Unary
  <1> QED
    BY <1>1, <1>2

LEMMA OneArithmetic ==
    ASSUME NEW mn, NEW ops
    PROVE  /\ AtMostOne(Compares(mn, ops)) /\ AtMostOne(AddsAndSubs(mn, ops))
           /\ AtMostOne(Logicals(mn, ops)) /\ AtMostOne(Products(mn, ops)) /\ AtMostOne(Shifts(mn, ops))
  <1>1. AtMostOne(Compares(mn, ops))
    BY OneAddSub, OneLogicalImm DEF AtMostOne, Compares
  <1>2. AtMostOne(AddsAndSubs(mn, ops))
    BY OneAddSub DEF AtMostOne, AddsAndSubs
  <1>3. AtMostOne(Logicals(mn, ops))
    BY OneLogicalImm DEF AtMostOne, Logicals
  <1>4. AtMostOne(Products(mn, ops)) /\ AtMostOne(Shifts(mn, ops))
    BY DEF AtMostOne, Products, Shifts, If
  <1> QED
    BY <1>1, <1>2, <1>3, <1>4

LEMMA OneTransfer ==
    ASSUME NEW mn, NEW ops
    PROVE  AtMostOne(Pairs(mn, ops)) /\ AtMostOne(Singles(mn, ops))
  <1>1. AtMostOne(Pairs(mn, ops))
    BY DEF AtMostOne, Pairs, If
  <1>2. AtMostOne(Singles(mn, ops))
    BY OneLoadStore DEF AtMostOne, Singles
  <1> QED
    BY <1>1, <1>2

-----------------------------------------------------------------------------
\* encode_mnemonic: one word, or none because it raises.
THEOREM OneWordEach ==
    ASSUME NEW mn, mn # "mov", NEW ops, NEW a, NEW lbls
    PROVE  LET words == encode_mnemonic(mn, ops, a, lbls)
           IN  words = <<>> \/ DOMAIN words = {1}
  <1>1. AtMostOne(OneWord(mn, ops, a, lbls))
    <2>1. \A x : AtMostOne({x}) /\ AtMostOne({})
      BY DEF AtMostOne
    <2> QED
      BY <2>1, OneBranch, OneSystem, OneMove, OneArithmetic, OneTransfer DEF OneWord
  <1> QED
    BY <1>1, NoneOrOne DEF encode_mnemonic

-----------------------------------------------------------------------------
IsSeq(s) == \E S : s \in Seq(S)

\* The label that a line defines.
LineDef(line) == IF TypeOf(line) = "label" THEN line.name ELSE ""

\* Where line n + 1 begins, by what pass 1 has stored of line n.
EndOf(ps, st, n) == IF n = 0 THEN 0 ELSE st[n] + ps[n].size

\* What a line of this type stands for; of padding, only that it is a number.
SizeFits(line, type, size) ==
    /\ size \in Nat
    /\ type \in {"blank", "comment", "label"} => size = 0
    /\ type = "raw" => size = Len(line.bytes)
    /\ type \in DOMAIN Sizes => size = Sizes[type]
    /\ type = "insn" => size = 4

\* What pass 1 may store of a line.
EntryFits(line, e) == e.type = TypeOf(line) /\ SizeFits(line, e.type, e.size)

\* Pass 1 is through with n lines.
ParsedTo(lines, ps, st, n) ==
    /\ n \in 0 .. Len(lines)
    /\ IsSeq(ps) /\ Len(ps) = n
    /\ st \in Seq(Nat) /\ Len(st) = n
    /\ \A i \in 1 .. n :
        /\ ps[i].type = TypeOf(lines[i])
        /\ SizeFits(lines[i], ps[i].type, ps[i].size)
        /\ st[i] = EndOf(ps, st, i - 1)

IsFcn(t) == t = [l \in DOMAIN t |-> t[l]]

\* t has the labels of the first n lines, each at its last definition.
Located(lines, st, t, n) ==
    /\ IsFcn(t)
    /\ \A l \in DOMAIN t :
        /\ l # ""
        /\ \E i \in 1 .. n : /\ LineDef(lines[i]) = l /\ t[l] = st[i]
                             /\ \A j \in i + 1 .. n : LineDef(lines[j]) # l
    /\ \A i \in 1 .. n : LineDef(lines[i]) # "" => LineDef(lines[i]) \in DOMAIN t

\* The first n lines, one by one, with as many bytes as pass 1 has counted.
Printed(lines, ps, hs, n) ==
    /\ IsSeq(hs) /\ Len(hs) = n
    /\ \A i \in 1 .. n : hs[i].def = LineDef(lines[i]) /\ Len(hs[i].bytes) = ps[i].size

-----------------------------------------------------------------------------
(* One line more *)

\* One index more.
LEMMA OneIndex ==
    ASSUME NEW n \in Nat
    PROVE  /\ n + 1 \in 1 .. n + 1 /\ (n + 1) + 1 .. n + 1 = {}
           /\ \A i \in 1 .. n + 1 : i \in 1 .. n \/ i = n + 1
           /\ \A i \in 1 .. n : i \in 1 .. n + 1 /\ \A j \in i + 1 .. n + 1 : j \in i + 1 .. n \/ j = n + 1
  OBVIOUS

LEMMA EndIsNat ==
    ASSUME NEW lines, NEW ps, NEW st, NEW n, lines \in Seq(Range(lines)), ParsedTo(lines, ps, st, n),
           NEW i \in 0 .. n
    PROVE  EndOf(ps, st, i) \in Nat
  BY DEF ParsedTo, EndOf, SizeFits

LEMMA AppendOne ==
    ASSUME NEW s, IsSeq(s), NEW x
    PROVE  /\ IsSeq(Append(s, x)) /\ s \o <<x>> = Append(s, x)
           /\ Len(s) \in Nat /\ Len(Append(s, x)) = Len(s) + 1
           /\ \A i \in 1 .. Len(s) : Append(s, x)[i] = s[i]
           /\ Append(s, x)[Len(s) + 1] = x
  <1>1. PICK S : s \in Seq(S)
    BY DEF IsSeq
  <1> DEFINE T == S \cup {x}
  <1>2. s \in Seq(T) /\ x \in T
    BY <1>1
  <1>3. Append(s, x) \in Seq(T)
    BY <1>2
  <1> HIDE DEF T
  <1>4. s \o <<x>> = Append(s, x)
    BY <1>2
  <1> QED
    BY <1>2, <1>3, <1>4 DEF IsSeq

\* One line further than ps and st, pass 1 has ps2 and st2.
GoesOn(lines, ps, st, n, ps2, st2, size) ==
    /\ ParsedTo(lines, ps2, st2, n + 1)
    /\ EndOf(ps2, st2, n + 1) = EndOf(ps, st, n) + size
    /\ st2[n + 1] = EndOf(ps, st, n)
    /\ \A i \in 1 .. n : st2[i] = st[i]

LEMMA ParseOne ==
    ASSUME NEW lines, lines \in Seq(Range(lines)), NEW ps, NEW st, NEW n, ParsedTo(lines, ps, st, n),
           n < Len(lines), NEW e, EntryFits(lines[n + 1], e)
    PROVE  GoesOn(lines, ps, st, n, Append(ps, e), Append(st, EndOf(ps, st, n)), e.size)
  <1> DEFINE end == EndOf(ps, st, n)
             ps2 == Append(ps, e)
             st2 == Append(st, end)
  <1>1. n \in Nat /\ n + 1 \in 0 .. Len(lines) /\ Len(ps) = n /\ Len(st) = n /\ IsSeq(ps) /\ st \in Seq(Nat)
    BY DEF ParsedTo
  <1>2. end \in Nat
    BY EndIsNat, <1>1
  <1>0. e.type = TypeOf(lines[n + 1]) /\ SizeFits(lines[n + 1], e.type, e.size)
    BY DEF EntryFits
  <1>3. ps2 = Append(ps, e) /\ st2 = Append(st, end)
    OBVIOUS
  <1> HIDE DEF end, ps2, st2
  <1>4. IsSeq(ps2) /\ Len(ps2) = n + 1 /\ ps2[n + 1] = e /\ \A i \in 1 .. n : ps2[i] = ps[i]
    BY <1>1, <1>3, AppendOne
  <1>5. st2 \in Seq(Nat) /\ Len(st2) = n + 1 /\ st2[n + 1] = end /\ \A i \in 1 .. n : st2[i] = st[i]
    BY <1>1, <1>2, <1>3
  <1>6. \A i \in 0 .. n : EndOf(ps2, st2, i) = EndOf(ps, st, i)
    BY <1>1, <1>4, <1>5 DEF EndOf
  <1>7. ASSUME NEW i \in 1 .. n + 1
        PROVE  /\ ps2[i].type = TypeOf(lines[i])
               /\ SizeFits(lines[i], ps2[i].type, ps2[i].size)
               /\ st2[i] = EndOf(ps2, st2, i - 1)
    <2>1. CASE i = n + 1
      BY <1>0, <1>1, <1>4, <1>5, <1>6, <2>1 DEF end
    <2>2. CASE i \in 1 .. n
      <3>1. i - 1 \in 0 .. n
        BY <2>2, <1>1
      <3> QED
        BY <1>4, <1>5, <1>6, <2>2, <3>1 DEF ParsedTo
    <2> QED
      BY <1>1, <2>1, <2>2
  <1>8. ParsedTo(lines, ps2, st2, n + 1)
    BY <1>1, <1>4, <1>5, <1>7 DEF ParsedTo
  <1>9. EndOf(ps2, st2, n + 1) = end + e.size
    BY <1>1, <1>4, <1>5 DEF EndOf
  <1> QED
    BY <1>5, <1>8, <1>9 DEF end, ps2, st2, GoesOn

LEMMA LocateNone ==
    ASSUME NEW lines, NEW st, NEW st2, NEW t, NEW n \in Nat, Located(lines, st, t, n),
           \A i \in 1 .. n : st2[i] = st[i], LineDef(lines[n + 1]) = ""
    PROVE  Located(lines, st2, t, n + 1)
  <1>1. ASSUME NEW l \in DOMAIN t
        PROVE  /\ l # ""
               /\ \E i \in 1 .. n + 1 : /\ LineDef(lines[i]) = l /\ t[l] = st2[i]
                                        /\ \A j \in i + 1 .. n + 1 : LineDef(lines[j]) # l
    <2>1. l # ""
      BY DEF Located
    <2>2. PICK i \in 1 .. n : /\ LineDef(lines[i]) = l /\ t[l] = st[i]
                              /\ \A j \in i + 1 .. n : LineDef(lines[j]) # l
      BY DEF Located
    <2>3. i \in 1 .. n + 1 /\ \A j \in i + 1 .. n + 1 : j \in i + 1 .. n \/ j = n + 1
      BY OneIndex
    <2>4. \A j \in i + 1 .. n + 1 : LineDef(lines[j]) # l
      BY <2>1, <2>2, <2>3
    <2> QED
      BY <2>1, <2>2, <2>3, <2>4
  <1>2. ASSUME NEW i \in 1 .. n + 1, LineDef(lines[i]) # ""
        PROVE  LineDef(lines[i]) \in DOMAIN t
    <2>1. i \in 1 .. n
      BY <1>2, OneIndex
    <2> QED
      BY <1>2, <2>1 DEF Located
  <1> QED
    BY <1>1, <1>2 DEF Located

LEMMA LocateOne ==
    ASSUME NEW lines, NEW st, NEW st2, NEW t, NEW n \in Nat, Located(lines, st, t, n),
           \A i \in 1 .. n : st2[i] = st[i], NEW def, def = LineDef(lines[n + 1]), def # "",
           NEW t2, IsFcn(t2), DOMAIN t2 = DOMAIN t \cup {def}, t2[def] = st2[n + 1],
           \A l \in DOMAIN t \ {def} : t2[l] = t[l]
    PROVE  Located(lines, st2, t2, n + 1)
  <1>1. ASSUME NEW l \in DOMAIN t2
        PROVE  /\ l # ""
               /\ \E i \in 1 .. n + 1 : /\ LineDef(lines[i]) = l /\ t2[l] = st2[i]
                                        /\ \A j \in i + 1 .. n + 1 : LineDef(lines[j]) # l
    <2>1. CASE l = def
      <3>1. n + 1 \in 1 .. n + 1 /\ (n + 1) + 1 .. n + 1 = {}
        BY OneIndex
      <3>2. t2[l] = st2[n + 1] /\ LineDef(lines[n + 1]) = l
        BY <2>1
      <3> QED
        BY <2>1, <3>1, <3>2
    <2>2. CASE l # def
      <3>1. l \in DOMAIN t /\ t2[l] = t[l]
        BY <2>2
      <3>2. l # ""
        BY <3>1 DEF Located
      <3>3. PICK i \in 1 .. n : /\ LineDef(lines[i]) = l /\ t[l] = st[i]
                                /\ \A j \in i + 1 .. n : LineDef(lines[j]) # l
        BY <3>1 DEF Located
      <3>4. i \in 1 .. n + 1 /\ \A j \in i + 1 .. n + 1 : j \in i + 1 .. n \/ j = n + 1
        BY OneIndex
      <3>5. \A j \in i + 1 .. n + 1 : LineDef(lines[j]) # l
        BY <2>2, <3>3, <3>4
      <3>6. t2[l] = st2[i]
        BY <3>1, <3>3
      <3> QED
        BY <3>2, <3>3, <3>4, <3>5, <3>6
    <2> QED
      BY <2>1, <2>2
  <1>2. ASSUME NEW i \in 1 .. n + 1, LineDef(lines[i]) # ""
        PROVE  LineDef(lines[i]) \in DOMAIN t2
    <2>1. CASE i = n + 1
      BY <2>1
    <2>2. CASE i \in 1 .. n
      BY <1>2, <2>2 DEF Located
    <2> QED
      BY <2>1, <2>2, OneIndex
  <1> QED
    BY <1>1, <1>2 DEF Located

\* What Located says of the labels leaves no choice.
LEMMA LocatedOnce ==
    ASSUME NEW lines, NEW st, NEW n \in Nat, NEW t, NEW u, Located(lines, st, t, n), Located(lines, st, u, n)
    PROVE  t = u
  <1>1. ASSUME NEW v, NEW w, Located(lines, st, v, n), Located(lines, st, w, n), NEW l \in DOMAIN v
        PROVE  l \in DOMAIN w /\ w[l] = v[l]
    <2>1. PICK i \in 1 .. n : /\ LineDef(lines[i]) = l /\ v[l] = st[i]
                              /\ \A j \in i + 1 .. n : LineDef(lines[j]) # l
      BY <1>1 DEF Located
    <2>2. l \in DOMAIN w
      BY <1>1, <2>1 DEF Located
    <2>3. PICK k \in 1 .. n : /\ LineDef(lines[k]) = l /\ w[l] = st[k]
                              /\ \A j \in k + 1 .. n : LineDef(lines[j]) # l
      BY <1>1, <2>2 DEF Located
    <2>4. ~(i < k) /\ ~(k < i)
      BY <2>1, <2>3
    <2> QED
      BY <2>1, <2>2, <2>3, <2>4
  <1>2. DOMAIN t = DOMAIN u /\ \A l \in DOMAIN t : t[l] = u[l]
    BY <1>1
  <1>3. t = [l \in DOMAIN t |-> t[l]] /\ u = [l \in DOMAIN u |-> u[l]]
    BY DEF Located, IsFcn
  <1>4. [l \in DOMAIN t |-> t[l]] = [l \in DOMAIN u |-> u[l]]
    BY <1>2
  <1> QED
    BY <1>3, <1>4

LEMMA PrintOne ==
    ASSUME NEW lines, NEW ps, NEW hs, NEW n \in Nat, Printed(lines, ps, hs, n),
           NEW x, x.def = LineDef(lines[n + 1]), Len(x.bytes) = ps[n + 1].size
    PROVE  Printed(lines, ps, hs \o <<x>>, n + 1)
  <1> DEFINE hs2 == Append(hs, x)
  <1>1. IsSeq(hs) /\ Len(hs) = n
    BY DEF Printed
  <1>2. /\ IsSeq(hs2) /\ hs \o <<x>> = hs2 /\ Len(hs2) = n + 1
        /\ \A i \in 1 .. n : hs2[i] = hs[i]
        /\ hs2[n + 1] = x
    BY <1>1, AppendOne
  <1> HIDE DEF hs2
  <1>3. ASSUME NEW i \in 1 .. n + 1
        PROVE  hs2[i].def = LineDef(lines[i]) /\ Len(hs2[i].bytes) = ps[i].size
    <2>1. CASE i = n + 1
      BY <1>2, <2>1
    <2>2. CASE i \in 1 .. n
      BY <1>2, <2>2 DEF Printed
    <2> QED
      BY <2>1, <2>2
  <1> QED
    BY <1>2, <1>3 DEF Printed

-----------------------------------------------------------------------------
(* The invariant *)

Later == {"link1", "link2", "linked", "annotate", "annotated"}

\* The tools run in their order, on a source that was written.
Ordered ==
    /\ \E s \in Sources : s.isa = isa /\ assembly = s.lines
    /\ job # "idle" => made = "running"
    /\ job \in {"pass1", "pass2"} => isa = "aarch64"
    /\ job = "rv64" => isa = "riscv64"
    /\ job \in {"pass1", "pass2", "rv64", "printed"} => "hex2" \notin fresh
    /\ job \in Later => "hex2" \in fresh
    /\ at \in Nat

\* What pass 1 leaves, and what pass 2 prints of it.
Whole == ParsedTo(assembly, parsed, starts, Len(assembly)) /\ Located(assembly, starts, labels, Len(assembly))

Listing == Whole /\ Printed(assembly, parsed, hex2, Len(assembly))

InPass1 ==
    /\ ParsedTo(assembly, parsed, starts, at) /\ Located(assembly, starts, labels, at)
    /\ addr = EndOf(parsed, starts, at) /\ listing = <<>>

InPass2 == Whole /\ at <= Len(assembly) /\ Printed(assembly, parsed, listing, at)

InLink1 == addr = EndOf(parsed, starts, at) /\ Located(assembly, starts, targets, at)

InLink2 == Located(assembly, starts, targets, Len(assembly))

CountedAlike ==
    /\ job = "pass1" => InPass1
    /\ job = "pass2" => InPass2
    /\ job = "printed" => Listing
    /\ "hex2" \in fresh /\ ~spoilt => Listing
    /\ job = "link1" /\ ~spoilt => InLink1
    /\ job = "link2" /\ ~spoilt => InLink2

IInv == Ordered /\ (isa = "aarch64" => CountedAlike)

LEMMA TheSource ==
    ASSUME AllCountable(Sources), Ordered
    PROVE  /\ assembly \in Seq(Range(assembly)) /\ Len(assembly) \in Nat
           /\ DOMAIN assembly = 1 .. Len(assembly)
           /\ isa = "aarch64" => \A i \in 1 .. Len(assembly) : Countable(assembly[i])
  <1>1. PICK s \in Sources : s.isa = isa /\ assembly = s.lines
    BY DEF Ordered
  <1>2. assembly \in Seq(Range(assembly))
    BY <1>1, SourcesAssumption
  <1>3. Len(assembly) \in Nat /\ DOMAIN assembly = 1 .. Len(assembly)
    BY <1>2
  <1> QED
    BY <1>1, <1>2, <1>3 DEF AllCountable

-----------------------------------------------------------------------------
(* Pass 1 *)

LEMMA NothingParsed ==
    ASSUME NEW lines, lines \in Seq(Range(lines))
    PROVE  /\ ParsedTo(lines, <<>>, <<>>, 0) /\ EndOf(<<>>, <<>>, 0) = 0
           /\ \A st : Located(lines, st, <<>>, 0)
           /\ \A ps : Printed(lines, ps, <<>>, 0)
  <1>1. IsSeq(<<>>)
    BY DEF IsSeq
  <1>2. ParsedTo(lines, <<>>, <<>>, 0)
    BY <1>1 DEF ParsedTo
  <1>3. \A st : Located(lines, st, <<>>, 0)
    BY DEF Located, IsFcn
  <1>4. \A ps : Printed(lines, ps, <<>>, 0)
    BY <1>1 DEF Printed
  <1> QED
    BY <1>2, <1>3, <1>4 DEF EndOf

LabelsFollow ==
    \/ LineDef(Here) = "" /\ labels' = labels
    \/ LineDef(Here) # "" /\ LineDef(Here) = Here.name /\ labels' = LabelHere

\* Whatever a line is: if its size is what its type stands for, and its label
\* goes where it begins, pass 1 is right one line further.
LEMMA ParseStep ==
    ASSUME AllCountable(Sources), IInv, NEW type, NEW size, Parse(type, size),
           SizeFits(Here, type, size),
           UNCHANGED <<assembly, isa, fresh, made, spoilt>>,
           LabelsFollow
    PROVE  CountedAlike'
  <1>1. job = "pass1" /\ job' = "pass1" /\ at # Len(assembly) /\ type = TypeOf(assembly[at + 1])
    BY DEF Parse, Meets, AtEndOf, Here, Advance
  <1>2. isa = "aarch64" /\ InPass1 /\ "hex2" \notin fresh /\ made = "running" /\ at \in Nat
    BY <1>1 DEF IInv, Ordered, CountedAlike
  <1>3. assembly \in Seq(Range(assembly)) /\ Len(assembly) \in Nat
    BY TheSource DEF IInv
  <1>4. at < Len(assembly)
    <2>1. at \in 0 .. Len(assembly)
      BY <1>2 DEF InPass1, ParsedTo
    <2> QED
      BY <1>1, <1>3, <2>1
  <1> DEFINE e   == [type |-> type, size |-> size]
             ps2 == Append(parsed, e)
             st2 == Append(starts, EndOf(parsed, starts, at))
  <1>5. at' = at + 1 /\ addr' = addr + size /\ parsed' = ps2 /\ starts' = st2
    BY <1>1, <1>2 DEF Parse, Advance, InPass1
  <1>6. /\ ParsedTo(assembly, ps2, st2, at + 1)
        /\ EndOf(ps2, st2, at + 1) = EndOf(parsed, starts, at) + size
        /\ st2[at + 1] = EndOf(parsed, starts, at)
        /\ \A i \in 1 .. at : st2[i] = starts[i]
    <2>1. ParsedTo(assembly, parsed, starts, at)
      BY <1>2 DEF InPass1
    <2>2. EntryFits(assembly[at + 1], e) /\ e.size = size
      BY <1>1 DEF EntryFits, Here
    <2> HIDE DEF e
    <2> QED
      <3>1. GoesOn(assembly, parsed, starts, at, Append(parsed, e), Append(starts, EndOf(parsed, starts, at)), e.size)
        BY <1>3, <1>4, <2>1, <2>2, ParseOne
      <3> QED
        BY <2>2, <3>1 DEF GoesOn
  <1> HIDE DEF ps2, st2
  <1>7. Located(assembly, st2, labels', at + 1)
    <2>1. CASE LineDef(Here) = ""
      BY <1>2, <1>6, <2>1, LocateNone DEF InPass1, Here, LabelsFollow
    <2>2. CASE LineDef(Here) # ""
      <3> DEFINE def == LineDef(assembly[at + 1])
      <3>0. def = LineDef(assembly[at + 1]) /\ def # "" /\ Located(assembly, starts, labels, at)
        BY <1>2, <2>2 DEF InPass1, Here
      <3>3. def = Here.name
        BY <2>2 DEF Here, LabelsFollow
      <3> HIDE DEF def
      <3>1. /\ IsFcn(labels') /\ DOMAIN labels' = DOMAIN labels \cup {def} /\ labels'[def] = addr
            /\ \A l \in DOMAIN labels \ {def} : labels'[l] = labels[l]
        BY <2>2, <3>3 DEF LabelHere, LabelsFollow, Here, IsFcn
      <3>2. at \in Nat /\ \A i \in 1 .. at : st2[i] = starts[i]
        BY <1>2, <1>6
      <3>4. labels'[def] = st2[at + 1]
        BY <1>2, <1>6, <3>1 DEF InPass1
      <3> QED
        BY <3>0, <3>1, <3>2, <3>4, LocateOne
    <2> QED
      BY <2>1, <2>2
  <1>8. InPass1'
    <2>1. listing' = listing
      BY DEF Parse
    <2> QED
      BY <1>2, <1>5, <1>6, <1>7, <2>1 DEF InPass1
  <1> QED
    BY <1>1, <1>2, <1>8 DEF CountedAlike

-----------------------------------------------------------------------------
(* Which tool runs when *)

LEMMA OrderKept ==
    ASSUME Ordered, [ToolsNext]_tools
    PROVE  Ordered'
  <1> USE SourcesAssumption DEF Ordered, reading, making
  <1>1. CASE Edit
    BY <1>1 DEF Edit, Outdated, Later
  <1>2. CASE Make
    BY <1>2 DEF Make
  <1>3. CASE RunAssembler
    BY <1>3 DEF RunAssembler, Runs, A64Begins, Rv64Begins, Begin, Later
  <1>4. CASE RunLinker
    BY <1>4 DEF RunLinker, Runs, LinkBegins, Begin, Later
  <1>5. CASE RunHex2ToHex0
    BY <1>5 DEF RunHex2ToHex0, Runs, AnnotateBegins, Begin, Later
  <1>6. CASE Work
    <2>1. UNCHANGED <<assembly, isa, fresh, made>>
      BY <1>6 DEF Work
    <2>2. CASE Pass1
      <3>1. ASSUME NEW type, NEW size, Parse(type, size)
            PROVE  job = "pass1" /\ job' = "pass1" /\ at' = at + 1
        BY <3>1 DEF Parse, Meets, Advance
      <3>2. ParseRefuses => job = "pass1" /\ job' = "refused" /\ at' = at
        BY DEF ParseRefuses, Meets, Exits
      <3>3. Pass1Ends => job = "pass1" /\ job' = "pass2" /\ at' = 0
        BY DEF Pass1Ends, Begin
      <3>4. job = "pass1" /\ job' \in {"pass1", "pass2", "refused"} /\ at' \in Nat
        BY <2>2, <3>1, <3>2, <3>3 DEF Pass1, ParseNothing, ParseLabel, ParseRaw, ParseWord, ParseZero, ParseAlign,
           ParseInstruction
      <3> QED
        BY <2>1, <3>4 DEF Later
    <2>3. CASE Pass2
      <3>1. ASSUME NEW type, NEW lines, NEW size, Emit(type, lines, size)
            PROVE  job = "pass2" /\ job' = "pass2" /\ at' = at + 1
        BY <3>1 DEF Emit, Advance
      <3>2. EmitRefuses => job = "pass2" /\ job' = "refused" /\ at' = at
        BY DEF EmitRefuses, Exits
      <3>3. Pass2Ends => job = "pass2" /\ job' = "printed" /\ at' = at
        BY DEF Pass2Ends, Exits
      <3>4. job = "pass2" /\ job' \in {"pass2", "printed", "refused"} /\ at' \in Nat
        <4> DEFINE Emits == \E type, lines, size : Emit(type, lines, size)
        <4>1. EmitNothing \/ EmitLabel \/ EmitRaw => Emits
          BY DEF EmitNothing, EmitLabel, EmitRaw
        <4>2. EmitWord \/ EmitZeros => Emits
          BY DEF EmitWord, EmitZeros
        <4>3. EmitInstruction => Emits
          BY DEF EmitInstruction
        <4> QED
          BY <2>3, <3>1, <3>2, <3>3, <4>1, <4>2, <4>3 DEF Pass2
      <3> QED
        BY <2>1, <3>4 DEF Later
    <2>4. CASE Print64
      BY <2>1, <2>4 DEF Print64, PrintLine, RefuseLine, PrintEnds, Advance, Exits, Later
    <2>5. CASE Link
      BY <2>1, <2>5 DEF Link, LinkCounts, LinkTurns, LinkWrites, LinkRefuses, LinkEnds, Begin, Advance, Exits, Later
    <2>6. CASE Annotate
      BY <2>1, <2>6 DEF Annotate, CopyLine, AnnotateLine, AnnotateRefuses, AnnotateEnds, Advance, Exits, Later
    <2> QED
      BY <1>6, <2>2, <2>3, <2>4, <2>5, <2>6 DEF Work, Assembles, Assemble, Links, Annotates
  <1>7. CASE RecipeEnds
    BY <1>7 DEF RecipeEnds, Later
  <1>8. CASE MakeEnds
    BY <1>8 DEF MakeEnds
  <1>9. CASE UNCHANGED tools
    BY <1>9 DEF tools
  <1> QED
    BY <1>1, <1>2, <1>3, <1>4, <1>5, <1>6, <1>7, <1>8, <1>9 DEF ToolsNext, MakeGoesOn

-----------------------------------------------------------------------------
\* The line a pass is at is one of the source.
LEMMA HereIs ==
    ASSUME AllCountable(Sources), IInv, job \in {"pass1", "pass2"}, ~AtEndOf(assembly)
    PROVE  at \in Nat /\ at + 1 \in 1 .. Len(assembly) /\ Countable(Here)
  <1>1. isa = "aarch64" /\ at \in Nat
    BY DEF IInv, Ordered
  <1>2. Len(assembly) \in Nat /\ \A i \in 1 .. Len(assembly) : Countable(assembly[i])
    BY <1>1, TheSource DEF IInv
  <1>3. at \in 0 .. Len(assembly)
    <2>1. CASE job = "pass1"
      BY <1>1, <2>1 DEF IInv, CountedAlike, InPass1, ParsedTo
    <2>2. CASE job = "pass2"
      BY <1>1, <1>2, <2>2 DEF IInv, CountedAlike, InPass2
    <2> QED
      BY <2>1, <2>2
  <1>4. at + 1 \in 1 .. Len(assembly)
    BY <1>2, <1>3 DEF AtEndOf
  <1> QED
    BY <1>1, <1>2, <1>4 DEF Here

LEMMA PaddingIsNat ==
    ASSUME NEW m \in Nat \ {0}, NEW a \in Nat
    PROVE  (m - (a % m)) % m \in Nat
  <1>1. a % m \in 0 .. m - 1
    OBVIOUS
  <1> QED
    BY <1>1

LEMMA Pass1Counts ==
    ASSUME AllCountable(Sources), IInv, Pass1, UNCHANGED <<assembly, making>>, isa = "aarch64"
    PROVE  CountedAlike'
  <1>1. UNCHANGED <<assembly, isa, fresh, made, spoilt>>
    BY DEF making
  <1>2. ASSUME NEW type, NEW size, Parse(type, size)
        PROVE  Countable(Here) /\ TypeOf(Here) = type
    BY <1>2, HereIs DEF Parse, Meets
  <1>3. ASSUME NEW type, type # "label", NEW size, Parse(type, size), UNCHANGED labels
        PROVE  LabelsFollow
    <2>1. LineDef(Here) = ""
      <3>1. TypeOf(Here) # "label"
        BY <1>2, <1>3
      <3> QED
        BY <3>1 DEF LineDef
    <2> QED
      BY <1>3, <2>1 DEF LabelsFollow
  <1>4. CASE ParseNothing
    <2>1. PICK type \in {"blank", "comment"} : Parse(type, 0) /\ UNCHANGED labels
      BY <1>4 DEF ParseNothing
    <2>2. SizeFits(Here, type, 0)
      BY DEF SizeFits, Sizes
    <2> QED
      BY <1>1, <1>3, <2>1, <2>2, ParseStep
  <1>5. CASE ParseLabel
    <2>1. Parse("label", 0) /\ labels' = LabelHere
      BY <1>5 DEF ParseLabel
    <2>2. SizeFits(Here, "label", 0)
      BY DEF SizeFits, Sizes
    <2>3. Here.kind = "label"
      BY <1>2, <2>1 DEF TypeOf
    <2>4. LineDef(Here) = Here.name /\ Here.name # ""
      BY <1>2, <2>1, <2>3 DEF LineDef, Countable
    <2>5. LabelsFollow
      BY <2>1, <2>4 DEF LabelsFollow
    <2> QED
      BY <1>1, <2>1, <2>2, <2>5, ParseStep
  <1>6. CASE ParseRaw
    <2>1. Parse("raw", Len(Here.bytes)) /\ UNCHANGED labels
      BY <1>6 DEF ParseRaw
    <2>2. Len(Here.bytes) \in Nat
      <3>1. Here.kind = "raw" /\ Countable(Here)
        BY <1>2, <2>1 DEF TypeOf
      <3>2. Here.bytes \in Seq(SUBSET (0 .. 7))
        BY <3>1 DEF Countable, Legible
      <3> QED
        BY <3>2
    <2>3. SizeFits(Here, "raw", Len(Here.bytes))
      BY <2>2 DEF SizeFits, Sizes
    <2> QED
      BY <1>1, <1>3, <2>1, <2>3, ParseStep
  <1>7. CASE ParseWord
    <2>1. PICK type \in DOMAIN Sizes : Parse(type, Sizes[type]) /\ UNCHANGED labels
      BY <1>7 DEF ParseWord
    <2>2. type # "label" /\ SizeFits(Here, type, Sizes[type])
      BY <2>1 DEF SizeFits, Sizes
    <2> QED
      BY <1>1, <1>3, <2>1, <2>2, ParseStep
  <1>8. CASE ParseZero
    <2>1. Parse("zero", Here.n) /\ UNCHANGED labels
      BY <1>8 DEF ParseZero
    <2>2. Here.n \in Nat
      BY <1>2, <2>1 DEF TypeOf, Countable, Legible
    <2>3. SizeFits(Here, "zero", Here.n)
      BY <2>2 DEF SizeFits, Sizes
    <2> QED
      BY <1>1, <1>3, <2>1, <2>3, ParseStep
  <1>9. CASE ParseAlign
    <2>1. Parse("align", Padding(Here.n)) /\ UNCHANGED labels
      BY <1>9 DEF ParseAlign
    <2>2. 2^Here.n \in Nat \ {0}
      BY <1>2, <2>1 DEF TypeOf, Countable, Legible
    <2>3. job = "pass1" /\ addr = EndOf(parsed, starts, at)
      BY <2>1 DEF Parse, Meets, IInv, CountedAlike, InPass1
    <2>4. addr \in Nat
      <3>1. ParsedTo(assembly, parsed, starts, at) /\ assembly \in Seq(Range(assembly))
        BY <2>3, TheSource DEF IInv, CountedAlike, InPass1
      <3>2. at \in 0 .. at
        BY <3>1 DEF ParsedTo
      <3> QED
        BY <2>3, <3>1, <3>2, EndIsNat
    <2>5. Padding(Here.n) \in Nat
      BY <2>2, <2>4, PaddingIsNat DEF Padding
    <2>6. SizeFits(Here, "align", Padding(Here.n))
      BY <2>5 DEF SizeFits, Sizes
    <2> QED
      BY <1>1, <1>3, <2>1, <2>6, ParseStep
  <1>10. CASE ParseInstruction
    <2>1. Parse("insn", 4) /\ UNCHANGED labels
      BY <1>10 DEF ParseInstruction
    <2>2. SizeFits(Here, "insn", 4)
      BY DEF SizeFits, Sizes
    <2> QED
      BY <1>1, <1>3, <2>1, <2>2, ParseStep
  <1>11. CASE ParseRefuses
    BY <1>1, <1>11 DEF ParseRefuses, Meets, Exits, IInv, Ordered, CountedAlike
  <1>12. CASE Pass1Ends
    <2>1. job = "pass1" /\ at = Len(assembly) /\ job' = "pass2" /\ at' = 0 /\ UNCHANGED <<labels, parsed, starts, listing>>
      BY <1>12 DEF Pass1Ends, AtEndOf, Begin, asm64
    <2>2. InPass1 /\ "hex2" \notin fresh
      BY <2>1 DEF IInv, Ordered, CountedAlike
    <2>3. assembly \in Seq(Range(assembly)) /\ Len(assembly) \in Nat
      BY TheSource DEF IInv
    <2>4. Printed(assembly, parsed, <<>>, 0)
      BY <2>3, NothingParsed
    <2>5. InPass2'
      BY <1>1, <2>1, <2>2, <2>3, <2>4 DEF InPass1, InPass2, Whole
    <2> QED
      BY <1>1, <2>1, <2>2, <2>5 DEF CountedAlike
  <1> QED
    BY <1>4, <1>5, <1>6, <1>7, <1>8, <1>9, <1>10, <1>11, <1>12 DEF Pass1

-----------------------------------------------------------------------------
(* Pass 2 *)

LEMMA ZerosLen ==
    /\ Len(<<>>) = 0
    /\ \A n \in Nat : Len(Zeros8(n)) = n
    /\ \A word : \A n \in Nat : Len(Bytes(word, n)) = n
  BY DEF Zeros8, Bytes

\* Pass 2 has printed the line it is at with as many bytes as pass 1 counted.
Agrees(x) == x.def = LineDef(Here) /\ Len(x.bytes) = Entry.size

LEMMA EmitStep ==
    ASSUME AllCountable(Sources), IInv, NEW type, NEW x, NEW size, Emit(type, <<x>>, size), Agrees(x),
           UNCHANGED <<assembly, isa, fresh, made, spoilt>>
    PROVE  CountedAlike'
  <1>1. job = "pass2" /\ job' = "pass2" /\ ~AtEndOf(assembly) /\ at' = at + 1
    BY DEF Emit, Advance
  <1>2. UNCHANGED <<labels, parsed, starts>> /\ listing' = listing \o <<x>>
    BY DEF Emit
  <1>3. isa = "aarch64" /\ InPass2 /\ "hex2" \notin fresh
    BY <1>1 DEF IInv, Ordered, CountedAlike
  <1>4. at \in Nat /\ at + 1 \in 1 .. Len(assembly) /\ Len(assembly) \in Nat
    BY <1>1, HereIs, TheSource DEF IInv
  <1>5. Printed(assembly, parsed, listing \o <<x>>, at + 1)
    <2>1. x.def = LineDef(assembly[at + 1]) /\ Len(x.bytes) = parsed[at + 1].size
      BY DEF Agrees, Here, Entry
    <2>2. Printed(assembly, parsed, listing, at)
      BY <1>3 DEF InPass2
    <2> QED
      BY <1>4, <2>1, <2>2, PrintOne
  <1>6. InPass2'
    BY <1>1, <1>2, <1>3, <1>4, <1>5 DEF InPass2, Whole
  <1> QED
    BY <1>1, <1>3, <1>6 DEF CountedAlike

\* What pass 1 has stored of the line pass 2 is at.
LEMMA EntryIs ==
    ASSUME AllCountable(Sources), IInv, job = "pass2", ~AtEndOf(assembly)
    PROVE  Entry.type = TypeOf(Here) /\ SizeFits(Here, Entry.type, Entry.size) /\ Countable(Here)
  <1>1. at + 1 \in 1 .. Len(assembly) /\ Countable(Here)
    BY HereIs
  <1>2. isa = "aarch64"
    BY DEF IInv, Ordered
  <1>3. ParsedTo(assembly, parsed, starts, Len(assembly))
    BY <1>2 DEF IInv, CountedAlike, InPass2, Whole
  <1> QED
    BY <1>1, <1>3 DEF ParsedTo, Entry, Here

LEMMA OneWordListed ==
    ASSUME NEW line, NEW words, DOMAIN words = {1}
    PROVE  Listed(line, words) = <<HexLine("", <<>>, Bytes(words[1], 4), line, "")>>
  <1> DEFINE x == HexLine("", <<>>, Bytes(words[1], 4), line, "")
  <1>1. Listed(line, words) = [j \in {1} |-> x]
    BY DEF Listed
  <1> HIDE DEF x
  <1>2. [j \in {1} |-> x] = <<x>>
    OBVIOUS
  <1> QED
    BY <1>1, <1>2 DEF x

LEMMA OneWordHere ==
    ASSUME NEW line, Countable(line), TypeOf(line) = "insn"
    PROVE  Encoding(line) = <<>> \/ DOMAIN Encoding(line) = {1}
  <1>1. CASE line.kind # "insn"
    BY <1>1 DEF Encoding
  <1>2. CASE line.kind = "insn" /\ line.mn # "mov"
    <2>1. LET words == encode_mnemonic(line.mn, line.ops, addr, labels) IN words = <<>> \/ DOMAIN words = {1}
      BY <1>2, OneWordEach
    <2> QED
      BY <1>2, <2>1 DEF Encoding
  <1>3. CASE line.kind = "insn" /\ line.mn = "mov"
    <2>1. Mov(line.ops) = <<>> \/ DOMAIN Mov(line.ops) = {1}
      BY <1>3 DEF Countable
    <2>2. encode_mnemonic(line.mn, line.ops, addr, labels) = Mov(line.ops)
      BY <1>3 DEF encode_mnemonic
    <2> QED
      BY <1>3, <2>1, <2>2 DEF Encoding
  <1> QED
    BY <1>1, <1>2, <1>3

LEMMA Pass2Counts ==
    ASSUME AllCountable(Sources), IInv, Pass2, UNCHANGED <<assembly, making>>, isa = "aarch64"
    PROVE  CountedAlike'
  <1>1. UNCHANGED <<assembly, isa, fresh, made, spoilt>>
    BY DEF making
  <1>2. ASSUME NEW type, NEW lines, NEW size, Emit(type, lines, size)
        PROVE  /\ type = TypeOf(Here) /\ SizeFits(Here, type, Entry.size) /\ Countable(Here)
               /\ type # "label" => LineDef(Here) = ""
    <2>1. job = "pass2" /\ ~AtEndOf(assembly) /\ Entry.type = type
      BY <1>2 DEF Emit
    <2> QED
      BY <2>1, EntryIs DEF LineDef
  <1>3. ASSUME NEW type, type # "label", NEW bytes, NEW size, Emit(type, Bare(bytes), size), Len(bytes) = Entry.size
        PROVE  CountedAlike'
    <2> DEFINE x == HexLine("", <<>>, bytes, Here, "")
    <2>1. Agrees(x)
      BY <1>2, <1>3 DEF Agrees, HexLine
    <2>2. Emit(type, <<x>>, size)
      BY <1>3 DEF Bare
    <2> HIDE DEF x
    <2> QED
      BY <1>1, <2>1, <2>2, EmitStep
  <1>4. CASE EmitNothing
    <2>1. PICK type \in {"blank", "comment"} : Emit(type, Bare(<<>>), 0)
      BY <1>4 DEF EmitNothing
    <2>2. Len(<<>>) = Entry.size
      BY <1>2, <2>1, ZerosLen DEF SizeFits
    <2> QED
      BY <1>3, <2>1, <2>2
  <1>5. CASE EmitLabel
    <2> DEFINE x == HexLine(Here.name, <<>>, <<>>, Here, "")
    <2>1. Emit("label", <<x>>, 0)
      BY <1>5 DEF EmitLabel
    <2>2. LineDef(Here) = Here.name /\ Entry.size = 0
      BY <1>2, <2>1 DEF LineDef, SizeFits
    <2>3. Agrees(x)
      BY <2>2, ZerosLen DEF Agrees, HexLine
    <2> HIDE DEF x
    <2> QED
      BY <1>1, <2>1, <2>3, EmitStep
  <1>6. CASE EmitRaw
    <2>1. Emit("raw", Bare(Here.bytes), Len(Here.bytes) + Here.hidden)
      BY <1>6 DEF EmitRaw
    <2>2. Len(Here.bytes) = Entry.size
      BY <1>2, <2>1 DEF SizeFits
    <2> QED
      BY <1>3, <2>1, <2>2
  <1>7. CASE EmitWord
    <2>1. PICK type \in DOMAIN Sizes : Emit(type, Bare(Bytes(Bits(Here.n, 8 * Sizes[type]), Sizes[type])), SizeOf(type))
      BY <1>7 DEF EmitWord
    <2>2. type # "label" /\ Sizes[type] \in Nat
      BY <2>1 DEF Sizes
    <2>3. Sizes[type] = Entry.size
      BY <1>2, <2>1 DEF SizeFits
    <2>4. Len(Bytes(Bits(Here.n, 8 * Sizes[type]), Sizes[type])) = Entry.size
      BY <2>2, <2>3, ZerosLen
    <2> QED
      BY <1>3, <2>1, <2>2, <2>4
  <1>8. CASE EmitZeros
    <2>1. PICK type \in {"zero", "align"} : Emit(type, Bare(Zeros8(Entry.size)), Entry.size)
      BY <1>8 DEF EmitZeros
    <2>2. Len(Zeros8(Entry.size)) = Entry.size
      BY <1>2, <2>1, ZerosLen DEF SizeFits
    <2> QED
      BY <1>3, <2>1, <2>2
  <1>9. CASE EmitInstruction
    <2> DEFINE words == Encoding(Here)
               x     == HexLine("", <<>>, Bytes(words[1], 4), Here, "")
    <2>1. Emit("insn", Listed(Here, words), 4) /\ words # <<>>
      BY <1>9 DEF EmitInstruction
    <2>2. DOMAIN words = {1}
      BY <1>2, <2>1, OneWordHere
    <2>3. Listed(Here, words) = <<x>>
      BY <2>2, OneWordListed
    <2>4. Len(Bytes(words[1], 4)) = Entry.size
      BY <1>2, <2>1, ZerosLen DEF SizeFits
    <2>5. LineDef(Here) = ""
      <3>1. TypeOf(Here) = "insn"
        BY <1>2, <2>1
      <3> QED
        BY <3>1 DEF LineDef
    <2> HIDE DEF words
    <2>6. Agrees(x)
      BY <2>4, <2>5 DEF Agrees, HexLine
    <2> HIDE DEF x
    <2> QED
      BY <1>1, <2>1, <2>3, <2>6, EmitStep
  <1>10. CASE EmitRefuses
    BY <1>1, <1>10 DEF EmitRefuses, Exits, IInv, Ordered, CountedAlike
  <1>11. CASE Pass2Ends
    <2>1. /\ job = "pass2" /\ at = Len(assembly) /\ job' = "printed" /\ hex2' = listing
          /\ UNCHANGED <<labels, parsed, starts>>
      BY <1>11 DEF Pass2Ends, AtEndOf, Exits, asm64
    <2>2. InPass2 /\ "hex2" \notin fresh
      BY <2>1 DEF IInv, Ordered, CountedAlike
    <2>3. Listing'
      BY <1>1, <2>1, <2>2 DEF InPass2, Listing, Whole
    <2> QED
      BY <1>1, <2>1, <2>2, <2>3 DEF CountedAlike
  <1> QED
    BY <1>4, <1>5, <1>6, <1>7, <1>8, <1>9, <1>10, <1>11 DEF Pass2

-----------------------------------------------------------------------------
(* The linker *)

\* What no tool but the assembler touches.
Printout == <<assembly, isa, labels, parsed, starts, hex2>>

LEMMA ListingKept ==
    ASSUME Listing, UNCHANGED Printout
    PROVE  Listing'
  BY DEF Listing, Whole, Printout

LEMMA LinkCountsAlike ==
    ASSUME AllCountable(Sources), IInv, LinkCounts, UNCHANGED Printout, isa = "aarch64", Listing
    PROVE  InLink1 => InLink1'
  <1> SUFFICES ASSUME InLink1 PROVE InLink1'
    OBVIOUS
  <1>1. PICK i \in DOMAIN hex2 : /\ AtLine(i, hex2) /\ targets' = Stored(hex2[i].def)
                                 /\ Advance(Len(hex2[i].bytes))
    BY DEF LinkCounts
  <1>2. Len(assembly) \in Nat /\ at \in Nat
    BY TheSource DEF IInv, Ordered
  <1>3. Printed(assembly, parsed, hex2, Len(assembly)) /\ ParsedTo(assembly, parsed, starts, Len(assembly))
    BY DEF Listing, Whole
  <1>4. at + 1 \in 1 .. Len(assembly) /\ i = at + 1
    <2>1. IsSeq(hex2) /\ Len(hex2) = Len(assembly)
      BY <1>3 DEF Printed
    <2>2. DOMAIN hex2 = 1 .. Len(assembly)
      BY <2>1 DEF IsSeq
    <2> QED
      BY <1>1, <1>2, <2>2 DEF AtLine
  <1>5. hex2[i].def = LineDef(assembly[at + 1]) /\ Len(hex2[i].bytes) = parsed[at + 1].size
    BY <1>3, <1>4 DEF Printed
  <1>6. starts[at + 1] = EndOf(parsed, starts, at)
    BY <1>2, <1>3, <1>4 DEF ParsedTo
  <1>7. at' = at + 1 /\ addr' = starts[at + 1] + parsed[at + 1].size
    BY <1>1, <1>5, <1>6 DEF Advance, InLink1
  <1>8. addr' = EndOf(parsed, starts, at + 1)
    BY <1>2, <1>7 DEF EndOf
  <1>9. Located(assembly, starts, targets', at + 1)
    <2>1. Located(assembly, starts, targets, at)
      BY DEF InLink1
    <2>2. CASE hex2[i].def = ""
      <3>1. targets' = targets
        BY <1>1, <2>2 DEF Stored
      <3> QED
        BY <1>2, <1>5, <2>1, <2>2, <3>1, LocateNone
    <2>3. CASE hex2[i].def # ""
      <3> DEFINE def == hex2[i].def
      <3>0. def = LineDef(assembly[at + 1]) /\ def # ""
        BY <1>5, <2>3
      <3>1. targets' = Stored(def)
        BY <1>1
      <3> HIDE DEF def
      <3>2. /\ IsFcn(targets') /\ DOMAIN targets' = DOMAIN targets \cup {def} /\ targets'[def] = addr
            /\ \A l \in DOMAIN targets \ {def} : targets'[l] = targets[l]
        BY <3>0, <3>1 DEF Stored, IsFcn
      <3>3. targets'[def] = starts[at + 1]
        BY <1>6, <3>2 DEF InLink1
      <3> QED
        BY <1>2, <2>1, <3>0, <3>2, <3>3, LocateOne
    <2> QED
      BY <2>2, <2>3
  <1> QED
    BY <1>7, <1>8, <1>9 DEF InLink1, Printout

LEMMA LinkKeeps ==
    ASSUME AllCountable(Sources), IInv, Link, UNCHANGED Printout, UNCHANGED <<fresh, spoilt>>, isa = "aarch64"
    PROVE  CountedAlike'
  <1>1. job \in {"link1", "link2"} /\ job' \in Later \cup {"refused"}
    BY DEF Link, LinkCounts, LinkTurns, LinkWrites, LinkRefuses, LinkEnds, Begin, Advance, Exits, Later
  <1>2. "hex2" \in fresh
    BY <1>1 DEF IInv, Ordered, Later
  <1>3. CASE spoilt
    BY <1>1, <1>3 DEF CountedAlike, Later
  <1>4. CASE ~spoilt
    <2>1. Listing
      BY <1>2, <1>4 DEF IInv, CountedAlike
    <2>2. Listing'
      BY <2>1, ListingKept
    <2>3. CASE LinkCounts
      <3>1. job = "link1" /\ job' = "link1"
        BY <2>3 DEF LinkCounts, Advance
      <3>2. InLink1'
        BY <1>4, <2>1, <2>3, <3>1, LinkCountsAlike DEF IInv, CountedAlike
      <3> QED
        BY <2>2, <3>1, <3>2 DEF CountedAlike
    <2>4. CASE LinkTurns
      <3>1. job = "link1" /\ job' = "link2" /\ at = Len(hex2) /\ targets' = targets
        BY <2>4 DEF LinkTurns, Begin, AtEndOf, linking
      <3>2. InLink1 /\ Len(hex2) = Len(assembly)
        BY <1>4, <2>1, <3>1 DEF IInv, CountedAlike, Listing, Printed
      <3>3. InLink2'
        BY <3>1, <3>2 DEF InLink1, InLink2, Printout
      <3> QED
        BY <2>2, <3>1, <3>3 DEF CountedAlike
    <2>5. CASE LinkWrites
      <3>1. job = "link2" /\ job' = "link2" /\ targets' = targets
        BY <2>5 DEF LinkWrites, Advance
      <3>2. InLink2
        BY <1>4, <3>1 DEF IInv, CountedAlike
      <3>3. InLink2'
        BY <3>1, <3>2 DEF InLink2, Printout
      <3> QED
        BY <2>2, <3>1, <3>3 DEF CountedAlike
    <2>6. CASE LinkRefuses \/ LinkEnds
      <3>1. job' \in {"refused", "linked"}
        BY <2>6 DEF LinkRefuses, LinkEnds, Exits
      <3> QED
        BY <2>2, <3>1 DEF CountedAlike
    <2> QED
      BY <2>3, <2>4, <2>5, <2>6 DEF Link
  <1> QED
    BY <1>3, <1>4

-----------------------------------------------------------------------------
(* The other tools, and make *)

LEMMA MakeKeeps ==
    ASSUME AllCountable(Sources), IInv, RunAssembler \/ RunLinker \/ RunHex2ToHex0, isa = "aarch64"
    PROVE  CountedAlike'
  <1>1. assembly \in Seq(Range(assembly))
    BY TheSource DEF IInv
  <1>2. CASE RunAssembler
    <2>1. /\ "hex2" \notin fresh /\ UNCHANGED <<assembly, isa, fresh, spoilt>> /\ job' = "pass1" /\ at' = 0 /\ addr' = 0
          /\ labels' = <<>> /\ parsed' = <<>> /\ starts' = <<>> /\ listing' = <<>>
      BY <1>2 DEF RunAssembler, Runs, A64Begins, Begin, making
    <2>2. InPass1'
      BY <1>1, <2>1, NothingParsed DEF InPass1
    <2> QED
      BY <2>1, <2>2 DEF CountedAlike
  <1>3. CASE RunLinker
    <2>1. /\ UNCHANGED Printout /\ UNCHANGED <<fresh, spoilt>> /\ "hex2" \in fresh
          /\ job' = "link1" /\ at' = 0 /\ addr' = 0 /\ targets' = <<>>
      BY <1>3 DEF RunLinker, Runs, LinkBegins, Begin, making, asm64, Printout
    <2>2. InLink1'
      <3>1. Located(assembly, starts, <<>>, 0) /\ EndOf(parsed, starts, 0) = 0
        BY <1>1, NothingParsed DEF EndOf
      <3> QED
        BY <2>1, <3>1 DEF InLink1, Printout
    <2>3. ~spoilt => Listing'
      BY <2>1, ListingKept DEF IInv, CountedAlike
    <2> QED
      BY <2>1, <2>2, <2>3 DEF CountedAlike
  <1>4. CASE RunHex2ToHex0
    <2>1. UNCHANGED Printout /\ UNCHANGED <<fresh, spoilt>> /\ "hex2" \in fresh /\ job' = "annotate"
      BY <1>4 DEF RunHex2ToHex0, Runs, AnnotateBegins, Begin, making, asm64, Printout
    <2>2. ~spoilt => Listing'
      BY <2>1, ListingKept DEF IInv, CountedAlike
    <2> QED
      BY <2>1, <2>2 DEF CountedAlike
  <1> QED
    BY <1>2, <1>3, <1>4

LEMMA CountingKept ==
    ASSUME AllCountable(Sources), IInv, [ToolsNext]_tools, isa = "aarch64"
    PROVE  CountedAlike'
  <1>1. CASE Edit
    <2>1. job' = "idle" /\ fresh' = {}
      BY <1>1 DEF Edit, Outdated, reading, IInv, Ordered
    <2> QED
      BY <2>1 DEF CountedAlike
  <1>2. CASE Make \/ MakeEnds
    <2>1. UNCHANGED Printout /\ UNCHANGED <<fresh, spoilt>> /\ job' = "idle"
      BY <1>2 DEF Make, MakeEnds, reading, asm64, Printout, IInv, Ordered
    <2>2. "hex2" \in fresh /\ ~spoilt => Listing'
      BY <2>1, ListingKept DEF IInv, CountedAlike
    <2> QED
      BY <2>1, <2>2 DEF CountedAlike
  <1>3. CASE RunAssembler \/ RunLinker \/ RunHex2ToHex0
    BY <1>3, MakeKeeps
  <1>4. CASE Work
    <2>1. UNCHANGED <<assembly, making>>
      BY <1>4 DEF Work
    <2>2. CASE Pass1
      BY <2>1, <2>2, Pass1Counts
    <2>3. CASE Pass2
      BY <2>1, <2>3, Pass2Counts
    <2>4. ~Print64
      BY DEF Print64, PrintLine, RefuseLine, PrintEnds, IInv, Ordered
    <2>5. CASE Links
      BY <2>1, <2>5, LinkKeeps DEF Links, asm64, making, Printout
    <2>6. CASE Annotates
      <3>1. UNCHANGED Printout /\ UNCHANGED <<fresh, spoilt>>
        BY <2>1, <2>6 DEF Annotates, asm64, making, Printout
      <3>2. job' \in {"annotate", "annotated", "refused"}
        BY <2>6 DEF Annotates, Annotate, CopyLine, AnnotateLine, AnnotateRefuses, AnnotateEnds, Advance, Exits
      <3>3. "hex2" \in fresh /\ ~spoilt => Listing'
        BY <3>1, ListingKept DEF IInv, CountedAlike
      <3> QED
        BY <3>1, <3>2, <3>3 DEF CountedAlike
    <2> QED
      BY <1>4, <2>2, <2>3, <2>4, <2>5, <2>6 DEF Work, Assembles, Assemble
  <1>5. CASE RecipeEnds
    <2>1. UNCHANGED Printout /\ job' = "idle" /\ job \in {"printed", "linked", "annotated", "refused"}
      BY <1>5 DEF RecipeEnds, asm64, Printout
    <2>2. ~spoilt' => ~spoilt /\ job # "refused"
      BY <1>5 DEF RecipeEnds
    <2>3. ~spoilt' => Listing
      BY <2>1, <2>2 DEF IInv, Ordered, CountedAlike, Later
    <2>4. ~spoilt' => Listing'
      BY <2>1, <2>3, ListingKept
    <2> QED
      BY <2>1, <2>4 DEF CountedAlike
  <1>6. CASE UNCHANGED tools
    BY <1>6 DEF tools, reading, asm64, linking, making, IInv, CountedAlike, Listing, Whole, InPass1, InPass2, InLink1, InLink2
  <1> QED
    BY <1>1, <1>2, <1>3, <1>4, <1>5, <1>6 DEF ToolsNext, MakeGoesOn

-----------------------------------------------------------------------------
\* A machine is chosen once.
LEMMA SameMachine ==
    ASSUME [ToolsNext]_tools
    PROVE  isa' = isa
  BY DEF ToolsNext, Edit, Make, MakeGoesOn, RunAssembler, RunLinker, RunHex2ToHex0, Work, RecipeEnds, MakeEnds,
         tools, making

\* a64-asm2hex2.py encodes branches with addresses that it counts by the line,
\* and the linker counts bytes: they agree on every label, for every set of
\* sources in which no mov takes several words, however the .S file is edited
\* and whenever make is run.
THEOREM LabelsAgree ==
    ASSUME AllCountable(Sources)
    PROVE  ToolsSpec => []AddressesAgree
  <1>1. ToolsInit => IInv
    <2> SUFFICES ASSUME ToolsInit PROVE IInv
      OBVIOUS
    <2>1. Ordered
      BY DEF ToolsInit, Written, Ordered, Later
    <2>2. CountedAlike
      BY DEF ToolsInit, Written, CountedAlike
    <2> QED
      BY <2>1, <2>2 DEF IInv
  <1>2. IInv /\ [ToolsNext]_tools => IInv'
    <2> SUFFICES ASSUME IInv, [ToolsNext]_tools PROVE IInv'
      OBVIOUS
    <2>1. Ordered'
      BY OrderKept DEF IInv
    <2>2. isa' = "aarch64" => CountedAlike'
      BY SameMachine, CountingKept
    <2> QED
      BY <2>1, <2>2 DEF IInv
  <1>3. IInv => AddressesAgree
    <2> SUFFICES ASSUME IInv, isa = "aarch64", job = "link2", ~spoilt PROVE targets = labels
      BY DEF AddressesAgree
    <2>1. Listing /\ InLink2
      BY DEF IInv, Ordered, CountedAlike, Later
    <2>2. Len(assembly) \in Nat
      BY TheSource DEF IInv
    <2> QED
      BY <2>1, <2>2, LocatedOnce DEF Listing, Whole, InLink2
  <1> QED
    BY <1>1, <1>2, <1>3, PTL DEF ToolsSpec

-----------------------------------------------------------------------------
(* The halves of a number *)

\* The fields of lui and addi, and what they reach together.
UpperField == {n \in Int : -524288 <= n /\ n <= 524287}
LowerField == {n \in Int : -2048 <= n /\ n <= 2047}
LiNumbers  == {n \in Int : -2147483648 <= n /\ n <= 2147481599}

\* li: lui takes the upper part as it is, addi the lower one with its sign.
\* For every number both fit their fields, up to the last 2^11 below 2^31, and
\* together they are the number.
THEOREM HalvesFit ==
    ASSUME NEW imm \in Int
    PROVE  /\ LowerPart(imm) \in LowerField
           /\ 4096 * UpperPart(imm) + LowerPart(imm) = imm
           /\ imm \in LiNumbers => UpperPart(imm) \in UpperField
  <1> DEFINE q == imm \div 4096
             r == imm % 4096
  <1>1. imm = 4096 * q + r /\ q \in Int /\ r \in Int /\ 0 <= r /\ r <= 4095
    BY SMT
  <1>2. UpperPart(imm) = q + (IF r < 2048 THEN 0 ELSE 1) /\ LowerPart(imm) = r + (q - UpperPart(imm)) * 4096
    BY DEF UpperPart, LowerPart
  <1> HIDE DEF q, r
  <1>3. CASE r < 2048
    <2>1. UpperPart(imm) = q /\ LowerPart(imm) = r
      BY <1>1, <1>2, <1>3, SMT
    <2>2. imm \in LiNumbers => UpperPart(imm) \in UpperField
      BY <1>1, <1>3, <2>1, SMT DEF LiNumbers, UpperField
    <2>3. LowerPart(imm) \in LowerField /\ 4096 * UpperPart(imm) + LowerPart(imm) = imm
      BY <1>1, <1>3, <2>1, SMT DEF LowerField
    <2> QED
      BY <2>2, <2>3
  <1>4. CASE r >= 2048
    <2>1. UpperPart(imm) = q + 1 /\ LowerPart(imm) = r - 4096
      BY <1>1, <1>2, <1>4, SMT
    <2>2. imm \in LiNumbers => UpperPart(imm) \in UpperField
      BY <1>1, <1>4, <2>1, SMT DEF LiNumbers, UpperField
    <2>3. LowerPart(imm) \in LowerField /\ 4096 * UpperPart(imm) + LowerPart(imm) = imm
      BY <1>1, <1>4, <2>1, SMT DEF LowerField
    <2> QED
      BY <2>2, <2>3
  <1> QED
    BY <1>1, <1>3, <1>4

-----------------------------------------------------------------------------
(* Lines of an instruction *)

\* Behind its fragments every line of an instruction has the four bytes of an
\* opcode.
OpcodeBehind(h) == Len(h.bytes) = 4

LEMMA HalfIsWord == \A refs, mn, part : OpcodeBehind(Half(refs, mn, part))
  <1>1. \A word : Len(Bytes(word, 4)) = 4
    BY ZerosLen
  <1> QED
    BY <1>1 DEF OpcodeBehind, Half

\* One line at most, and its opcode is behind its fragments.
LineOrNone(S) == AtMostOne(S) /\ \A h \in S : OpcodeBehind(h)

LEMMA NoLineOrOne == LineOrNone({}) /\ \A refs, mn : LineOrNone(Emitted(refs, mn))
  BY HalfIsWord DEF LineOrNone, AtMostOne, Emitted

LEMMA OneLineAtMost ==
    ASSUME NEW mn, NEW args
    PROVE  LineOrNone(OneLine(mn, args))
  <1>1. LineOrNone(Arithmetic(mn, args))
    BY NoLineOrOne DEF Arithmetic
  <1>2. LineOrNone(LoadsAndStores(mn, args))
    BY NoLineOrOne DEF LoadsAndStores
  <1>3. LineOrNone(JumpsAndBranches(mn, args))
    BY NoLineOrOne DEF JumpsAndBranches
  <1>4. LineOrNone(ControlRegisters(mn, args))
    BY NoLineOrOne DEF ControlRegisters
  <1>5. mn \in {"nop", "mv", "neg", "not", "seqz", "snez"} => LineOrNone(Pseudo(mn, args))
    BY NoLineOrOne DEF Pseudo
  <1> QED
    BY <1>1, <1>2, <1>3, <1>4, <1>5, NoLineOrOne DEF OneLine

\* A sequence of them.
Words4(s) == IsSeq(s) /\ \A i \in DOMAIN s : OpcodeBehind(s[i])

LEMMA Behind2 ==
    ASSUME NEW s, IsSeq(s), NEW t, IsSeq(t)
    PROVE  /\ IsSeq(s \o t)
           /\ \A i \in DOMAIN (s \o t) : \/ i \in DOMAIN s /\ (s \o t)[i] = s[i]
                                        \/ \E j \in DOMAIN t : (s \o t)[i] = t[j]
  <1>1. PICK S : s \in Seq(S)
    BY DEF IsSeq
  <1>2. PICK T : t \in Seq(T)
    BY DEF IsSeq
  <1> DEFINE U == S \cup T
  <1>3. s \in Seq(U) /\ t \in Seq(U)
    BY <1>1, <1>2
  <1> HIDE DEF U
  <1>4. s \o t \in Seq(U) /\ Len(s \o t) = Len(s) + Len(t) /\ Len(s) \in Nat /\ Len(t) \in Nat
    BY <1>3
  <1>5. DOMAIN (s \o t) = 1 .. Len(s) + Len(t) /\ DOMAIN s = 1 .. Len(s) /\ DOMAIN t = 1 .. Len(t)
    BY <1>3, <1>4
  <1>6. ASSUME NEW i \in 1 .. Len(s) + Len(t)
        PROVE  \/ i \in 1 .. Len(s) /\ (s \o t)[i] = s[i]
               \/ \E j \in 1 .. Len(t) : (s \o t)[i] = t[j]
    <2>1. CASE i <= Len(s)
      BY <1>3, <1>4, <2>1
    <2>2. CASE i > Len(s)
      <3>1. i - Len(s) \in 1 .. Len(t) /\ (s \o t)[i] = t[i - Len(s)]
        BY <1>3, <1>4, <2>2
      <3> QED
        BY <3>1
    <2> QED
      BY <1>4, <2>1, <2>2
  <1> QED
    BY <1>4, <1>5, <1>6 DEF IsSeq

LEMMA BothWords4 ==
    ASSUME NEW s, Words4(s), NEW t, Words4(t)
    PROVE  Words4(s \o t)
  BY Behind2 DEF Words4

LEMMA InstructionsAreWords ==
    ASSUME NEW mn, NEW args
    PROVE  Words4(emit(mn, args))
  <1>1. Words4(<<>>)
    BY DEF Words4, IsSeq
  <1>2. ASSUME NEW x, OpcodeBehind(x)
        PROVE  Words4(<<x>>) /\ <<x>> \o <<>> = <<x>>
    <2>1. <<x>> \in Seq({x})
      OBVIOUS
    <2>2. DOMAIN <<x>> = {1} /\ <<x>>[1] = x /\ <<x>> \o <<>> = <<x>>
      BY <2>1
    <2> QED
      BY <1>2, <2>1, <2>2 DEF Words4, IsSeq
  <1>3. ASSUME NEW x, NEW y, OpcodeBehind(x), OpcodeBehind(y)
        PROVE  Words4(<<x, y>>)
    <2> DEFINE S == {x, y}
    <2>1. x \in S /\ y \in S
      OBVIOUS
    <2> HIDE DEF S
    <2>2. <<x, y>> \in Seq(S)
      BY <2>1
    <2>3. DOMAIN <<x, y>> = {1, 2} /\ <<x, y>>[1] = x /\ <<x, y>>[2] = y
      BY <2>2
    <2> QED
      BY <1>3, <2>2, <2>3 DEF Words4, IsSeq
  <1>4. ASSUME NEW rd, NEW imm
        PROVE  Words4(LoadImmediate(rd, imm))
    <2> DEFINE x == Half(<<rd_f(rd), utype_f(UpperPart(imm))>>, "lui", "upper")
               y == Half(<<rd_f(rd), rs1_f(rd), itype_f(LowerPart(imm))>>, "addi", "lower")
               z == Half(<<rd_f(rd), itype_f(imm)>>, "addi", "")
    <2>1. OpcodeBehind(x) /\ OpcodeBehind(y) /\ OpcodeBehind(z)
      BY HalfIsWord
    <2>2. LoadImmediate(rd, imm) = IF imm \in -2048 .. 2047 THEN <<z>>
                                   ELSE <<x>> \o IF LowerPart(imm) = 0 THEN <<>> ELSE <<y>>
      BY DEF LoadImmediate
    <2> HIDE DEF x, y, z
    <2>3. LoadImmediate(rd, imm) \in {<<z>>, <<x>> \o <<>>, <<x>> \o <<y>>}
      <3>1. CASE imm \in -2048 .. 2047
        BY <2>2, <3>1
      <3>2. CASE imm \notin -2048 .. 2047 /\ LowerPart(imm) = 0
        BY <2>2, <3>2
      <3>3. CASE imm \notin -2048 .. 2047 /\ LowerPart(imm) # 0
        BY <2>2, <3>3
      <3> QED
        BY <3>1, <3>2, <3>3
    <2>4. Words4(<<z>>) /\ Words4(<<x>> \o <<>>) /\ Words4(<<x>> \o <<y>>)
      BY <1>2, <2>1, BothWords4
    <2> QED
      BY <2>3, <2>4
  <1>5. \A rd, label : Words4(LoadAddress(rd, label))
    BY <1>3, HalfIsWord DEF LoadAddress
  <1>6. Words4(SetToSeq(OneLine(mn, args)))
    <2>1. AtMostOne(OneLine(mn, args)) /\ \A h \in OneLine(mn, args) : OpcodeBehind(h)
      BY OneLineAtMost DEF LineOrNone
    <2>2. SetToSeq(OneLine(mn, args)) \in Seq(OneLine(mn, args))
      BY <2>1, NoneOrOne
    <2> QED
      BY <2>1, <2>2 DEF Words4, IsSeq
  <1> QED
    BY <1>1, <1>4, <1>5, <1>6 DEF emit

-----------------------------------------------------------------------------
(* Lines of the file *)

SameCount(line) == count_bytes(line) = Len(line.bytes)

AllSame(lines) == IsSeq(lines) /\ \A i \in DOMAIN lines : SameCount(lines[i])

\* A line without references, and a word.
LEMMA SameCounted ==
    ASSUME NEW line, line.refs = <<>> \/ OpcodeBehind(line)
    PROVE  SameCount(line)
  <1>1. CASE line.refs = <<>>
    <2>1. DOMAIN line.refs = {}
      BY <1>1
    <2> QED
      BY <2>1 DEF SameCount, count_bytes
  <1>2. CASE OpcodeBehind(line)
    BY <1>2 DEF SameCount, count_bytes, OpcodeBehind
  <1> QED
    BY <1>1, <1>2

LEMMA LinesAreCounted ==
    ASSUME NEW line
    PROVE  AllSame(process_line(line))
  <1>1. ASSUME NEW def, NEW bytes
        PROVE  AllSame(<<HexLine(def, <<>>, bytes, line, "")>>)
    <2> DEFINE x == HexLine(def, <<>>, bytes, line, "")
    <2>1. SameCount(x)
      BY SameCounted DEF HexLine
    <2> HIDE DEF x
    <2>2. <<x>> \in Seq({x})
      OBVIOUS
    <2>3. DOMAIN <<x>> = {1} /\ <<x>>[1] = x
      BY <2>2
    <2>4. AllSame(<<x>>)
      BY <2>1, <2>2, <2>3 DEF AllSame, IsSeq
    <2> QED
      BY <2>4 DEF x
  <1>2. AllSame(<<>>)
    BY DEF AllSame, IsSeq
  <1>3. ASSUME NEW halves, Words4(halves)
        PROVE  AllSame([i \in DOMAIN halves |-> HexLine("", halves[i].refs, halves[i].bytes, line, halves[i].part)])
    <2> DEFINE x(i) == HexLine("", halves[i].refs, halves[i].bytes, line, halves[i].part)
    <2>1. ASSUME NEW i \in DOMAIN halves PROVE SameCount(x(i))
      <3>1. OpcodeBehind(halves[i])
        BY <1>3 DEF Words4
      <3>2. x(i).bytes = halves[i].bytes
        BY DEF HexLine
      <3>3. OpcodeBehind(x(i))
        BY <3>1, <3>2 DEF OpcodeBehind
      <3> QED
        BY <3>3, SameCounted
    <2> HIDE DEF x
    <2>2. PICK S : halves \in Seq(S)
      BY <1>3 DEF Words4, IsSeq
    <2>3. DOMAIN halves = 1 .. Len(halves) /\ Len(halves) \in Nat
      BY <2>2
    <2> DEFINE T == {x(i) : i \in DOMAIN halves}
    <2>4. [i \in 1 .. Len(halves) |-> x(i)] \in Seq(T)
      BY <2>3
    <2>5. AllSame([i \in DOMAIN halves |-> x(i)])
      BY <2>1, <2>3, <2>4 DEF AllSame, IsSeq
    <2> QED
      BY <2>5 DEF x
  <1>4. line.kind = "insn" => AllSame(process_line(line))
    <2>1. Words4(emit(line.mn, line.ops))
      BY InstructionsAreWords
    <2> QED
      BY <1>3, <2>1 DEF process_line
  <1> QED
    BY <1>1, <1>2, <1>4 DEF process_line

LEMMA BothAllSame ==
    ASSUME NEW s, AllSame(s), NEW t, AllSame(t)
    PROVE  AllSame(s \o t)
  BY Behind2 DEF AllSame

\* Of every line of a RISC-V .hex2 file hex2tohex0.py takes the number of bytes
\* that the linker has written for it.
CountsLikeTheLinker == isa = "riscv64" => \A i \in DOMAIN hex2 : SameCount(hex2[i])

PrintInv == Ordered /\ (isa = "riscv64" => AllSame(hex2))

LEMMA PrintoutKept ==
    ASSUME PrintInv, [ToolsNext]_tools, isa = "riscv64"
    PROVE  AllSame(hex2')
  <1>0. AllSame(hex2)
    BY DEF PrintInv
  <1>1. CASE hex2' = hex2
    BY <1>0, <1>1
  <1>2. CASE RunAssembler
    <2>1. hex2' = <<>>
      BY <1>2 DEF RunAssembler, Rv64Begins
    <2> QED
      BY <2>1 DEF AllSame, IsSeq
  <1>3. CASE Work
    <2>1. ~Pass1 /\ ~Pass2
      <3>1. job \notin {"pass1", "pass2"}
        BY DEF PrintInv, Ordered
      <3>2. Pass1 => job = "pass1"
        BY DEF Pass1, ParseNothing, ParseLabel, ParseRaw, ParseWord, ParseZero, ParseAlign, ParseInstruction,
           ParseRefuses, Pass1Ends, Parse, Meets
      <3>3. EmitNothing \/ EmitLabel \/ EmitRaw \/ EmitRefuses \/ Pass2Ends => job = "pass2"
        BY DEF EmitNothing, EmitLabel, EmitRaw, EmitRefuses, Pass2Ends, Emit
      <3>4. EmitWord \/ EmitZeros => job = "pass2"
        BY DEF EmitWord, EmitZeros, Emit
      <3>5. EmitInstruction => job = "pass2"
        BY DEF EmitInstruction, Emit
      <3> QED
        BY <3>1, <3>2, <3>3, <3>4, <3>5 DEF Pass2
    <2>2. CASE PrintLine
      <3>1. PICK i \in DOMAIN assembly : hex2' = hex2 \o process_line(assembly[i])
        BY <2>2 DEF PrintLine
      <3> QED
        BY <1>0, <3>1, LinesAreCounted, BothAllSame
    <2>3. RefuseLine \/ PrintEnds \/ Links \/ Annotates => hex2' = hex2
      BY DEF RefuseLine, PrintEnds, Links, Annotates
    <2> QED
      BY <1>1, <1>3, <2>1, <2>2, <2>3 DEF Work, Assembles, Assemble, Print64
  <1>4. Edit \/ Make \/ RunLinker \/ RunHex2ToHex0 \/ RecipeEnds \/ MakeEnds => hex2' = hex2
    BY DEF Edit, Make, RunLinker, RunHex2ToHex0, RecipeEnds, MakeEnds
  <1>5. UNCHANGED tools => hex2' = hex2
    BY DEF tools
  <1> QED
    BY <1>1, <1>2, <1>3, <1>4, <1>5 DEF ToolsNext, MakeGoesOn

\* The two tools that have to agree on bytes look at different things of a
\* line; whatever rv64-asm2hex2.py prints, of whatever source and however often
\* it is edited and made, they count the same.
THEOREM AnnotatorCountsAlike == ToolsSpec => []CountsLikeTheLinker
  <1>1. ToolsInit => PrintInv
    BY DEF ToolsInit, Written, PrintInv, Ordered, Later, AllSame, IsSeq
  <1>2. PrintInv /\ [ToolsNext]_tools => PrintInv'
    <2> SUFFICES ASSUME PrintInv, [ToolsNext]_tools PROVE PrintInv'
      OBVIOUS
    <2>1. Ordered'
      BY OrderKept DEF PrintInv
    <2>2. isa' = "riscv64" => AllSame(hex2')
      BY SameMachine, PrintoutKept
    <2> QED
      BY <2>1, <2>2 DEF PrintInv
  <1>3. PrintInv => CountsLikeTheLinker
    BY DEF PrintInv, CountsLikeTheLinker, AllSame
  <1> QED
    BY <1>1, <1>2, <1>3, PTL DEF ToolsSpec

-----------------------------------------------------------------------------
(* Induction *)

\* What holds of 0, and of n + 1 whenever of n, holds of every number.
LEMMA Upwards ==
    ASSUME NEW S, 0 \in S, \A n \in Nat : n \in S => n + 1 \in S
    PROVE  \A n \in Nat : n \in S
  <1> DEFINE Smaller == OpToRel(<, Nat)
             T == Nat \ S
  <1>1. IsWellFoundedOn(Smaller, Nat)
    BY NatLessThanWellFounded
  <1> SUFFICES ASSUME T # {} PROVE FALSE
    OBVIOUS
  <1>0. \A x, y \in Nat : x < y => <<x, y>> \in Smaller
    BY DEF OpToRel
  <1> HIDE DEF Smaller
  <1>2. PICK x \in T : \A y \in T : ~(<<y, x>> \in Smaller)
    <2>1. T \subseteq Nat
      OBVIOUS
    <2> HIDE DEF T
    <2> QED
      BY <1>1, <2>1, WFMin
  <1>3. x \in Nat /\ x # 0 /\ x \notin S
    OBVIOUS
  <1>4. x - 1 \in Nat /\ <<x - 1, x>> \in Smaller
    BY <1>0, <1>3
  <1>5. x - 1 \in S
    BY <1>2, <1>4
  <1> QED
    BY <1>3, <1>4, <1>5

\* A step for each number up to n, from a value each to the next: there is a
\* function that takes them.
Stepwise(f, n, s, G) == f = [i \in 0 .. n |-> IF i = 0 THEN s ELSE G[<<f[i - 1], i>>]]

LEMMA StepsExist ==
    ASSUME NEW S, NEW s \in S, NEW m \in Nat, NEW G \in [S \X (1 .. m) -> S]
    PROVE  \E f \in [0 .. m -> S] : Stepwise(f, m, s, G)
  <1> DEFINE Good == {n \in Nat : n <= m => \E f \in [0 .. n -> S] : Stepwise(f, n, s, G)}
  <1>1. 0 \in Good
    <2> DEFINE f == [i \in 0 .. 0 |-> s]
    <2>1. f \in [0 .. 0 -> S] /\ Stepwise(f, 0, s, G)
      BY DEF Stepwise
    <2> QED
      BY <2>1
  <1>2. ASSUME NEW n \in Nat, n \in Good PROVE n + 1 \in Good
    <2> SUFFICES ASSUME n + 1 <= m PROVE \E f \in [0 .. n + 1 -> S] : Stepwise(f, n + 1, s, G)
      OBVIOUS
    <2>1. PICK f \in [0 .. n -> S] : Stepwise(f, n, s, G)
      BY <1>2
    <2> DEFINE v == G[<<f[n], n + 1>>]
               g == [i \in 0 .. n + 1 |-> IF i = n + 1 THEN v ELSE f[i]]
    <2>2. v \in S
      <3>1. f[n] \in S /\ n + 1 \in 1 .. m
        OBVIOUS
      <3> QED
        BY <3>1
    <2>3. g \in [0 .. n + 1 -> S]
      BY <2>2
    <2>4. ASSUME NEW i \in 0 .. n + 1 PROVE g[i] = IF i = 0 THEN s ELSE G[<<g[i - 1], i>>]
      <3>1. CASE i = n + 1
        <4>1. g[n + 1] = v /\ n + 1 # 0 /\ i - 1 = n /\ n # n + 1
          BY <3>1
        <4>2. g[n] = f[n]
          OBVIOUS
        <4> QED
          BY <3>1, <4>1, <4>2
      <3>2. CASE i \in 0 .. n
        <4>1. g[i] = f[i] /\ (i # 0 => i - 1 \in 0 .. n /\ g[i - 1] = f[i - 1])
          BY <3>2
        <4>2. f[i] = IF i = 0 THEN s ELSE G[<<f[i - 1], i>>]
          BY <2>1, <3>2 DEF Stepwise
        <4> QED
          BY <4>1, <4>2
      <3> QED
        BY <3>1, <3>2
    <2> HIDE DEF g
    <2>5. Stepwise(g, n + 1, s, G)
      <3>1. g = [i \in 0 .. n + 1 |-> g[i]]
        BY <2>3
      <3> QED
        BY <2>4, <3>1 DEF Stepwise
    <2> QED
      BY <2>3, <2>5
  <1> HIDE DEF Good
  <1>3. m \in Good
    BY <1>1, <1>2, Upwards
  <1> QED
    BY <1>3 DEF Good

\* What a function that takes them comes to stays in S.
LEMMA StepsStay ==
    ASSUME NEW S, NEW s \in S, NEW m \in Nat, NEW G \in [S \X (1 .. m) -> S], NEW f, Stepwise(f, m, s, G)
    PROVE  f \in [0 .. m -> S] /\ f[0] = s /\ \A i \in 1 .. m : f[i] = G[<<f[i - 1], i>>]
  <1> DEFINE Good == {n \in Nat : n <= m => f[n] \in S}
  <1>0. \A i \in 0 .. m : f[i] = IF i = 0 THEN s ELSE G[<<f[i - 1], i>>]
    BY DEF Stepwise
  <1>1. 0 \in Good
    <2>0. 0 \in 0 .. m
      OBVIOUS
    <2>1. f[0] = s
      BY <1>0, <2>0, Zenon
    <2> QED
      BY <2>1
  <1>2. ASSUME NEW n \in Nat, n \in Good PROVE n + 1 \in Good
    <2> SUFFICES ASSUME n + 1 <= m PROVE f[n + 1] \in S
      OBVIOUS
    <2>1. f[n + 1] = G[<<f[n], n + 1>>] /\ f[n] \in S /\ n + 1 \in 1 .. m
      BY <1>0, <1>2
    <2> QED
      BY <2>1
  <1> HIDE DEF Good
  <1>3. \A n \in Nat : n \in Good
    BY <1>1, <1>2, Upwards
  <1>4. \A n \in 0 .. m : f[n] \in S
    BY <1>3 DEF Good
  <1>5. f = [i \in 0 .. m |-> f[i]]
    BY DEF Stepwise
  <1>6. f \in [0 .. m -> S]
    BY <1>4, <1>5
  <1>7. f[0] = s /\ \A i \in 1 .. m : f[i] = G[<<f[i - 1], i>>]
    <2>1. 0 \in 0 .. m /\ \A i \in 1 .. m : i \in 0 .. m /\ i # 0
      OBVIOUS
    <2> QED
      BY <1>0, <2>1, Zenon
  <1> QED
    BY <1>6, <1>7

-----------------------------------------------------------------------------
(* The types of the tools *)

Words32 == SUBSET (0 .. 31)
Bytes8  == SUBSET (0 .. 7)

\* Bits of a field stay in it.
LEMMA FieldsFit ==
    /\ \A v : \A k \in Int : \A n, lo \in Nat : lo + n <= 32 => Moved(v, k, n, lo) \in Words32
    /\ \A v : \A n, lo \in Nat : lo + n <= 32 => At(v, lo, n) \in Words32
    /\ \A word : \A lo : Field(word, lo, 8) \in Bytes8
    /\ \A word : \A n \in Nat : Bytes(word, n) \in Seq(Bytes8)
    /\ \A n \in Nat : Zeros8(n) \in Seq(Bytes8)
  <1>1. ASSUME NEW v, NEW k \in Int, NEW n \in Nat, NEW lo \in Nat, lo + n <= 32
        PROVE  Moved(v, k, n, lo) \in Words32
    BY <1>1 DEF Moved, Words32
  <1>2. ASSUME NEW v, NEW n \in Nat, NEW lo \in Nat, lo + n <= 32
        PROVE  At(v, lo, n) \in Words32
    BY <1>2 DEF At, Bits, Words32
  <1>3. \A word : \A lo : Field(word, lo, 8) \in Bytes8
    BY DEF Field, Bytes8
  <1>4. \A word : \A n \in Nat : Bytes(word, n) \in Seq(Bytes8)
    BY <1>3 DEF Bytes
  <1>5. \A n \in Nat : Zeros8(n) \in Seq(Bytes8)
    BY DEF Zeros8, Bytes8
  <1> QED
    BY <1>1, <1>2, <1>3, <1>4, <1>5

\* What stands in front of the bytes of a line: fragments and references.
IsRef(ref) == (ref.sigil = "." /\ ref.word \in Words32) \/ ref.sigil \in {"@", "$", "~", "!"}

LEMMA ResolvedIsWord ==
    ASSUME NEW ref, IsRef(ref)
    PROVE  Resolved(ref) \in Words32
  <1>1. ASSUME NEW d, NEW sigil \in {"@", "$", "~", "!"}
        PROVE  Reference(sigil, d) \in Words32
    <2>1. Moved(d, 1, 4, 8) \in Words32 /\ Moved(d, 5, 6, 25) \in Words32 /\ Moved(d, 11, 1, 7) \in Words32
          /\ Moved(d, 12, 1, 31) \in Words32
      BY DEF Moved, Words32
    <2>2. Moved(d, 1, 10, 21) \in Words32 /\ Moved(d, 11, 1, 20) \in Words32 /\ Moved(d, 12, 8, 12) \in Words32
          /\ Moved(d, 20, 1, 31) \in Words32
      BY DEF Moved, Words32
    <2>3. At(d + 4, 20, 12) \in Words32 /\ Upper(d) \in Words32
      BY FieldsFit DEF Upper
    <2>4. \A x, y \in Words32 : x \cup y \in Words32
      BY DEF Words32
    <2> QED
      BY <2>1, <2>2, <2>3, <2>4 DEF Reference
  <1> QED
    BY <1>1 DEF Resolved, IsRef

\* The linker xors as many words as it likes into its register: it keeps it.
LEMMA ShiftedIsWord ==
    ASSUME NEW refs, IsSeq(refs), \A r \in DOMAIN refs : IsRef(refs[r]), shift \in Words32
    PROVE  Shifted(refs) \in Words32
  <1> DEFINE n == Len(refs)
             G == [p \in Words32 \X (1 .. n) |-> SymDiff(p[1], Resolved(refs[p[2]]))]
             word == CHOOSE f : f = [r \in 0 .. n |-> IF r = 0 THEN shift ELSE SymDiff(f[r - 1], Resolved(refs[r]))]
  <1>1. n \in Nat /\ DOMAIN refs = 1 .. n
    BY DEF IsSeq
  <1>2. \A x, y \in Words32 : SymDiff(x, y) \in Words32
    BY DEF SymDiff, Words32
  <1>3. G \in [Words32 \X (1 .. n) -> Words32]
    BY <1>1, <1>2, ResolvedIsWord
  <1>4. Shifted(refs) = word[n]
    BY DEF Shifted
  <1>5. PICK f \in [0 .. n -> Words32] : Stepwise(f, n, shift, G)
    <2> HIDE DEF G, n
    <2> QED
      BY <1>1, <1>3, StepsExist
  <1>6. f = [r \in 0 .. n |-> IF r = 0 THEN shift ELSE SymDiff(f[r - 1], Resolved(refs[r]))]
    <2>1. \A r \in 0 .. n : f[r] = IF r = 0 THEN shift ELSE SymDiff(f[r - 1], Resolved(refs[r]))
      <3> HIDE DEF G
      <3>1. f[0] = shift /\ \A r \in 1 .. n : f[r] = G[<<f[r - 1], r>>] /\ f[r - 1] \in Words32
        <4>1. f[0] = shift /\ \A r \in 1 .. n : f[r] = G[<<f[r - 1], r>>]
          BY <1>1, <1>3, <1>5, StepsStay
        <4> QED
          BY <1>1, <1>5, <4>1
      <3>2. \A r \in 1 .. n : G[<<f[r - 1], r>>] = SymDiff(f[r - 1], Resolved(refs[r]))
        BY <3>1 DEF G
      <3>3. \A r \in 0 .. n : r = 0 \/ r \in 1 .. n
        BY <1>1
      <3> QED
        BY <3>1, <3>2, <3>3, Zenon
    <2>2. f = [r \in 0 .. n |-> f[r]]
      BY <1>5
    <2> QED
      BY <2>1, <2>2
  <1>7. word = [r \in 0 .. n |-> IF r = 0 THEN shift ELSE SymDiff(word[r - 1], Resolved(refs[r]))]
    BY <1>6
  <1> HIDE DEF word, n, G
  <1> DEFINE Good == {r \in Nat : r <= n => word[r] \in Words32}
  <1>8. \A r \in 0 .. n : word[r] = IF r = 0 THEN shift ELSE SymDiff(word[r - 1], Resolved(refs[r]))
    BY <1>7, Zenon
  <1>9. 0 \in Good
    BY <1>1, <1>8
  <1>10. ASSUME NEW r \in Nat, r \in Good PROVE r + 1 \in Good
    <2> SUFFICES ASSUME r + 1 <= n PROVE word[r + 1] \in Words32
      OBVIOUS
    <2>1. word[r + 1] = SymDiff(word[r], Resolved(refs[r + 1])) /\ word[r] \in Words32 /\ r + 1 \in DOMAIN refs
      BY <1>1, <1>8, <1>10
    <2> QED
      BY <1>2, <2>1, ResolvedIsWord
  <1> HIDE DEF Good
  <1>11. n \in Good
    BY <1>1, <1>9, <1>10, Upwards
  <1> QED
    BY <1>1, <1>4, <1>11 DEF Good

-----------------------------------------------------------------------------
(* The lines of rv64-asm2hex2.py *)

AllRefs(refs) == IsSeq(refs) /\ \A r \in DOMAIN refs : IsRef(refs[r])

\* Fragments, and bytes behind them.
IsHalf(h) == AllRefs(h.refs) /\ h.bytes \in Seq(Bytes8)

LEMMA ShortTuples ==
    /\ AllRefs(<<>>)
    /\ \A a : IsRef(a) => AllRefs(<<a>>)
    /\ \A a, b : IsRef(a) /\ IsRef(b) => AllRefs(<<a, b>>)
    /\ \A a, b, c : IsRef(a) /\ IsRef(b) /\ IsRef(c) => AllRefs(<<a, b, c>>)
  <1>1. AllRefs(<<>>)
    BY DEF AllRefs, IsSeq
  <1>2. ASSUME NEW a, IsRef(a) PROVE AllRefs(<<a>>)
    <2>1. <<a>> \in Seq({a}) /\ DOMAIN <<a>> = {1} /\ <<a>>[1] = a
      OBVIOUS
    <2> QED
      BY <1>2, <2>1 DEF AllRefs, IsSeq
  <1>3. ASSUME NEW a, NEW b, IsRef(a), IsRef(b) PROVE AllRefs(<<a, b>>)
    <2> DEFINE S == {a, b}
    <2>1. a \in S /\ b \in S
      OBVIOUS
    <2> HIDE DEF S
    <2>2. <<a, b>> \in Seq(S) /\ DOMAIN <<a, b>> = {1, 2} /\ <<a, b>>[1] = a /\ <<a, b>>[2] = b
      BY <2>1
    <2> QED
      BY <1>3, <2>2 DEF AllRefs, IsSeq
  <1>4. ASSUME NEW a, NEW b, NEW c, IsRef(a), IsRef(b), IsRef(c) PROVE AllRefs(<<a, b, c>>)
    <2> DEFINE S == {a, b, c}
    <2>1. a \in S /\ b \in S /\ c \in S
      OBVIOUS
    <2> HIDE DEF S
    <2>2. <<a, b, c>> \in Seq(S) /\ DOMAIN <<a, b, c>> = {1, 2, 3}
          /\ <<a, b, c>>[1] = a /\ <<a, b, c>>[2] = b /\ <<a, b, c>>[3] = c
      BY <2>1
    <2> QED
      BY <1>4, <2>2 DEF AllRefs, IsSeq
  <1> QED
    BY <1>1, <1>2, <1>3, <1>4

LEMMA EmittedHalves ==
    /\ \A refs, mn, part : AllRefs(refs) => IsHalf(Half(refs, mn, part))
    /\ \A refs, mn : AllRefs(refs) => \A h \in Emitted(refs, mn) : IsHalf(h)
  BY FieldsFit DEF IsHalf, Half, Emitted

\* The fragments have their bits where an instruction has the field.
LEMMA Fragments ==
    /\ \A r : IsRef(rd_f(r)) /\ IsRef(rs1_f(r)) /\ IsRef(rs2_f(r))
    /\ \A v : IsRef(rs1_raw_f(v)) /\ IsRef(itype_f(v)) /\ IsRef(utype_f(v)) /\ IsRef(stype_f(v)) /\ IsRef(csr_f(v))
    /\ \A nm, sigil : sigil \in {"@", "$", "~", "!"} => IsRef(Ref(sigil, nm))
    /\ \A v, w : w \in Words32 => IsRef(Frag(w))
  <1>1. \A w \in Words32 : IsRef(Frag(w))
    BY DEF IsRef, Frag
  <1>2. ASSUME NEW v
        PROVE  /\ At(v, 7, 5) \in Words32 /\ At(v, 15, 5) \in Words32 /\ At(v, 20, 5) \in Words32
               /\ At(v, 20, 12) \in Words32 /\ At(v, 12, 20) \in Words32
    BY DEF At, Bits, Words32
  <1>3. ASSUME NEW v
        PROVE  Moved(v, 0, 5, 7) \cup Moved(v, 5, 7, 25) \in Words32
    BY DEF Moved, Words32
  <1>4. ASSUME NEW r PROVE IsRef(rd_f(r)) /\ IsRef(rs1_f(r)) /\ IsRef(rs2_f(r))
    BY <1>1, <1>2 DEF rd_f, rs1_f, rs2_f
  <1>5. ASSUME NEW v
        PROVE  IsRef(rs1_raw_f(v)) /\ IsRef(itype_f(v)) /\ IsRef(utype_f(v)) /\ IsRef(stype_f(v)) /\ IsRef(csr_f(v))
    BY <1>1, <1>2, <1>3 DEF rs1_raw_f, itype_f, utype_f, stype_f, csr_f
  <1>6. ASSUME NEW nm, NEW sigil \in {"@", "$", "~", "!"} PROVE IsRef(Ref(sigil, nm))
    BY DEF IsRef, Ref
  <1> QED
    BY <1>1, <1>4, <1>5, <1>6

LEMMA ArithmeticHalves ==
    ASSUME NEW mn, NEW args
    PROVE  /\ \A h \in Arithmetic(mn, args) : IsHalf(h)
           /\ \A h \in LoadsAndStores(mn, args) : IsHalf(h)
           /\ \A h \in ControlRegisters(mn, args) : IsHalf(h)
  <1>1. \A h \in Arithmetic(mn, args) : IsHalf(h)
    BY Fragments, ShortTuples, EmittedHalves DEF Arithmetic
  <1>2. \A h \in LoadsAndStores(mn, args) : IsHalf(h)
    BY Fragments, ShortTuples, EmittedHalves DEF LoadsAndStores
  <1>3. \A h \in ControlRegisters(mn, args) : IsHalf(h)
    BY Fragments, ShortTuples, EmittedHalves DEF ControlRegisters
  <1> QED
    BY <1>1, <1>2, <1>3

LEMMA JumpHalves ==
    ASSUME NEW mn, NEW args
    PROVE  \A h \in JumpsAndBranches(mn, args) : IsHalf(h)
  <1>1. ASSUME mn \in DOMAIN WithZero
        PROVE  IsRef(Frag(At(REGS[args[1].abi], WithZero[mn][2], 5)))
    <2>1. WithZero[mn][2] \in {15, 20}
      BY <1>1 DEF WithZero
    <2>2. At(REGS[args[1].abi], 15, 5) \in Words32 /\ At(REGS[args[1].abi], 20, 5) \in Words32
      BY DEF At, Bits, Words32
    <2> QED
      BY <2>1, <2>2, Fragments
  <1> QED
    BY <1>1, Fragments, ShortTuples, EmittedHalves DEF JumpsAndBranches

\* A line of an instruction: the four bytes of an opcode behind its fragments.
IsWord(h) == IsHalf(h) /\ Len(h.bytes) = 4

\* The lines of one instruction, of which the first begins it.
OneInstruction(s) == IsSeq(s) /\ \A i \in DOMAIN s : IsWord(s[i]) /\ (Begins(s[i]) <=> i = 1)

LEMMA WordOfRefs ==
    ASSUME NEW refs, AllRefs(refs), NEW mn, NEW part
    PROVE  IsWord(Half(refs, mn, part)) /\ (Begins(Half(refs, mn, part)) <=> part \notin {"lower", "addi", "more"})
  <1>1. \A word : Len(Bytes(word, 4)) = 4
    BY ZerosLen
  <1> QED
    BY <1>1, EmittedHalves DEF IsWord, Half, Begins

\* One line at most.
LEMMA OneLineWord ==
    ASSUME NEW mn, NEW args
    PROVE  AtMostOne(OneLine(mn, args)) /\ \A h \in OneLine(mn, args) : IsWord(h) /\ Begins(h)
  <1>1. \A refs, name : \A h \in Emitted(refs, name) : Len(h.bytes) = 4 /\ Begins(h)
    <2> SUFFICES ASSUME NEW refs, NEW name, NEW h \in Emitted(refs, name) PROVE Len(h.bytes) = 4 /\ Begins(h)
      OBVIOUS
    <2>1. h = Half(refs, name, "")
      BY DEF Emitted
    <2>2. h.bytes = Bytes(OPCODES[name], 4) /\ h.part = ""
      BY <2>1 DEF Half
    <2>3. Len(h.bytes) = 4
      <3>1. \A word : Len(Bytes(word, 4)) = 4
        BY ZerosLen
      <3> QED
        BY <2>2, <3>1
    <2> QED
      BY <2>2, <2>3 DEF Begins
  <1> DEFINE Good(S) == AtMostOne(S) /\ \A h \in S : IsHalf(h) /\ Len(h.bytes) = 4 /\ Begins(h)
  <1>2. \A refs, name : AllRefs(refs) => Good(Emitted(refs, name))
    BY <1>1, EmittedHalves DEF Emitted, AtMostOne
  <1>3. Good({})
    BY DEF AtMostOne
  <1>4. \A refs, name : AtMostOne(Emitted(refs, name)) /\ AtMostOne({})
    BY DEF AtMostOne, Emitted
  <1>5. Good(Arithmetic(mn, args))
    <2>1. AtMostOne(Arithmetic(mn, args)) /\ \A h \in Arithmetic(mn, args) : Len(h.bytes) = 4 /\ Begins(h)
      BY <1>1, <1>4 DEF Arithmetic
    <2> QED
      BY <2>1, ArithmeticHalves
  <1>6. Good(LoadsAndStores(mn, args))
    <2>1. AtMostOne(LoadsAndStores(mn, args)) /\ \A h \in LoadsAndStores(mn, args) : Len(h.bytes) = 4 /\ Begins(h)
      BY <1>1, <1>4 DEF LoadsAndStores
    <2> QED
      BY <2>1, ArithmeticHalves
  <1>7. Good(ControlRegisters(mn, args))
    <2>1. AtMostOne(ControlRegisters(mn, args)) /\ \A h \in ControlRegisters(mn, args) : Len(h.bytes) = 4 /\ Begins(h)
      BY <1>1, <1>4 DEF ControlRegisters
    <2> QED
      BY <2>1, ArithmeticHalves
  <1>8. Good(JumpsAndBranches(mn, args))
    <2>1. AtMostOne(JumpsAndBranches(mn, args)) /\ \A h \in JumpsAndBranches(mn, args) : Len(h.bytes) = 4 /\ Begins(h)
      BY <1>1, <1>4 DEF JumpsAndBranches
    <2> QED
      BY <2>1, JumpHalves
  <1>9. mn \in {"nop", "mv", "neg", "not", "seqz", "snez"} => Good(Pseudo(mn, args))
    <2> HIDE DEF Good
    <2> QED
      BY <1>2, <1>3, Fragments, ShortTuples DEF Pseudo
  <1>10. mn \in NoOperands => Good(Emitted(<<>>, mn))
    BY <1>2, ShortTuples
  <1>11. Good(OneLine(mn, args))
    <2> HIDE DEF Good
    <2> QED
      BY <1>3, <1>5, <1>6, <1>7, <1>8, <1>9, <1>10 DEF OneLine
  <1> QED
    BY <1>11 DEF IsWord

LEMMA ShortInstructions ==
    /\ OneInstruction(<<>>)
    /\ \A x : IsWord(x) /\ Begins(x) => OneInstruction(<<x>>) /\ <<x>> \o <<>> = <<x>>
    /\ \A x, y : IsWord(x) /\ Begins(x) /\ IsWord(y) /\ ~Begins(y) => OneInstruction(<<x, y>>) /\ OneInstruction(<<x>> \o <<y>>)
  <1>1. OneInstruction(<<>>)
    BY DEF OneInstruction, IsSeq
  <1>2. ASSUME NEW x, IsWord(x), Begins(x)
        PROVE  OneInstruction(<<x>>) /\ <<x>> \o <<>> = <<x>>
    <2>1. <<x>> \in Seq({x}) /\ DOMAIN <<x>> = {1} /\ <<x>>[1] = x /\ <<x>> \o <<>> = <<x>>
      OBVIOUS
    <2> QED
      BY <1>2, <2>1 DEF OneInstruction, IsSeq
  <1>3. ASSUME NEW x, NEW y, IsWord(x), Begins(x), IsWord(y), ~Begins(y)
        PROVE  OneInstruction(<<x, y>>) /\ OneInstruction(<<x>> \o <<y>>)
    <2> DEFINE S == {x, y}
    <2>1. x \in S /\ y \in S
      OBVIOUS
    <2> HIDE DEF S
    <2>2. <<x, y>> \in Seq(S) /\ DOMAIN <<x, y>> = {1, 2} /\ <<x, y>>[1] = x /\ <<x, y>>[2] = y
      BY <2>1
    <2>3. OneInstruction(<<x, y>>)
      BY <1>3, <2>2 DEF OneInstruction, IsSeq
    <2> DEFINE s == Append(<<x>>, y)
    <2>4. IsSeq(<<x>>) /\ Len(<<x>>) = 1 /\ <<x>>[1] = x
      BY <2>1 DEF IsSeq
    <2>5. <<x>> \o <<y>> = s /\ IsSeq(s) /\ Len(s) = 2 /\ s[1] = x /\ s[2] = y
      BY <2>4, AppendOne
    <2> HIDE DEF s
    <2>6. DOMAIN s = {1, 2}
      BY <2>5 DEF IsSeq
    <2> QED
      BY <1>3, <2>3, <2>5, <2>6 DEF OneInstruction
  <1> QED
    BY <1>1, <1>2, <1>3

LEMMA InstructionsBegin ==
    ASSUME NEW mn, NEW args
    PROVE  OneInstruction(emit(mn, args))
  <1>1. ASSUME NEW rd, NEW imm
        PROVE  OneInstruction(LoadImmediate(rd, imm))
    <2> DEFINE x == Half(<<rd_f(rd), utype_f(UpperPart(imm))>>, "lui", "upper")
               y == Half(<<rd_f(rd), rs1_f(rd), itype_f(LowerPart(imm))>>, "addi", "lower")
               z == Half(<<rd_f(rd), itype_f(imm)>>, "addi", "")
    <2>1. IsWord(x) /\ IsWord(y) /\ IsWord(z) /\ Begins(x) /\ ~Begins(y) /\ Begins(z)
      BY WordOfRefs, Fragments, ShortTuples
    <2>2. LoadImmediate(rd, imm) = IF imm \in -2048 .. 2047 THEN <<z>>
                                   ELSE <<x>> \o IF LowerPart(imm) = 0 THEN <<>> ELSE <<y>>
      BY DEF LoadImmediate
    <2> HIDE DEF x, y, z
    <2>3. LoadImmediate(rd, imm) \in {<<z>>, <<x>> \o <<>>, <<x>> \o <<y>>}
      <3>1. CASE imm \in -2048 .. 2047
        BY <2>2, <3>1
      <3>2. CASE imm \notin -2048 .. 2047 /\ LowerPart(imm) = 0
        BY <2>2, <3>2
      <3>3. CASE imm \notin -2048 .. 2047 /\ LowerPart(imm) # 0
        BY <2>2, <3>3
      <3> QED
        BY <3>1, <3>2, <3>3
    <2> QED
      BY <2>1, <2>3, ShortInstructions
  <1>2. \A rd, label : OneInstruction(LoadAddress(rd, label))
    BY WordOfRefs, Fragments, ShortTuples, ShortInstructions DEF LoadAddress
  <1>3. OneInstruction(SetToSeq(OneLine(mn, args)))
    <2>1. AtMostOne(OneLine(mn, args)) /\ \A h \in OneLine(mn, args) : IsWord(h) /\ Begins(h)
      BY OneLineWord
    <2>2. SetToSeq(OneLine(mn, args)) \in Seq(OneLine(mn, args))
          /\ (SetToSeq(OneLine(mn, args)) = <<>> \/ DOMAIN SetToSeq(OneLine(mn, args)) = {1})
      BY <2>1, NoneOrOne
    <2> QED
      BY <2>1, <2>2 DEF OneInstruction, IsSeq
  <1> QED
    BY <1>1, <1>2, <1>3, ShortInstructions DEF emit

\* A mov of a number becomes as many words as it has chunks.
LEMMA EncodingIsSeq ==
    ASSUME NEW line
    PROVE  IsSeq(Encoding(line))
  <1>1. IsSeq(<<>>) /\ \A x : IsSeq(<<x>>)
    <2>1. \A x : <<x>> \in Seq({x})
      OBVIOUS
    <2>2. <<>> \in Seq({})
      OBVIOUS
    <2> QED
      BY <2>1, <2>2 DEF IsSeq
  <1>2. ASSUME NEW rd, NEW value
        PROVE  IsSeq(load_addr(rd, value))
    <2> DEFINE chunk(i) == Field(value, 16 * i, 16)
               used     == {i \in 0 .. 3 : chunk(i) # {}}
               nth(j)   == CHOOSE i \in used : Cardinality({k \in used : k <= i}) = j
               word(j)  == MoveWide(IF j = 1 THEN "movz" ELSE "movk", rd, chunk(nth(j)), 16 * nth(j))
               n        == Cardinality(used)
    <2>1. n \in Nat
      <3>1. IsFiniteSet(0 .. 3)
        <4>1. 0 \in Int /\ 3 \in Int
          OBVIOUS
        <4> QED
          BY <4>1, FS_Interval
      <3>2. used \subseteq 0 .. 3
        OBVIOUS
      <3>3. IsFiniteSet(used)
        <4> HIDE DEF used
        <4> QED
          BY <3>1, <3>2, FS_Subset
      <3> HIDE DEF used
      <3> QED
        BY <3>3, FS_CardinalityType
    <2>3. load_addr(rd, value) = IF value = {} THEN <<MoveWide("movz", rd, {}, 0)>> ELSE [j \in 1 .. n |-> word(j)]
      BY DEF load_addr
    <2> HIDE DEF word, n
    <2>2. [j \in 1 .. n |-> word(j)] \in Seq({word(j) : j \in 1 .. n})
      BY <2>1
    <2>4. IsSeq([j \in 1 .. n |-> word(j)])
      BY <2>2 DEF IsSeq
    <2> QED
      BY <1>1, <2>3, <2>4
  <1>3. \A ops : IsSeq(Mov(ops))
    <2> SUFFICES ASSUME NEW ops PROVE IsSeq(Mov(ops))
      OBVIOUS
    <2> DEFINE two == Shaped(ops, <<"reg", "reg">>)
               big == Len(ops) >= 2 /\ ops[1].is = "reg" /\ ops[2].is \in {"imm", "mask"}
               a   == <<Move(R(ops, 1), R(ops, 2))>>
               b   == <<MoveWide("movz", R(ops, 1), Bits(ops[2].n, 16), 0)>>
               c   == load_addr(R(ops, 1), Value(ops[2]))
               low == ops[2].is = "imm" /\ ops[2].n \in 0 .. \hFFFF
    <2>1. Mov(ops) = CASE two -> a [] big -> (IF low THEN b ELSE c) [] OTHER -> <<>>
      BY DEF Mov
    <2>2. IsSeq(a) /\ IsSeq(b) /\ IsSeq(c)
      BY <1>1, <1>2
    <2> HIDE DEF two, big, a, b, c, low
    <2> QED
      BY <1>1, <2>1, <2>2
  <1>4. \A mn, ops : mn # "mov" => IsSeq(encode_mnemonic(mn, ops, addr, labels))
    <2> SUFFICES ASSUME NEW mn, NEW ops, mn # "mov" PROVE IsSeq(encode_mnemonic(mn, ops, addr, labels))
      OBVIOUS
    <2>1. AtMostOne(OneWord(mn, ops, addr, labels))
      <3>1. \A x : AtMostOne({x}) /\ AtMostOne({})
        BY DEF AtMostOne
      <3> QED
        BY <3>1, OneBranch, OneSystem, OneMove, OneArithmetic, OneTransfer DEF OneWord
    <2> QED
      BY <2>1, NoneOrOne DEF encode_mnemonic, IsSeq
  <1> QED
    BY <1>1, <1>3, <1>4 DEF Encoding, encode_mnemonic

\* Line i of those a source line becomes.
Piece(line, h, i) ==
    /\ h.line = line /\ (Begins(h) <=> i = 1)
    /\ AllRefs(h.refs) /\ (h.refs = <<>> \/ Len(h.bytes) = 4)

Pieces(line, hs) == IsSeq(hs) /\ \A i \in DOMAIN hs : Piece(line, hs[i], i)

\* Lines of the .S file that stand for no bytes, and are comments behind.
Silent(line) == line.kind \in {"label", "comment"}

OfBytes(hs) ==
    \A i \in DOMAIN hs : hs[i].bytes \in Seq(Bytes8) /\ (Silent(hs[i].line) => hs[i].bytes = <<>>)

\* A line of its own.
LEMMA OnePiece ==
    ASSUME NEW line, NEW def, NEW bytes
    PROVE  /\ Pieces(line, <<HexLine(def, <<>>, bytes, line, "")>>)
           /\ <<HexLine(def, <<>>, bytes, line, "")>> # <<>>
           /\ bytes \in Seq(Bytes8) /\ (Silent(line) => bytes = <<>>)
                => OfBytes(<<HexLine(def, <<>>, bytes, line, "")>>)
  <1> DEFINE x == HexLine(def, <<>>, bytes, line, "")
  <1>1. Piece(line, x, 1) /\ x.bytes = bytes /\ x.line = line
    BY ShortTuples DEF Piece, HexLine, Begins
  <1> HIDE DEF x
  <1>2. <<x>> \in Seq({x}) /\ DOMAIN <<x>> = {1} /\ <<x>>[1] = x
    OBVIOUS
  <1> QED
    BY <1>1, <1>2 DEF Pieces, OfBytes, IsSeq, x

\* A line for each x(i).
LEMMA PiecesByIndex ==
    ASSUME NEW line, NEW n \in Nat, NEW hs, hs = [i \in 1 .. n |-> hs[i]],
           \A i \in 1 .. n : Piece(line, hs[i], i)
    PROVE  Pieces(line, hs)
  <1>1. hs \in Seq({hs[i] : i \in 1 .. n})
    OBVIOUS
  <1>2. DOMAIN hs = 1 .. n
    OBVIOUS
  <1> QED
    BY <1>1, <1>2 DEF Pieces, IsSeq

LEMMA Rv64Pieces ==
    ASSUME NEW line
    PROVE  Pieces(line, process_line(line)) /\ (Legible(line) => OfBytes(process_line(line)))
  <1>0. ~Silent(line) \/ line.kind \in {"label", "comment"}
    BY DEF Silent
  <1>1. Pieces(line, <<>>) /\ OfBytes(<<>>)
    BY DEF Pieces, OfBytes, IsSeq
  <1>2. Bytes8 = SUBSET (0 .. 7)
    BY DEF Bytes8
  <1>3. \A n \in Nat : \A word : Bytes(word, n) \in Seq(Bytes8)
    BY FieldsFit
  <1>4. CASE line.kind = "insn"
    <2> DEFINE halves == emit(line.mn, line.ops)
               x(i)   == HexLine("", halves[i].refs, halves[i].bytes, line, halves[i].part)
               hs     == [i \in DOMAIN halves |-> x(i)]
    <2>1. IsSeq(halves) /\ \A i \in DOMAIN halves : IsWord(halves[i]) /\ (Begins(halves[i]) <=> i = 1)
      BY InstructionsBegin DEF OneInstruction
    <2>2. process_line(line) = hs
      BY <1>4 DEF process_line
    <2> HIDE DEF halves
    <2>3. DOMAIN halves = 1 .. Len(halves) /\ Len(halves) \in Nat
      BY <2>1 DEF IsSeq
    <2>4. ASSUME NEW i \in DOMAIN halves PROVE Piece(line, x(i), i) /\ x(i).bytes \in Seq(Bytes8)
      <3>1. IsWord(halves[i]) /\ (Begins(halves[i]) <=> i = 1)
        BY <2>1
      <3>2. /\ x(i).line = line /\ x(i).refs = halves[i].refs /\ x(i).bytes = halves[i].bytes
            /\ x(i).part = halves[i].part
        BY DEF HexLine
      <3> HIDE DEF x
      <3> QED
        BY <3>1, <3>2 DEF Piece, IsWord, IsHalf, Begins
    <2> HIDE DEF x
    <2>5. hs = [i \in 1 .. Len(halves) |-> hs[i]] /\ \A i \in 1 .. Len(halves) : hs[i] = x(i)
      BY <2>3
    <2> HIDE DEF hs
    <2>6. Pieces(line, hs)
      BY <2>3, <2>4, <2>5, PiecesByIndex
    <2>7. OfBytes(hs)
      <3>1. ~Silent(line)
        BY <1>0, <1>4
      <3>2. \A i \in DOMAIN hs : i \in DOMAIN halves /\ hs[i] = x(i)
        BY <2>3, <2>5
      <3>3. \A i \in DOMAIN halves : x(i).line = line
        BY <2>4 DEF Piece
      <3> QED
        BY <2>4, <3>1, <3>2, <3>3 DEF OfBytes
    <2> QED
      BY <2>2, <2>6, <2>7
  <1>5. CASE line.kind # "insn"
    <2>1. <<>> \in Seq(Bytes8) /\ \A word : Bytes(word, 4) \in Seq(Bytes8) /\ Bytes(word, 8) \in Seq(Bytes8)
      BY <1>3
    <2>2. CASE line.kind \in {"blank", "comment"}
      <3>1. process_line(line) = <<HexLine("", <<>>, <<>>, line, "")>>
        BY <2>2 DEF process_line
      <3> QED
        BY <1>0, <2>1, <2>2, <3>1, OnePiece
    <2>3. CASE line.kind = "raw"
      <3>1. process_line(line) = <<HexLine("", <<>>, line.bytes, line, "")>>
        BY <2>3 DEF process_line
      <3>2. Legible(line) => line.bytes \in Seq(Bytes8)
        BY <1>2, <2>3 DEF Legible
      <3> QED
        BY <1>0, <2>3, <3>1, <3>2, OnePiece
    <2>4. CASE line.kind = "label"
      <3>1. process_line(line) = <<HexLine(line.name, <<>>, <<>>, line, "")>>
        BY <2>4 DEF process_line
      <3> QED
        BY <1>0, <2>1, <2>4, <3>1, OnePiece
    <2>5. CASE line.kind = "word"
      <3>1. process_line(line) = <<HexLine("", <<>>, Bytes(Bits(line.n, 32), 4), line, "")>>
        BY <2>5 DEF process_line
      <3> QED
        BY <1>0, <2>1, <2>5, <3>1, OnePiece
    <2>6. CASE line.kind = "dword"
      <3>1. process_line(line) = <<HexLine("", <<>>, Bytes(Bits(line.n, 64), 8), line, "")>>
        BY <2>6 DEF process_line
      <3> QED
        BY <1>0, <2>1, <2>6, <3>1, OnePiece
    <2>7. CASE line.kind \notin {"blank", "comment", "raw", "label", "word", "dword"}
      <3>1. process_line(line) = <<>>
        BY <1>5, <2>7 DEF process_line
      <3> QED
        BY <1>1, <3>1
    <2> QED
      BY <2>2, <2>3, <2>4, <2>5, <2>6, <2>7
  <1> QED
    BY <1>4, <1>5

LEMMA ListedPieces ==
    ASSUME NEW line, NEW words, IsSeq(words)
    PROVE  /\ Pieces(line, Listed(line, words))
           /\ ~Silent(line) => OfBytes(Listed(line, words))
           /\ words # <<>> => Listed(line, words) # <<>>
  <1> DEFINE hs   == Listed(line, words)
             x(j) == HexLine("", <<>>, Bytes(words[j], 4), line, IF j = 1 THEN "" ELSE "more")
             n    == Len(words)
  <1>1. n \in Nat /\ DOMAIN words = 1 .. n
    BY DEF IsSeq
  <1>2. hs = [j \in 1 .. n |-> x(j)]
    BY <1>1 DEF Listed
  <1>3. ASSUME NEW j \in 1 .. n PROVE Piece(line, x(j), j) /\ x(j).bytes \in Seq(Bytes8)
    <2>1. Bytes(words[j], 4) \in Seq(Bytes8)
      BY FieldsFit
    <2> QED
      BY <2>1, ShortTuples DEF Piece, HexLine, Begins
  <1> HIDE DEF x, hs, n
  <1>4. hs = [j \in 1 .. n |-> hs[j]] /\ \A j \in 1 .. n : hs[j] = x(j)
    BY <1>2
  <1>5. Pieces(line, hs) /\ (~Silent(line) => OfBytes(hs))
    <2>1. DOMAIN hs = 1 .. n
      BY <1>4
    <2>2. \A j \in 1 .. n : hs[j].line = line /\ hs[j].bytes \in Seq(Bytes8)
      BY <1>3, <1>4 DEF Piece
    <2>3. Pieces(line, hs)
      BY <1>1, <1>3, <1>4, PiecesByIndex
    <2> QED
      BY <2>1, <2>2, <2>3 DEF OfBytes
  <1>6. words # <<>> => hs # <<>>
    <2>1. words # <<>> => n # 0
      BY DEF IsSeq, n
    <2> QED
      BY <1>1, <1>2, <2>1
  <1> QED
    BY <1>5, <1>6 DEF hs

LEMMA Joined ==
    ASSUME NEW s, IsSeq(s), NEW t, IsSeq(t)
    PROVE  /\ IsSeq(s \o t) /\ Len(s) \in Nat /\ Len(t) \in Nat /\ Len(s \o t) = Len(s) + Len(t)
           /\ DOMAIN s = 1 .. Len(s) /\ DOMAIN t = 1 .. Len(t) /\ DOMAIN (s \o t) = 1 .. Len(s) + Len(t)
           /\ \A i \in 1 .. Len(s) : (s \o t)[i] = s[i]
           /\ \A j \in 1 .. Len(t) : (s \o t)[Len(s) + j] = t[j]
  <1>1. PICK S : s \in Seq(S)
    BY DEF IsSeq
  <1>2. PICK T : t \in Seq(T)
    BY DEF IsSeq
  <1> DEFINE U == S \cup T
  <1>3. s \in Seq(U) /\ t \in Seq(U)
    BY <1>1, <1>2
  <1> HIDE DEF U
  <1>4. s \o t \in Seq(U) /\ Len(s \o t) = Len(s) + Len(t) /\ Len(s) \in Nat /\ Len(t) \in Nat
    BY <1>3
  <1>5. DOMAIN (s \o t) = 1 .. Len(s) + Len(t) /\ DOMAIN s = 1 .. Len(s) /\ DOMAIN t = 1 .. Len(t)
    BY <1>3, <1>4
  <1>6. \A i \in 1 .. Len(s) : (s \o t)[i] = s[i]
    BY <1>3, <1>4
  <1>7. ASSUME NEW j \in 1 .. Len(t) PROVE (s \o t)[Len(s) + j] = t[j]
    BY <1>3, <1>4
  <1> QED
    BY <1>4, <1>5, <1>6, <1>7 DEF IsSeq

\* Finite, because it is of a sequence's domain.
LEMMA FiniteDomain ==
    ASSUME NEW s, IsSeq(s)
    PROVE  IsFiniteSet(DOMAIN s)
  <1>1. DOMAIN s = 1 .. Len(s) /\ Len(s) \in Nat
    BY DEF IsSeq
  <1>2. 1 \in Int /\ Len(s) \in Int
    BY <1>1
  <1> QED
    BY <1>1, <1>2, FS_Interval

\* What one source line becomes, behind what those before have become.
LEMMA CoverOne ==
    ASSUME NEW lines, IsSeq(lines), NEW text, NEW n \in Nat, Covers(lines, text, n),
           NEW hs, IsSeq(hs), hs # <<>>,
           \A i \in DOMAIN hs : hs[i].line = text[n + 1] /\ (Begins(hs[i]) <=> i = 1)
    PROVE  IsSeq(lines \o hs) /\ Covers(lines \o hs, text, n + 1)
  <1> DEFINE all    == lines \o hs
             begin  == {i \in DOMAIN lines : Begins(lines[i])}
             begins == {i \in DOMAIN all : Begins(all[i])}
             first  == Len(lines) + 1
             rank(i)  == {j \in begin : j <= i}
             ranks(i) == {j \in begins : j <= i}
  <1>1. /\ IsSeq(all) /\ Len(lines) \in Nat /\ Len(hs) \in Nat
        /\ DOMAIN lines = 1 .. Len(lines) /\ DOMAIN hs = 1 .. Len(hs) /\ DOMAIN all = 1 .. Len(lines) + Len(hs)
        /\ \A i \in 1 .. Len(lines) : all[i] = lines[i]
        /\ \A j \in 1 .. Len(hs) : all[Len(lines) + j] = hs[j]
    <2>1. IsSeq(lines \o hs) /\ Len(lines) \in Nat /\ Len(hs) \in Nat
      BY Joined
    <2>2. DOMAIN lines = 1 .. Len(lines) /\ DOMAIN hs = 1 .. Len(hs)
      BY Joined
    <2>3. DOMAIN (lines \o hs) = 1 .. Len(lines) + Len(hs)
      BY Joined
    <2>4. \A i \in 1 .. Len(lines) : (lines \o hs)[i] = lines[i]
      BY Joined
    <2>5. \A j \in 1 .. Len(hs) : (lines \o hs)[Len(lines) + j] = hs[j]
      BY Joined
    <2> QED
      BY <2>1, <2>2, <2>3, <2>4, <2>5
  <1>2. Len(hs) # 0
    BY DEF IsSeq
  <1> HIDE DEF all
  <1>3. begins = begin \cup {first} /\ first \notin begin /\ all[first].line = text[n + 1]
    <2>1. ASSUME NEW i \in DOMAIN all PROVE Begins(all[i]) <=> i \in begin \/ i = first
      <3>1. CASE i \in 1 .. Len(lines)
        BY <1>1, <3>1
      <3>2. CASE i \notin 1 .. Len(lines)
        <4>1. i - Len(lines) \in 1 .. Len(hs) /\ Len(lines) + (i - Len(lines)) = i
          BY <1>1, <3>2
        <4>2. all[i] = hs[i - Len(lines)]
          BY <1>1, <4>1
        <4>3. Begins(all[i]) <=> i - Len(lines) = 1
          BY <1>1, <4>1, <4>2
        <4> QED
          BY <1>1, <3>2, <4>1, <4>3
      <3> QED
        BY <3>1, <3>2
    <2>2. first \in DOMAIN all /\ begin \subseteq DOMAIN all /\ first \notin begin
      BY <1>1, <1>2
    <2>3. all[first].line = text[n + 1]
      <3>1. 1 \in 1 .. Len(hs)
        BY <1>1, <1>2
      <3> QED
        BY <1>1, <3>1
    <2> QED
      BY <2>1, <2>2, <2>3
  <1>4. /\ IsFiniteSet(begin) /\ Cardinality(begin) = n
        /\ \A i \in begin : lines[i].line = text[Cardinality(rank(i))]
    <2>1. IsFiniteSet(begin)
      <3>1. IsFiniteSet(DOMAIN lines) /\ begin \subseteq DOMAIN lines
        BY FiniteDomain
      <3> QED
        BY <3>1, FS_Subset
    <2> QED
      BY <2>1 DEF Covers
  <1>5. \A i \in begin : i \in 1 .. Len(lines)
    BY <1>1
  <1> HIDE DEF begin, begins
  <1>6. Cardinality(begins) = n + 1
    BY <1>3, <1>4, FS_AddElement
  <1>7. ASSUME NEW i \in begins PROVE all[i].line = text[Cardinality(ranks(i))]
    <2>1. CASE i = first
      <3>1. ranks(i) = begins
        <4>1. first \in Nat /\ \A j \in begins : j \in 1 .. Len(lines) \/ j = first
          BY <1>1, <1>3, <1>5
        <4>2. \A j \in begins : j <= first
          BY <1>1, <4>1
        <4> QED
          BY <2>1, <4>2
      <3> QED
        BY <1>3, <1>6, <2>1, <3>1
    <2>2. CASE i \in begin
      <3>1. ranks(i) = rank(i)
        BY <1>1, <1>3, <1>5, <2>2
      <3> QED
        BY <1>1, <1>4, <1>5, <2>2, <3>1
    <2> QED
      BY <1>3, <2>1, <2>2
  <1> QED
    BY <1>1, <1>6, <1>7 DEF Covers, all, begins

LEMMA CoverNone ==
    ASSUME NEW text
    PROVE  IsSeq(<<>>) /\ Covers(<<>>, text, 0)
  <1>1. IsSeq(<<>>) /\ {i \in DOMAIN <<>> : Begins(<<>>[i])} = {}
    BY DEF IsSeq
  <1> QED
    BY <1>1, FS_EmptySet DEF Covers

-----------------------------------------------------------------------------
(* Which target is made when *)

Targets3 == {"hex2", "bin", "hex0"}

\* A target is made when those before it are fresh, and no later one is.
InTurn ==
    /\ fresh \in {{}, {"hex2"}, {"hex2", "bin"}, Targets3}
    /\ job \in {"pass1", "pass2", "rv64", "printed"} => fresh = {}
    /\ job \in {"link1", "link2", "linked"} => fresh = {"hex2"}
    /\ job \in {"annotate", "annotated"} => fresh = {"hex2", "bin"}
    /\ job \in {"idle", "pass1", "pass2", "rv64", "printed", "link1", "link2", "linked", "annotate", "annotated", "refused"}
    /\ made \in {"none", "running", "ok", "failed"} /\ spoilt \in BOOLEAN
    /\ made = "ok" => fresh = Targets3

LEMMA WorkGoesOn ==
    ASSUME Work
    PROVE  /\ Assemble \/ Print64 \/ Link \/ Annotate
           /\ UNCHANGED <<assembly, isa, fresh, made, spoilt>>
           /\ Pass1 => job = "pass1" /\ job' \in {"pass1", "pass2", "refused"}
           /\ Pass2 => job = "pass2" /\ job' \in {"pass2", "printed", "refused"}
           /\ Print64 => job = "rv64" /\ job' \in {"rv64", "printed", "refused"}
           /\ Link => job \in {"link1", "link2"} /\ job' \in {"link1", "link2", "linked", "refused"}
           /\ Annotate => job = "annotate" /\ job' \in {"annotate", "annotated", "refused"}
  <1>1. (Assemble \/ Print64 \/ Link \/ Annotate) /\ UNCHANGED <<assembly, isa, fresh, made, spoilt>>
    BY DEF Work, Assembles, Links, Annotates, making
  <1>2. ASSUME Pass1 PROVE job = "pass1" /\ job' \in {"pass1", "pass2", "refused"}
    <2>1. ASSUME NEW type, NEW size, Parse(type, size) PROVE job = "pass1" /\ job' = "pass1"
      BY <2>1 DEF Parse, Meets, Advance
    <2>2. ParseRefuses => job = "pass1" /\ job' = "refused"
      BY DEF ParseRefuses, Meets, Exits
    <2>3. Pass1Ends => job = "pass1" /\ job' = "pass2"
      BY DEF Pass1Ends, Begin
    <2> QED
      BY <1>2, <2>1, <2>2, <2>3 DEF Pass1, ParseNothing, ParseLabel, ParseRaw, ParseWord, ParseZero, ParseAlign,
         ParseInstruction
  <1>3. ASSUME Pass2 PROVE job = "pass2" /\ job' \in {"pass2", "printed", "refused"}
    <2>1. ASSUME NEW type, NEW lines, NEW size, Emit(type, lines, size) PROVE job = "pass2" /\ job' = "pass2"
      BY <2>1 DEF Emit, Advance
    <2>2. EmitRefuses => job = "pass2" /\ job' = "refused"
      BY DEF EmitRefuses, Exits
    <2>3. Pass2Ends => job = "pass2" /\ job' = "printed"
      BY DEF Pass2Ends, Exits
    <2>4. EmitNothing \/ EmitLabel \/ EmitRaw \/ EmitWord \/ EmitZeros => job = "pass2" /\ job' = "pass2"
      BY <2>1 DEF EmitNothing, EmitLabel, EmitRaw, EmitWord, EmitZeros
    <2>5. EmitInstruction => job = "pass2" /\ job' = "pass2"
      BY <2>1 DEF EmitInstruction
    <2> QED
      BY <1>3, <2>2, <2>3, <2>4, <2>5 DEF Pass2
  <1>4. Print64 => job = "rv64" /\ job' \in {"rv64", "printed", "refused"}
    BY DEF Print64, PrintLine, RefuseLine, PrintEnds, Advance, Exits
  <1>5. Link => job \in {"link1", "link2"} /\ job' \in {"link1", "link2", "linked", "refused"}
    BY DEF Link, LinkCounts, LinkTurns, LinkWrites, LinkRefuses, LinkEnds, Begin, Advance, Exits
  <1>6. Annotate => job = "annotate" /\ job' \in {"annotate", "annotated", "refused"}
    BY DEF Annotate, CopyLine, AnnotateLine, AnnotateRefuses, AnnotateEnds, Advance, Exits
  <1> QED
    BY <1>1, <1>2, <1>3, <1>4, <1>5, <1>6

LEMMA TurnKept ==
    ASSUME Ordered, InTurn, [ToolsNext]_tools
    PROVE  InTurn'
  <1> USE DEF InTurn, Targets3
  <1>1. CASE Edit
    BY <1>1 DEF Edit, Outdated, reading, Ordered
  <1>2. CASE Make
    BY <1>2 DEF Make, reading
  <1>3. CASE RunAssembler
    <2>1. fresh = {} /\ UNCHANGED <<fresh, made, spoilt>> /\ made = "running" /\ job' \in {"pass1", "rv64"}
      BY <1>3 DEF RunAssembler, Runs, A64Begins, Rv64Begins, Begin, making
    <2> QED
      BY <2>1
  <1>4. CASE RunLinker
    <2>1. fresh = {"hex2"} /\ UNCHANGED <<fresh, made, spoilt>> /\ made = "running" /\ job' = "link1"
      BY <1>4 DEF RunLinker, Runs, LinkBegins, Begin, making
    <2> QED
      BY <2>1
  <1>5. CASE RunHex2ToHex0
    <2>1. fresh = {"hex2", "bin"} /\ UNCHANGED <<fresh, made, spoilt>> /\ made = "running" /\ job' = "annotate"
      BY <1>5 DEF RunHex2ToHex0, Runs, AnnotateBegins, Begin, making
    <2> QED
      BY <2>1
  <1>6. CASE Work
    BY <1>6, WorkGoesOn DEF Assemble
  <1>7. CASE RecipeEnds
    <2>1. job' = "idle" /\ made' \in {"running", "failed"} /\ spoilt' \in BOOLEAN
      BY <1>7 DEF RecipeEnds
    <2>2. fresh' = fresh \cup {IF "hex2" \notin fresh THEN "hex2" ELSE IF "bin" \notin fresh THEN "bin" ELSE "hex0"}
      BY <1>7 DEF RecipeEnds, Renewed, Target0
    <2>3. fresh' \in {{"hex2"}, {"hex2", "bin"}, Targets3}
      BY <2>2
    <2> QED
      BY <2>1, <2>3
  <1>8. CASE MakeEnds
    BY <1>8 DEF MakeEnds, reading
  <1>9. CASE UNCHANGED tools
    BY <1>9 DEF tools, reading, making
  <1> QED
    BY <1>1, <1>2, <1>3, <1>4, <1>5, <1>6, <1>7, <1>8, <1>9 DEF ToolsNext, MakeGoesOn

-----------------------------------------------------------------------------
(* The lines of the source, from file to file *)

\* The first n lines of the source are in these.
Lined(lines, n) == IsSeq(lines) /\ n \in 0 .. Len(assembly) /\ Covers(lines, assembly, n)

\* The first n lines of the one file are in the other.
Copies(from, to, n) ==
    /\ IsSeq(to) /\ Len(to) = n
    /\ \A i \in 1 .. n : to[i].line = from[i].line /\ to[i].part = from[i].part

Rendering ==
    /\ job = "pass1" => listing = <<>>
    /\ job = "pass2" => Lined(listing, at)
    /\ job = "rv64" => Lined(hex2, at)
    /\ job = "printed" => Lined(hex2, Len(assembly))
    /\ "hex2" \in fresh /\ ~spoilt => Lined(hex2, Len(assembly))
    /\ job \in {"annotate", "annotated"} /\ ~spoilt => at \in 0 .. Len(hex2) /\ Copies(hex2, hex0, at)
    /\ job = "annotated" /\ ~spoilt => at = Len(hex2)
    /\ "hex0" \in fresh /\ ~spoilt => Copies(hex2, hex0, Len(hex2))

RInv == Ordered /\ InTurn /\ Rendering

LEMMA SourceIsSeq ==
    ASSUME Ordered
    PROVE  IsSeq(assembly) /\ Len(assembly) \in Nat /\ DOMAIN assembly = 1 .. Len(assembly) /\ at \in Nat
  <1>1. PICK s \in Sources : s.isa = isa /\ assembly = s.lines
    BY DEF Ordered
  <1>2. assembly \in Seq(Range(assembly))
    BY <1>1, SourcesAssumption
  <1> QED
    BY <1>2 DEF IsSeq, Ordered

\* One line further.
LEMMA LinedOne ==
    ASSUME Ordered, NEW lines, Lined(lines, at), at + 1 \in 1 .. Len(assembly),
           NEW hs, Pieces(assembly[at + 1], hs), hs # <<>>
    PROVE  Lined(lines \o hs, at + 1)
  <1>1. Len(assembly) \in Nat /\ at \in Nat
    BY SourceIsSeq
  <1>2. IsSeq(hs) /\ \A i \in DOMAIN hs : hs[i].line = assembly[at + 1] /\ (Begins(hs[i]) <=> i = 1)
    BY DEF Pieces, Piece
  <1>3. IsSeq(lines) /\ Covers(lines, assembly, at)
    BY DEF Lined
  <1>4. IsSeq(lines \o hs) /\ Covers(lines \o hs, assembly, at + 1)
    BY <1>1, <1>2, <1>3, CoverOne
  <1> QED
    BY <1>1, <1>4 DEF Lined

\* Whatever pass 2 emits for a line, it is that line.
Emits == \E type, size : \E hs : Emit(type, hs, size) /\ hs # <<>> /\ Pieces(Here, hs)

LEMMA EmitsItsLine ==
    ASSUME Pass2
    PROVE  Emits \/ EmitRefuses \/ Pass2Ends
  <1>1. ASSUME NEW type, NEW bytes, NEW size, Emit(type, Bare(bytes), size) PROVE Emits
    <2>1. Pieces(Here, Bare(bytes)) /\ Bare(bytes) # <<>>
      BY OnePiece DEF Bare
    <2> QED
      BY <1>1, <2>1 DEF Emits
  <1>2. EmitNothing => Emits
    BY <1>1 DEF EmitNothing
  <1>3. EmitLabel => Emits
    BY OnePiece DEF EmitLabel, Emits
  <1>4. EmitRaw => Emits
    BY <1>1 DEF EmitRaw
  <1>5. EmitWord => Emits
    BY <1>1 DEF EmitWord
  <1>6. EmitZeros => Emits
    BY <1>1 DEF EmitZeros
  <1>7. EmitInstruction => Emits
    BY EncodingIsSeq, ListedPieces DEF EmitInstruction, Emits
  <1> QED
    BY <1>2, <1>3, <1>4, <1>5, <1>6, <1>7 DEF Pass2

LEMMA AssemblersRender ==
    ASSUME RInv, Work, Assemble \/ Print64
    PROVE  Rendering'
  <1>1. /\ UNCHANGED <<assembly, isa, fresh, made, spoilt>> /\ fresh = {}
        /\ Pass1 => job = "pass1" /\ job' \in {"pass1", "pass2", "refused"}
        /\ Pass2 => job = "pass2" /\ job' \in {"pass2", "printed", "refused"}
        /\ Print64 => job = "rv64" /\ job' \in {"rv64", "printed", "refused"}
    <2>1. job \in {"pass1", "pass2", "rv64"}
      BY WorkGoesOn DEF Assemble
    <2> QED
      BY <2>1, WorkGoesOn DEF RInv, InTurn
  <1>2. IsSeq(assembly) /\ Len(assembly) \in Nat /\ DOMAIN assembly = 1 .. Len(assembly) /\ at \in Nat /\ Ordered
    BY SourceIsSeq DEF RInv
  <1>3. CASE Pass1
    <2>1. listing = <<>> /\ listing' = listing /\ (job' = "pass2" => at' = 0)
      <3>1. ASSUME NEW type, NEW size, Parse(type, size) PROVE listing' = listing /\ job' = "pass1"
        BY <3>1, <1>1, <1>3 DEF Parse, Advance, Meets
      <3>2. ParseRefuses => listing' = listing /\ job' = "refused"
        BY DEF ParseRefuses, asm64, Exits
      <3>3. Pass1Ends => listing' = listing /\ at' = 0
        BY DEF Pass1Ends, asm64, Begin
      <3>4. listing' = listing /\ (job' = "pass2" => at' = 0)
        BY <1>3, <3>1, <3>2, <3>3 DEF Pass1, ParseNothing, ParseLabel, ParseRaw, ParseWord, ParseZero, ParseAlign,
           ParseInstruction
      <3> QED
        BY <1>1, <1>3, <3>4 DEF RInv, Rendering
    <2>2. job' = "pass2" => Lined(listing, 0)'
      BY <1>1, <1>2, <2>1, CoverNone DEF Lined
    <2> QED
      BY <1>1, <1>3, <2>1, <2>2 DEF Rendering
  <1>4. CASE Pass2
    <2>1. Lined(listing, at)
      BY <1>1, <1>4 DEF RInv, Rendering
    <2>2. CASE Emits
      <3>1. PICK type, size : \E hs : Emit(type, hs, size) /\ hs # <<>> /\ Pieces(Here, hs)
        BY <2>2 DEF Emits
      <3>2. PICK hs : Emit(type, hs, size) /\ hs # <<>> /\ Pieces(Here, hs)
        BY <3>1
      <3>3. at # Len(assembly) /\ at' = at + 1 /\ job' = "pass2" /\ listing' = listing \o hs
        BY <1>1, <1>4, <3>2 DEF Emit, AtEndOf, Advance
      <3>4. at + 1 \in 1 .. Len(assembly)
        <4>1. at \in 0 .. Len(assembly)
          BY <2>1 DEF Lined
        <4>2. at # Len(assembly) /\ Len(assembly) \in Nat
          BY <1>2, <3>3
        <4> QED
          BY <4>1, <4>2
      <3>5. Lined(listing \o hs, at + 1)
        BY <1>2, <2>1, <3>2, <3>4, LinedOne DEF Here
      <3>6. Lined(listing, at)'
        BY <1>1, <3>3, <3>5 DEF Lined
      <3> QED
        BY <1>1, <3>3, <3>6 DEF Rendering
    <2>3. CASE EmitRefuses
      BY <1>1, <2>3 DEF EmitRefuses, Exits, Rendering
    <2>4. CASE Pass2Ends
      <3>1. at = Len(assembly) /\ hex2' = listing /\ job' = "printed"
        BY <2>4 DEF Pass2Ends, AtEndOf, Exits
      <3>2. Lined(hex2, Len(assembly))'
        BY <1>1, <2>1, <3>1 DEF Lined
      <3> QED
        BY <1>1, <3>1, <3>2 DEF Rendering
    <2> QED
      BY <1>4, <2>2, <2>3, <2>4, EmitsItsLine
  <1>5. CASE Print64
    <2>1. Lined(hex2, at)
      BY <1>1, <1>5 DEF RInv, Rendering
    <2>2. CASE PrintLine
      <3>1. PICK i \in DOMAIN assembly : /\ AtLine(i, assembly) /\ process_line(assembly[i]) # <<>>
                                         /\ hex2' = hex2 \o process_line(assembly[i]) /\ Advance(0)
        BY <2>2 DEF PrintLine
      <3>2. i = at + 1 /\ at + 1 \in 1 .. Len(assembly) /\ at' = at + 1 /\ job' = "rv64"
        BY <1>1, <1>2, <1>5, <3>1 DEF AtLine, Advance
      <3>3. Lined(hex2 \o process_line(assembly[at + 1]), at + 1)
        BY <1>2, <2>1, <3>1, <3>2, LinedOne, Rv64Pieces
      <3>4. Lined(hex2, at)'
        BY <1>1, <3>1, <3>2, <3>3 DEF Lined
      <3> QED
        BY <1>1, <3>2, <3>4 DEF Rendering
    <2>3. CASE RefuseLine
      BY <1>1, <2>3 DEF RefuseLine, Exits, Rendering
    <2>4. CASE PrintEnds
      <3>1. at = Len(assembly) /\ hex2' = hex2 /\ job' = "printed"
        BY <2>4 DEF PrintEnds, AtEndOf, Exits
      <3>2. Lined(hex2, Len(assembly))'
        BY <1>1, <2>1, <3>1 DEF Lined
      <3> QED
        BY <1>1, <3>1, <3>2 DEF Rendering
    <2> QED
      BY <1>5, <2>2, <2>3, <2>4 DEF Print64
  <1> QED
    BY <1>3, <1>4, <1>5 DEF Assemble

\* hex2tohex0.py takes over a line.
LEMMA CopyOne ==
    ASSUME NEW n \in Nat, NEW from, NEW to, Copies(from, to, n), NEW bytes
    PROVE  Copies(from, Append(to, Hex0Line(from[n + 1], bytes)), n + 1)
  <1> DEFINE x   == Hex0Line(from[n + 1], bytes)
             to2 == Append(to, x)
  <1>1. x.line = from[n + 1].line /\ x.part = from[n + 1].part
    BY DEF Hex0Line
  <1> HIDE DEF x
  <1>2. IsSeq(to) /\ Len(to) = n
    BY DEF Copies
  <1>3. /\ IsSeq(to2) /\ Len(to2) = n + 1
        /\ \A j \in 1 .. n : to2[j] = to[j]
        /\ to2[n + 1] = x
    BY <1>2, AppendOne
  <1> HIDE DEF to2
  <1>4. ASSUME NEW j \in 1 .. n + 1 PROVE to2[j].line = from[j].line /\ to2[j].part = from[j].part
    <2>1. CASE j = n + 1
      BY <1>1, <1>3, <2>1
    <2>2. CASE j \in 1 .. n
      BY <1>3, <2>2 DEF Copies
    <2> QED
      BY <2>1, <2>2
  <1>5. Copies(from, to2, n + 1)
    BY <1>3, <1>4 DEF Copies
  <1> QED
    BY <1>5 DEF to2, x

LEMMA OthersRender ==
    ASSUME RInv, Work, Link \/ Annotate
    PROVE  Rendering'
  <1>1. UNCHANGED <<assembly, isa, fresh, made, spoilt, hex2>>
    <2>1. ~Print64 /\ ~Assemble
      BY WorkGoesOn DEF Assemble
    <2> QED
      BY <2>1, WorkGoesOn DEF Work, Assembles, Links, Annotates
  <1>2. "hex2" \in fresh /\ ~spoilt => Lined(hex2, Len(assembly)) /\ Lined(hex2, Len(assembly))'
    BY <1>1 DEF RInv, Rendering, Lined
  <1>3. CASE Link
    <2>1. job' \in {"link1", "link2", "linked", "refused"} /\ fresh = {"hex2"}
      BY <1>3, WorkGoesOn DEF RInv, InTurn
    <2> QED
      BY <1>1, <1>2, <2>1 DEF Rendering
  <1>4. CASE Annotate
    <2>1. job = "annotate" /\ job' \in {"annotate", "annotated", "refused"} /\ fresh = {"hex2", "bin"}
      BY <1>4, WorkGoesOn DEF RInv, InTurn
    <2>2. CASE spoilt
      BY <1>1, <2>1, <2>2 DEF Rendering
    <2>3. CASE ~spoilt
      <3>1. /\ at \in 0 .. Len(hex2) /\ Copies(hex2, hex0, at) /\ Lined(hex2, Len(assembly))
            /\ Len(hex2) \in Nat /\ DOMAIN hex2 = 1 .. Len(hex2)
        BY <1>2, <2>1, <2>3 DEF RInv, Rendering, Lined, IsSeq
      <3>2. CASE CopyLine \/ AnnotateLine
        <4>1. PICK i \in DOMAIN hex2 : \E bytes : /\ AtLine(i, hex2) /\ hex0' = Append(hex0, Hex0Line(hex2[i], bytes))
                                                  /\ at' = at + 1 /\ job' = job
          BY <3>2 DEF CopyLine, AnnotateLine, Advance
        <4>2. i = at + 1 /\ at + 1 \in 1 .. Len(hex2)
          BY <3>1, <4>1 DEF AtLine
        <4>3. PICK bytes : hex0' = Append(hex0, Hex0Line(hex2[at + 1], bytes))
          BY <4>1, <4>2
        <4>4. Copies(hex2, Append(hex0, Hex0Line(hex2[at + 1], bytes)), at + 1)
          BY <3>1, CopyOne
        <4>5. at' = at + 1 /\ job' = "annotate"
          BY <2>1, <4>1
        <4>6. Copies(hex2, hex0, at)'
          BY <1>1, <4>3, <4>4, <4>5
        <4> QED
          BY <1>1, <1>2, <2>1, <4>2, <4>5, <4>6 DEF Rendering
      <3>3. CASE AnnotateRefuses
        BY <1>1, <1>2, <2>1, <3>3 DEF AnnotateRefuses, Exits, Rendering
      <3>4. CASE AnnotateEnds
        <4>1. at = Len(hex2) /\ hex0' = hex0 /\ at' = at /\ job' = "annotated"
          BY <3>4 DEF AnnotateEnds, AtEndOf, Exits
        <4>2. Copies(hex2, hex0, at)'
          BY <1>1, <3>1, <4>1 DEF Copies
        <4> QED
          BY <1>1, <1>2, <2>1, <3>1, <4>1, <4>2 DEF Rendering
      <3> QED
        BY <1>4, <3>2, <3>3, <3>4 DEF Annotate
    <2> QED
      BY <2>2, <2>3
  <1> QED
    BY <1>3, <1>4

LEMMA RenderingKept ==
    ASSUME RInv, [ToolsNext]_tools
    PROVE  Rendering'
  <1>1. CASE UNCHANGED <<assembly, hex2, hex0, listing, job, at, fresh, spoilt>>
    BY <1>1 DEF RInv, Rendering, Lined, Copies
  <1>2. CASE Edit
    BY <1>2 DEF Edit, Outdated, reading, RInv, Ordered, Rendering
  <1>3. CASE RunAssembler
    <2>1. fresh = {} /\ UNCHANGED <<assembly, fresh, spoilt>>
      BY <1>3 DEF RunAssembler, Runs, making, RInv, InTurn, Targets3
    <2>2. CASE A64Begins
      BY <2>1, <2>2 DEF A64Begins, Begin, Rendering
    <2>3. CASE Rv64Begins
      <3>1. job' = "rv64" /\ at' = 0 /\ hex2' = <<>>
        BY <2>3 DEF Rv64Begins, Begin
      <3>2. Len(assembly) \in Nat
        BY SourceIsSeq DEF RInv
      <3>3. Lined(hex2, at)'
        BY <2>1, <3>1, <3>2, CoverNone DEF Lined
      <3> QED
        BY <2>1, <3>1, <3>3 DEF Rendering
    <2> QED
      BY <1>3, <2>2, <2>3 DEF RunAssembler
  <1>4. CASE RunLinker
    <2>1. fresh = {"hex2"} /\ UNCHANGED <<assembly, fresh, spoilt, hex2>> /\ job' = "link1"
      BY <1>4 DEF RunLinker, Runs, LinkBegins, Begin, making, RInv, InTurn, Targets3
    <2>2. ~spoilt => Lined(hex2, Len(assembly))'
      BY <2>1 DEF RInv, Rendering, Lined
    <2> QED
      BY <2>1, <2>2 DEF Rendering
  <1>5. CASE RunHex2ToHex0
    <2>1. /\ fresh = {"hex2", "bin"} /\ UNCHANGED <<assembly, fresh, spoilt, hex2>>
          /\ job' = "annotate" /\ at' = 0 /\ hex0' = <<>>
      BY <1>5 DEF RunHex2ToHex0, Runs, AnnotateBegins, Begin, making, RInv, InTurn, Targets3
    <2>2. ~spoilt => Lined(hex2, Len(assembly))'
      BY <2>1 DEF RInv, Rendering, Lined
    <2>3. Copies(hex2, hex0, at)'
      BY <2>1, CoverNone DEF Copies
    <2>4. ~spoilt => at' \in 0 .. Len(hex2')
      BY <2>1, <2>2 DEF Lined, IsSeq
    <2> QED
      BY <2>1, <2>2, <2>3, <2>4 DEF Rendering
  <1>6. CASE Work
    BY <1>6, WorkGoesOn, AssemblersRender, OthersRender
  <1>7. CASE RecipeEnds
    <2>1. /\ UNCHANGED <<assembly, hex2, hex0, listing, at>> /\ job' = "idle" /\ spoilt' = (spoilt \/ job = "refused")
          /\ job \in {"printed", "linked", "annotated", "refused"}
          /\ fresh' = fresh \cup {IF "hex2" \notin fresh THEN "hex2" ELSE IF "bin" \notin fresh THEN "bin" ELSE "hex0"}
      BY <1>7 DEF RecipeEnds, Renewed, Target0, asm64
    <2>2. CASE spoilt'
      BY <2>1, <2>2 DEF Rendering
    <2>3. CASE ~spoilt' /\ job = "printed"
      <3>1. fresh = {} /\ Lined(hex2, Len(assembly))
        BY <2>3 DEF RInv, InTurn, Rendering
      <3>2. fresh' = {"hex2"} /\ Lined(hex2, Len(assembly))'
        BY <2>1, <3>1 DEF Lined
      <3> QED
        BY <2>1, <3>2 DEF Rendering
    <2>4. CASE ~spoilt' /\ job = "linked"
      <3>1. fresh = {"hex2"} /\ Lined(hex2, Len(assembly))
        BY <2>1, <2>4 DEF RInv, InTurn, Rendering
      <3>2. fresh' = {"hex2", "bin"} /\ Lined(hex2, Len(assembly))'
        BY <2>1, <3>1 DEF Lined
      <3> QED
        BY <2>1, <3>2 DEF Rendering
    <2>5. CASE ~spoilt' /\ job = "annotated"
      <3>1. fresh = {"hex2", "bin"} /\ Lined(hex2, Len(assembly)) /\ Copies(hex2, hex0, Len(hex2))
        BY <2>1, <2>5 DEF RInv, InTurn, Rendering
      <3>2. Lined(hex2, Len(assembly))' /\ Copies(hex2, hex0, Len(hex2))'
        BY <2>1, <3>1 DEF Lined, Copies
      <3> QED
        BY <2>1, <3>2 DEF Rendering
    <2> QED
      BY <2>1, <2>2, <2>3, <2>4, <2>5
  <1>8. Make \/ MakeEnds \/ UNCHANGED tools => UNCHANGED <<assembly, hex2, hex0, listing, job, at, fresh, spoilt>>
    BY DEF Make, MakeEnds, tools, reading, making, asm64
  <1> QED
    BY <1>1, <1>2, <1>3, <1>4, <1>5, <1>6, <1>7, <1>8 DEF ToolsNext, MakeGoesOn

LEMMA RenderingInvariant == ToolsSpec => []RInv
  <1>1. ToolsInit => RInv
    <2> SUFFICES ASSUME ToolsInit PROVE RInv
      OBVIOUS
    <2>1. Ordered
      BY DEF ToolsInit, Written, Ordered, Later
    <2>2. InTurn /\ Rendering
      BY DEF ToolsInit, Written, InTurn, Rendering
    <2> QED
      BY <2>1, <2>2 DEF RInv
  <1>2. RInv /\ [ToolsNext]_tools => RInv'
    <2> SUFFICES ASSUME RInv, [ToolsNext]_tools PROVE RInv'
      OBVIOUS
    <2> QED
      BY OrderKept, TurnKept, RenderingKept DEF RInv
  <1> QED
    BY <1>1, <1>2, PTL DEF ToolsSpec

\* Whatever the sources are, and however often they are edited and made: a
\* .hex0 file that make is content with, no recipe having failed since the .S
\* file was written, has the lines of that .S file, each once, in their order.
THEOREM HasItsLines == ToolsSpec => []MakesTheSource
  <1>1. RInv => MakesTheSource
    <2> SUFFICES ASSUME RInv, made = "ok", ~spoilt PROVE Covers(hex0, assembly, Len(assembly))
      BY DEF MakesTheSource, Made
    <2>1. Lined(hex2, Len(assembly)) /\ Copies(hex2, hex0, Len(hex2))
      BY DEF RInv, InTurn, Rendering, Targets3
    <2>2. DOMAIN hex0 = 1 .. Len(hex2) /\ DOMAIN hex2 = 1 .. Len(hex2)
      BY <2>1 DEF Lined, Copies, IsSeq
    <2>3. \A i \in DOMAIN hex2 : hex0[i].line = hex2[i].line /\ (Begins(hex0[i]) <=> Begins(hex2[i]))
      BY <2>1, <2>2 DEF Copies, Begins
    <2>4. {i \in DOMAIN hex0 : Begins(hex0[i])} = {i \in DOMAIN hex2 : Begins(hex2[i])}
      BY <2>2, <2>3
    <2>5. Covers(hex2, assembly, Len(assembly))
      BY <2>1 DEF Lined
    <2> QED
      BY <2>3, <2>4, <2>5 DEF Covers
  <1> QED
    BY <1>1, RenderingInvariant, PTL

-----------------------------------------------------------------------------
(* The types of the tools *)

\* Lines of a hex2 file, as they are written.
HexLines(lines) ==
    /\ IsSeq(lines)
    /\ \A i \in DOMAIN lines : /\ AllRefs(lines[i].refs) /\ (lines[i].refs = <<>> \/ Len(lines[i].bytes) = 4)
                               /\ lines[i].bytes \in Seq(Bytes8)
                               /\ Silent(lines[i].line) => lines[i].bytes = <<>>

\* Pass 1 has stored n lines.
Stored1(n) ==
    /\ IsSeq(parsed) /\ Len(parsed) = n /\ n \in 0 .. Len(assembly)
    /\ \A i \in 1 .. n : parsed[i].type = TypeOf(assembly[i]) /\ parsed[i].size \in Nat

OfNats(t) == \A l \in DOMAIN t : t[l] \in Nat

TypesHold ==
    /\ addr \in Nat /\ OfNats(labels) /\ OfNats(targets)
    /\ shift \in Words32 /\ bin \in Seq(Bytes8)
    /\ HexLines(listing) /\ HexLines(hex2)
    /\ IsSeq(hex0) /\ OfBytes(hex0)
    /\ job = "pass1" => Stored1(at)
    /\ job = "pass2" => Stored1(Len(assembly)) /\ at \in 0 .. Len(assembly)

TInv == Ordered /\ InTurn /\ TypesHold

LEMMA LegibleSource ==
    ASSUME AllLegible(Sources), Ordered
    PROVE  \A i \in 1 .. Len(assembly) : Legible(assembly[i])
  <1>1. PICK s \in Sources : s.isa = isa /\ assembly = s.lines
    BY DEF Ordered
  <1>2. DOMAIN assembly = 1 .. Len(assembly)
    BY SourceIsSeq
  <1> QED
    BY <1>1, <1>2 DEF AllLegible

LEMMA TypedJoin ==
    ASSUME NEW lines, HexLines(lines), NEW line, NEW hs, Pieces(line, hs), OfBytes(hs)
    PROVE  HexLines(lines \o hs)
  <1>1. IsSeq(lines) /\ IsSeq(hs)
    BY DEF HexLines, Pieces
  <1>2. /\ IsSeq(lines \o hs)
        /\ \A i \in DOMAIN (lines \o hs) : \/ i \in DOMAIN lines /\ (lines \o hs)[i] = lines[i]
                                          \/ \E j \in DOMAIN hs : (lines \o hs)[i] = hs[j]
    BY <1>1, Behind2
  <1>3. \A j \in DOMAIN hs : /\ AllRefs(hs[j].refs) /\ (hs[j].refs = <<>> \/ Len(hs[j].bytes) = 4)
                             /\ hs[j].bytes \in Seq(Bytes8)
                             /\ Silent(hs[j].line) => hs[j].bytes = <<>>
    BY DEF Pieces, Piece, OfBytes
  <1> QED
    BY <1>2, <1>3 DEF HexLines

LEMMA NothingTyped == HexLines(<<>>) /\ IsSeq(<<>>) /\ OfBytes(<<>>) /\ <<>> \in Seq(Bytes8) /\ OfNats(<<>>) /\ {} \in Words32
  BY DEF HexLines, IsSeq, OfBytes, OfNats, Words32

\* Sizes that pass 1 stores are numbers.
LEMMA ParseTypes ==
    ASSUME AllLegible(Sources), TInv, Pass1, UNCHANGED <<assembly, hex2, bin, hex0, linking>>
    PROVE  TypesHold'
  <1>1. IsSeq(assembly) /\ Len(assembly) \in Nat /\ at \in Nat /\ \A i \in 1 .. Len(assembly) : Legible(assembly[i])
    BY SourceIsSeq, LegibleSource DEF TInv
  <1>2. ASSUME NEW type, NEW size, Parse(type, size)
        PROVE  /\ Stored1(at) /\ at + 1 \in 1 .. Len(assembly) /\ Legible(Here) /\ TypeOf(Here) = type /\ listing' = listing
               /\ parsed' = Append(parsed, [type |-> type, size |-> size]) /\ job' = "pass1" /\ at' = at + 1
               /\ addr' = addr + size
    <2>1. job = "pass1" /\ at # Len(assembly) /\ TypeOf(Here) = type
      BY <1>2 DEF Parse, Meets, AtEndOf
    <2>2. at \in 0 .. Len(assembly) /\ Stored1(at)
      BY <2>1 DEF TInv, TypesHold, Stored1
    <2>3. at + 1 \in 1 .. Len(assembly)
      BY <1>1, <2>1, <2>2
    <2> QED
      BY <1>1, <1>2, <2>1, <2>2, <2>3 DEF Here, Parse, Advance
  <1>3. ASSUME NEW type, NEW size \in Nat, Parse(type, size), OfNats(labels')
        PROVE  TypesHold'
    <2>0. /\ Stored1(at) /\ at + 1 \in 1 .. Len(assembly) /\ TypeOf(Here) = type /\ listing' = listing
          /\ parsed' = Append(parsed, [type |-> type, size |-> size]) /\ job' = "pass1" /\ at' = at + 1
          /\ addr' = addr + size
      BY <1>2, <1>3, Zenon
    <2> DEFINE e == [type |-> type, size |-> size]
    <2>1. e.type = TypeOf(assembly[at + 1]) /\ e.size \in Nat /\ parsed' = Append(parsed, e)
      BY <1>3, <2>0 DEF Here
    <2> HIDE DEF e
    <2>2. /\ IsSeq(parsed') /\ Len(parsed') = at + 1
          /\ \A i \in 1 .. at : parsed'[i] = parsed[i]
          /\ parsed'[at + 1] = e
      BY <2>0, <2>1, AppendOne DEF Stored1
    <2>3. ASSUME NEW i \in 1 .. at + 1 PROVE parsed'[i].type = TypeOf(assembly[i]) /\ parsed'[i].size \in Nat
      <3>1. CASE i = at + 1
        BY <2>1, <2>2, <3>1
      <3>2. CASE i \in 1 .. at
        BY <2>0, <2>2, <3>2 DEF Stored1
      <3> QED
        BY <1>1, <3>1, <3>2
    <2>4. Stored1(at)'
      <3>1. assembly' = assembly /\ at' = at + 1 /\ at + 1 \in 0 .. Len(assembly)
        BY <1>1, <2>0
      <3>2. \A line : TypeOf(line)' = TypeOf(line)
        BY DEF TypeOf
      <3> QED
        BY <2>2, <2>3, <3>1 DEF Stored1, TypeOf
    <2>5. job' = "pass1" /\ addr' \in Nat /\ listing' = listing
      BY <1>3, <2>0 DEF TInv, TypesHold
    <2> QED
      BY <1>3, <2>4, <2>5 DEF TypesHold, TInv, linking, HexLines, OfBytes, OfNats
  <1>4. OfNats(labels) /\ OfNats(LabelHere) /\ addr \in Nat
    BY DEF TInv, TypesHold, OfNats, LabelHere
  <1>5. CASE ParseNothing
    BY <1>3, <1>4, <1>5 DEF ParseNothing
  <1>6. CASE ParseLabel
    BY <1>3, <1>4, <1>6 DEF ParseLabel
  <1>7. CASE ParseRaw
    <2>1. Parse("raw", Len(Here.bytes)) /\ labels' = labels
      BY <1>7 DEF ParseRaw
    <2>2. Here.kind = "raw" /\ Legible(Here)
      BY <1>2, <2>1 DEF TypeOf
    <2>3. Here.bytes \in Seq(Bytes8)
      BY <2>2 DEF Legible, Bytes8
    <2>4. Len(Here.bytes) \in Nat
      BY <2>3
    <2> QED
      BY <1>3, <1>4, <2>1, <2>4
  <1>8. CASE ParseWord
    <2>1. PICK type \in DOMAIN Sizes : Parse(type, Sizes[type]) /\ UNCHANGED labels
      BY <1>8 DEF ParseWord
    <2>2. Sizes[type] \in Nat
      BY <2>1 DEF Sizes
    <2> QED
      BY <1>3, <1>4, <2>1, <2>2
  <1>9. CASE ParseZero
    <2>1. Parse("zero", Here.n) /\ labels' = labels
      BY <1>9 DEF ParseZero
    <2>2. Here.kind = "zero" /\ Legible(Here)
      BY <1>2, <2>1 DEF TypeOf
    <2>3. Here.n \in Nat
      BY <2>2 DEF Legible
    <2> QED
      BY <1>3, <1>4, <2>1, <2>3
  <1>10. CASE ParseAlign
    <2>1. Parse("align", Padding(Here.n)) /\ labels' = labels
      BY <1>10 DEF ParseAlign
    <2>2. Here.kind = "align" /\ Legible(Here)
      BY <1>2, <2>1 DEF TypeOf
    <2>3. 2^Here.n \in Nat \ {0}
      BY <2>2 DEF Legible
    <2>4. Padding(Here.n) \in Nat
      BY <1>4, <2>3, PaddingIsNat DEF Padding
    <2> QED
      BY <1>3, <1>4, <2>1, <2>4
  <1>11. CASE ParseInstruction
    BY <1>3, <1>4, <1>11 DEF ParseInstruction
  <1>12. CASE ParseRefuses
    <2>1. UNCHANGED asm64 /\ addr' = addr /\ job' = "refused"
      BY <1>12 DEF ParseRefuses, Exits
    <2> QED
      BY <2>1 DEF TypesHold, TInv, linking, asm64, HexLines, OfBytes, OfNats
  <1>13. CASE Pass1Ends
    <2>1. UNCHANGED asm64 /\ addr' = 0 /\ at' = 0 /\ job = "pass1" /\ job' = "pass2" /\ at = Len(assembly)
      BY <1>13 DEF Pass1Ends, Begin, AtEndOf
    <2>2. Stored1(Len(assembly))
      BY <2>1 DEF TInv, TypesHold
    <2>3. Stored1(Len(assembly))'
      BY <2>1, <2>2 DEF Stored1, asm64, TypeOf
    <2>4. at' \in 0 .. Len(assembly')
      BY <1>1, <2>1
    <2> QED
      BY <2>1, <2>3, <2>4 DEF TypesHold, TInv, linking, asm64, HexLines, OfBytes, OfNats
  <1> QED
    BY <1>5, <1>6, <1>7, <1>8, <1>9, <1>10, <1>11, <1>12, <1>13 DEF Pass1

\* Pass 2 writes bytes, as many as they are.
LEMMA EmitTypes ==
    ASSUME AllLegible(Sources), TInv, Pass2, UNCHANGED <<assembly, bin, hex0, linking>>
    PROVE  TypesHold'
  <1>1. IsSeq(assembly) /\ Len(assembly) \in Nat /\ \A i \in 1 .. Len(assembly) : Legible(assembly[i])
    BY SourceIsSeq, LegibleSource DEF TInv
  <1>2. job = "pass2" => Stored1(Len(assembly)) /\ at \in 0 .. Len(assembly)
    BY DEF TInv, TypesHold
  <1>3. ASSUME NEW type, NEW hs, NEW size, Emit(type, hs, size)
        PROVE  /\ at + 1 \in 1 .. Len(assembly) /\ Legible(Here) /\ TypeOf(Here) = type /\ Entry.size \in Nat
               /\ Stored1(Len(assembly)) /\ UNCHANGED <<hex2, labels, parsed>> /\ listing' = listing \o hs
               /\ job' = "pass2" /\ at' = at + 1 /\ addr' = addr + size
    <2>1. /\ job = "pass2" /\ job' = "pass2" /\ at # Len(assembly) /\ Entry.type = type /\ at' = at + 1
          /\ addr' = addr + size /\ listing' = listing \o hs /\ UNCHANGED <<hex2, labels, parsed>>
      BY <1>3 DEF Emit, AtEndOf, Advance
    <2>2. at \in 0 .. Len(assembly) /\ Len(assembly) \in Nat /\ at # Len(assembly)
      BY <1>1, <1>2, <2>1
    <2>3. at + 1 \in 1 .. Len(assembly)
      BY <2>2
    <2>4. TypeOf(Here) = type /\ Entry.size \in Nat
      BY <1>2, <2>1, <2>3 DEF Stored1, Entry, Here
    <2>5. Legible(Here)
      BY <1>1, <2>3 DEF Here
    <2> QED
      BY <1>2, <2>1, <2>3, <2>4, <2>5
  <1>4. ASSUME NEW type, NEW hs, NEW size \in Nat, Emit(type, hs, size), Pieces(Here, hs), OfBytes(hs)
        PROVE  TypesHold'
    <2>1. /\ at + 1 \in 1 .. Len(assembly) /\ Stored1(Len(assembly)) /\ UNCHANGED <<hex2, labels, parsed>>
          /\ listing' = listing \o hs /\ job' = "pass2" /\ at' = at + 1 /\ addr' = addr + size
      BY <1>3, <1>4, Zenon
    <2>2. HexLines(listing \o hs)
      BY <1>4, TypedJoin DEF TInv, TypesHold
    <2>3. HexLines(listing')
      BY <2>1, <2>2
    <2>4. Stored1(Len(assembly))'
      BY <2>1 DEF Stored1, TypeOf
    <2>5. addr' \in Nat /\ at' \in 0 .. Len(assembly')
      BY <1>1, <1>4, <2>1 DEF TInv, TypesHold
    <2> QED
      BY <2>1, <2>3, <2>4, <2>5 DEF TypesHold, TInv, linking, HexLines, OfBytes, OfNats
  <1>5. ASSUME NEW type, NEW bytes \in Seq(Bytes8), NEW size \in Nat, Emit(type, Bare(bytes), size),
               Silent(Here) => bytes = <<>>
        PROVE  TypesHold'
    <2>1. Pieces(Here, Bare(bytes)) /\ OfBytes(Bare(bytes))
      BY <1>5, OnePiece DEF Bare
    <2> QED
      BY <1>4, <1>5, <2>1
  <1>6. CASE EmitNothing
    <2>1. PICK type \in {"blank", "comment"} : Emit(type, Bare(<<>>), 0)
      BY <1>6 DEF EmitNothing
    <2> QED
      BY <1>5, <2>1, NothingTyped
  <1>7. CASE EmitLabel
    <2>1. Emit("label", <<HexLine(Here.name, <<>>, <<>>, Here, "")>>, 0)
      BY <1>7 DEF EmitLabel
    <2> QED
      BY <1>4, <2>1, NothingTyped, OnePiece
  <1>8. CASE EmitRaw
    <2>1. Emit("raw", Bare(Here.bytes), Len(Here.bytes) + Here.hidden)
      BY <1>8 DEF EmitRaw
    <2>2. Here.kind = "raw" /\ Legible(Here)
      BY <1>3, <2>1 DEF TypeOf
    <2>3. Here.bytes \in Seq(Bytes8) /\ Here.hidden \in Nat
      BY <2>2 DEF Legible, Bytes8
    <2>4. Len(Here.bytes) + Here.hidden \in Nat
      BY <2>3
    <2>5. ~Silent(Here)
      BY <2>2 DEF Silent
    <2> QED
      BY <1>5, <2>1, <2>3, <2>4, <2>5
  <1>9. CASE EmitWord
    <2>1. PICK type \in DOMAIN Sizes : Emit(type, Bare(Bytes(Bits(Here.n, 8 * Sizes[type]), Sizes[type])), SizeOf(type))
      BY <1>9 DEF EmitWord
    <2>2. Sizes[type] \in Nat /\ SizeOf(type) = Sizes[type]
      BY <2>1 DEF Sizes, SizeOf
    <2>3. Bytes(Bits(Here.n, 8 * Sizes[type]), Sizes[type]) \in Seq(Bytes8)
      BY <2>2, FieldsFit
    <2>4. ~Silent(Here)
      <3>1. TypeOf(Here) = type /\ type \in {"word", "dword"}
        BY <1>3, <2>1 DEF Sizes
      <3> QED
        BY <3>1 DEF TypeOf, Silent
    <2> QED
      BY <1>5, <2>1, <2>2, <2>3, <2>4
  <1>10. CASE EmitZeros
    <2>1. PICK type \in {"zero", "align"} : Emit(type, Bare(Zeros8(Entry.size)), Entry.size)
      BY <1>10 DEF EmitZeros
    <2>2. Entry.size \in Nat
      BY <1>3, <2>1
    <2>3. Zeros8(Entry.size) \in Seq(Bytes8)
      BY <2>2, FieldsFit
    <2>4. ~Silent(Here)
      <3>1. TypeOf(Here) = type
        BY <1>3, <2>1
      <3> QED
        BY <2>1, <3>1 DEF TypeOf, Silent
    <2> QED
      BY <1>5, <2>1, <2>2, <2>3, <2>4
  <1>11. CASE EmitInstruction
    <2>1. Emit("insn", Listed(Here, Encoding(Here)), 4)
      BY <1>11 DEF EmitInstruction
    <2>2. ~Silent(Here)
      BY <1>11 DEF EmitInstruction, Encoding, Silent
    <2>3. Pieces(Here, Listed(Here, Encoding(Here))) /\ OfBytes(Listed(Here, Encoding(Here)))
      BY <2>2, EncodingIsSeq, ListedPieces
    <2> QED
      BY <1>4, <2>1, <2>3
  <1>12. CASE EmitRefuses
    <2>1. UNCHANGED <<hex2, asm64>> /\ addr' = addr /\ job' = "refused"
      BY <1>12 DEF EmitRefuses, Exits
    <2> QED
      BY <2>1 DEF TypesHold, TInv, linking, asm64, HexLines, OfBytes, OfNats
  <1>13. CASE Pass2Ends
    <2>1. UNCHANGED asm64 /\ hex2' = listing /\ addr' = addr /\ job' = "printed"
      BY <1>13 DEF Pass2Ends, Exits
    <2> QED
      BY <2>1 DEF TypesHold, TInv, linking, asm64, HexLines, OfBytes, OfNats
  <1> QED
    BY <1>6, <1>7, <1>8, <1>9, <1>10, <1>11, <1>12, <1>13 DEF Pass2

LEMMA PrintTypes ==
    ASSUME AllLegible(Sources), TInv, Print64, UNCHANGED <<assembly, bin, hex0, asm64, linking>>
    PROVE  TypesHold'
  <1>1. addr' = addr /\ job' \in {"rv64", "printed", "refused"}
    BY DEF Print64, PrintLine, RefuseLine, PrintEnds, Advance, Exits, TInv, TypesHold
  <1>2. HexLines(hex2')
    <2>1. CASE PrintLine
      <3>1. PICK i \in DOMAIN assembly : hex2' = hex2 \o process_line(assembly[i])
        BY <2>1 DEF PrintLine
      <3>2. Legible(assembly[i])
        BY SourceIsSeq, LegibleSource DEF TInv
      <3> QED
        BY <3>1, <3>2, Rv64Pieces, TypedJoin DEF TInv, TypesHold
    <2>2. CASE RefuseLine \/ PrintEnds
      BY <2>2 DEF RefuseLine, PrintEnds, TInv, TypesHold
    <2> QED
      BY <2>1, <2>2 DEF Print64
  <1> QED
    BY <1>1, <1>2 DEF TypesHold, TInv, linking, asm64, HexLines, OfBytes, OfNats

LEMMA BehindIsWord ==
    ASSUME NEW word \in Words32, NEW n \in Nat
    PROVE  Behind(word, n) \in Words32
  <1>1. ASSUME NEW k \in word, k >= 8 * n PROVE k - 8 * n \in 0 .. 31
    BY <1>1 DEF Words32
  <1> QED
    BY <1>1 DEF Behind, Words32

LEMMA LinkTypes ==
    ASSUME TInv, Link, UNCHANGED <<assembly, hex2, hex0, asm64>>
    PROVE  TypesHold'
  <1>0. /\ addr \in Nat /\ OfNats(targets) /\ shift \in Words32 /\ bin \in Seq(Bytes8) /\ HexLines(hex2)
    BY DEF TInv, TypesHold
  <1>1. ASSUME addr' \in Nat, OfNats(targets'), shift' \in Words32, bin' \in Seq(Bytes8), job' \notin {"pass1", "pass2"}
        PROVE  TypesHold'
    BY <1>1 DEF TypesHold, TInv, asm64, HexLines, OfBytes, OfNats
  <1>2. ASSUME NEW i \in DOMAIN hex2
        PROVE  /\ hex2[i].bytes \in Seq(Bytes8) /\ Len(hex2[i].bytes) \in Nat
               /\ AllRefs(hex2[i].refs)
    BY <1>0 DEF HexLines
  <1>3. CASE LinkCounts
    <2>1. PICK i \in DOMAIN hex2 : /\ targets' = Stored(hex2[i].def) /\ addr' = addr + Len(hex2[i].bytes)
                                   /\ UNCHANGED <<bin, shift>> /\ job' = "link1"
      BY <1>3 DEF LinkCounts, Advance
    <2>2. OfNats(Stored(hex2[i].def))
      BY <1>0 DEF Stored, OfNats
    <2>3. addr' \in Nat
      BY <1>0, <1>2, <2>1
    <2> QED
      BY <1>0, <1>1, <2>1, <2>2, <2>3
  <1>4. CASE LinkTurns
    <2>1. addr' = 0 /\ UNCHANGED <<targets, shift, bin>> /\ job' = "link2"
      BY <1>4 DEF LinkTurns, Begin, linking
    <2> QED
      BY <1>0, <1>1, <2>1
  <1>5. CASE LinkWrites
    <2>1. PICK i \in DOMAIN hex2 :
            /\ bin' = bin \o [b \in 1 .. Len(hex2[i].bytes) |->
                                SymDiff(hex2[i].bytes[b], Field(Shifted(hex2[i].refs), 8 * (b - 1), 8))]
            /\ shift' = Behind(Shifted(hex2[i].refs), Len(hex2[i].bytes))
            /\ addr' = addr + Len(hex2[i].bytes) /\ job' = "link2" /\ targets' = targets
      BY <1>5 DEF LinkWrites, Advance
    <2>2. Shifted(hex2[i].refs) \in Words32
      BY <1>0, <1>2, ShiftedIsWord DEF AllRefs
    <2> DEFINE n   == Len(hex2[i].bytes)
               out == [b \in 1 .. n |-> SymDiff(hex2[i].bytes[b], Field(Shifted(hex2[i].refs), 8 * (b - 1), 8))]
    <2>3. out \in Seq(Bytes8)
      <3>1. \A b \in 1 .. n : hex2[i].bytes[b] \in Bytes8
        BY <1>2
      <3>2. \A x, y \in Bytes8 : SymDiff(x, y) \in Bytes8
        BY DEF SymDiff, Bytes8
      <3>3. \A lo : Field(Shifted(hex2[i].refs), lo, 8) \in Bytes8
        BY FieldsFit
      <3>4. \A b \in 1 .. n : SymDiff(hex2[i].bytes[b], Field(Shifted(hex2[i].refs), 8 * (b - 1), 8)) \in Bytes8
        BY <3>1, <3>2, <3>3
      <3>5. n \in Nat
        BY <1>2
      <3> HIDE DEF n
      <3> QED
        BY <3>4, <3>5
    <2>4. bin' \in Seq(Bytes8)
      <3>1. bin' = bin \o out
        BY <2>1
      <3> HIDE DEF out
      <3> QED
        BY <1>0, <2>3, <3>1
    <2>5. shift' \in Words32 /\ addr' \in Nat
      BY <1>0, <1>2, <2>1, <2>2, BehindIsWord
    <2> QED
      BY <1>0, <1>1, <2>1, <2>4, <2>5
  <1>6. CASE LinkRefuses \/ LinkEnds
    <2>1. addr' = addr /\ UNCHANGED <<targets, shift, bin>> /\ job' \in {"refused", "linked"}
      BY <1>6 DEF LinkRefuses, LinkEnds, Exits, linking
    <2> QED
      BY <1>0, <1>1, <2>1
  <1> QED
    BY <1>3, <1>4, <1>5, <1>6 DEF Link

\* hex2tohex0.py takes a line for as many bytes as it has.
LEMMA CountsItsBytes ==
    ASSUME NEW lines, HexLines(lines), NEW i \in DOMAIN lines
    PROVE  count_bytes(lines[i]) = Len(lines[i].bytes)
  <1>1. lines[i].refs = <<>> \/ Len(lines[i].bytes) = 4
    BY DEF HexLines
  <1>2. CASE lines[i].refs = <<>>
    <2>1. ~ \E r \in DOMAIN lines[i].refs : TRUE
      BY <1>2
    <2> QED
      BY <2>1 DEF count_bytes
  <1>3. CASE Len(lines[i].bytes) = 4
    BY <1>3 DEF count_bytes
  <1> QED
    BY <1>1, <1>2, <1>3

LEMMA AnnotateTypes ==
    ASSUME TInv, Annotate, UNCHANGED <<assembly, hex2, bin, asm64, linking>>
    PROVE  TypesHold'
  <1>0. /\ addr \in Nat /\ bin \in Seq(Bytes8) /\ HexLines(hex2) /\ IsSeq(hex0) /\ OfBytes(hex0)
    BY DEF TInv, TypesHold
  <1>1. ASSUME addr' \in Nat, IsSeq(hex0'), OfBytes(hex0'), job' \notin {"pass1", "pass2"}
        PROVE  TypesHold'
    BY <1>1 DEF TypesHold, TInv, asm64, linking, HexLines, OfBytes, OfNats
  <1>2. ASSUME NEW x, x.bytes \in Seq(Bytes8), Silent(x.line) => x.bytes = <<>>
        PROVE  IsSeq(Append(hex0, x)) /\ OfBytes(Append(hex0, x))
    <2> DEFINE s == Append(hex0, x)
    <2>1. /\ IsSeq(s) /\ Len(hex0) \in Nat /\ Len(s) = Len(hex0) + 1
          /\ \A i \in 1 .. Len(hex0) : s[i] = hex0[i]
          /\ s[Len(hex0) + 1] = x
      BY <1>0, AppendOne
    <2> HIDE DEF s
    <2>2. DOMAIN s = 1 .. Len(s) /\ DOMAIN hex0 = 1 .. Len(hex0)
      BY <1>0, <2>1 DEF IsSeq
    <2>3. ASSUME NEW i \in DOMAIN s PROVE s[i].bytes \in Seq(Bytes8) /\ (Silent(s[i].line) => s[i].bytes = <<>>)
      <3>1. i \in 1 .. Len(hex0) \/ i = Len(hex0) + 1
        BY <2>1, <2>2
      <3> QED
        BY <1>0, <1>2, <2>1, <2>2, <3>1 DEF OfBytes
    <2> QED
      BY <2>1, <2>3 DEF OfBytes, s
  <1>3. CASE CopyLine
    <2>1. PICK i \in DOMAIN hex2 : /\ hex0' = Append(hex0, Hex0Line(hex2[i], <<>>))
                                   /\ addr' = addr + 0 /\ job' = "annotate"
      BY <1>3 DEF CopyLine, Advance
    <2>2. Hex0Line(hex2[i], <<>>).bytes \in Seq(Bytes8) /\ Hex0Line(hex2[i], <<>>).bytes = <<>>
      BY NothingTyped DEF Hex0Line
    <2> QED
      BY <1>0, <1>1, <1>2, <2>1, <2>2
  <1>4. CASE AnnotateLine
    <2>1. PICK i \in DOMAIN hex2 : LET n == count_bytes(hex2[i])
                                   IN /\ n > 0 /\ addr + n <= Len(bin) /\ hex0' = Append(hex0, Hex0Line(hex2[i], Chunk(n)))
                                      /\ addr' = addr + n /\ job' = "annotate"
      BY <1>4 DEF AnnotateLine, Advance
    <2> DEFINE n == count_bytes(hex2[i])
    <2>2. n = Len(hex2[i].bytes) /\ n \in Nat /\ (Silent(hex2[i].line) => hex2[i].bytes = <<>>)
      <3>1. hex2[i].bytes \in Seq(Bytes8) /\ (Silent(hex2[i].line) => hex2[i].bytes = <<>>)
        BY <1>0 DEF HexLines
      <3>2. Len(hex2[i].bytes) \in Nat
        BY <3>1
      <3> QED
        BY <1>0, <3>1, <3>2, CountsItsBytes
    <2>3. n > 0 /\ addr + n <= Len(bin) /\ hex0' = Append(hex0, Hex0Line(hex2[i], Chunk(n))) /\ addr' = addr + n
      BY <2>1
    <2> HIDE DEF n
    <2>4. Chunk(n) \in Seq(Bytes8)
      BY <1>0, <2>2, <2>3 DEF Chunk
    <2>5. Hex0Line(hex2[i], Chunk(n)).bytes \in Seq(Bytes8) /\ Hex0Line(hex2[i], Chunk(n)).line = hex2[i].line
      BY <2>4 DEF Hex0Line
    <2>6. ~Silent(hex2[i].line)
      <3>1. Len(<<>>) = 0
        OBVIOUS
      <3> QED
        BY <2>2, <2>3, <3>1
    <2> QED
      BY <1>0, <1>1, <1>2, <2>1, <2>2, <2>3, <2>5, <2>6
  <1>5. CASE AnnotateRefuses \/ AnnotateEnds
    <2>1. addr' = addr /\ hex0' = hex0 /\ job' \in {"refused", "annotated"}
      BY <1>5 DEF AnnotateRefuses, AnnotateEnds, Exits
    <2> QED
      BY <1>0, <1>1, <2>1
  <1> QED
    BY <1>3, <1>4, <1>5 DEF Annotate

LEMMA TypesKept ==
    ASSUME AllLegible(Sources), TInv, [ToolsNext]_tools
    PROVE  TypesHold'
  <1>1. ASSUME UNCHANGED <<hex2, bin, hex0, asm64, linking>>, addr' = addr,
               UNCHANGED <<assembly, job, at>> \/ job' \notin {"pass1", "pass2"}
        PROVE  TypesHold'
    BY <1>1 DEF TInv, TypesHold, Stored1, asm64, linking, HexLines, OfBytes, OfNats, TypeOf
  <1>2. CASE Edit
    <2>1. job' = "idle"
      BY <1>2 DEF Edit, reading, TInv, Ordered
    <2> QED
      BY <1>1, <1>2, <2>1 DEF Edit, reading
  <1>3. CASE Make \/ MakeEnds \/ UNCHANGED tools
    BY <1>1, <1>3 DEF Make, MakeEnds, tools, reading
  <1>4. CASE RunAssembler
    <2>1. CASE A64Begins
      <3>1. /\ job' = "pass1" /\ at' = 0 /\ addr' = 0 /\ hex2' = <<>> /\ labels' = <<>> /\ parsed' = <<>> /\ listing' = <<>>
            /\ UNCHANGED <<assembly, bin, hex0, linking>>
        BY <1>4, <2>1 DEF RunAssembler, A64Begins, Begin
      <3>2. Len(assembly) \in Nat
        BY SourceIsSeq DEF TInv
      <3>3. Stored1(at)'
        BY <3>1, <3>2, NothingTyped DEF Stored1
      <3> QED
        BY <3>1, <3>3, NothingTyped DEF TInv, TypesHold, linking, OfBytes, OfNats
    <2>2. CASE Rv64Begins /\ UNCHANGED asm64
      <3>1. job' = "rv64" /\ addr' = 0 /\ hex2' = <<>> /\ UNCHANGED <<assembly, bin, hex0, linking, asm64>>
        BY <1>4, <2>2 DEF RunAssembler, Rv64Begins, Begin
      <3> QED
        BY <3>1, NothingTyped DEF TInv, TypesHold, linking, asm64, HexLines, OfBytes, OfNats
    <2> QED
      BY <1>4, <2>1, <2>2 DEF RunAssembler
  <1>5. CASE RunLinker
    <2>1. /\ job' = "link1" /\ addr' = 0 /\ bin' = <<>> /\ targets' = <<>> /\ shift' = {}
          /\ UNCHANGED <<assembly, hex2, hex0, asm64>>
      BY <1>5 DEF RunLinker, LinkBegins, Begin
    <2> QED
      BY <2>1, NothingTyped DEF TInv, TypesHold, asm64, HexLines, OfBytes, OfNats
  <1>6. CASE RunHex2ToHex0
    <2>1. job' = "annotate" /\ addr' = 0 /\ hex0' = <<>> /\ UNCHANGED <<assembly, hex2, bin, asm64, linking>>
      BY <1>6 DEF RunHex2ToHex0, AnnotateBegins, Begin
    <2> QED
      BY <2>1, NothingTyped DEF TInv, TypesHold, asm64, linking, HexLines, OfNats
  <1>7. CASE Work
    <2>1. CASE Assembles
      <3>1. CASE Assemble /\ UNCHANGED <<bin, hex0, linking>>
        <4>1. Pass1 => hex2' = hex2
          BY DEF Pass1, ParseNothing, ParseLabel, ParseRaw, ParseWord, ParseZero, ParseAlign, ParseInstruction,
             ParseRefuses, Pass1Ends, Parse
        <4> QED
          BY <1>7, <3>1, <4>1, ParseTypes, EmitTypes DEF Work, Assemble
      <3>2. CASE Print64 /\ UNCHANGED <<bin, hex0, asm64, linking>>
        BY <1>7, <3>2, PrintTypes DEF Work
      <3> QED
        BY <2>1, <3>1, <3>2 DEF Assembles
    <2>2. CASE Links
      BY <1>7, <2>2, LinkTypes DEF Work, Links
    <2>3. CASE Annotates
      BY <1>7, <2>3, AnnotateTypes DEF Work, Annotates
    <2> QED
      BY <1>7, <2>1, <2>2, <2>3 DEF Work
  <1>8. CASE RecipeEnds
    BY <1>1, <1>8 DEF RecipeEnds
  <1> QED
    BY <1>2, <1>3, <1>4, <1>5, <1>6, <1>7, <1>8 DEF ToolsNext, MakeGoesOn

LEMMA TypesInvariant ==
    ASSUME AllLegible(Sources)
    PROVE  ToolsSpec => []TInv
  <1>1. ToolsInit => TInv
    <2> SUFFICES ASSUME ToolsInit PROVE TInv
      OBVIOUS
    <2>1. Ordered
      BY DEF ToolsInit, Written, Ordered, Later
    <2>2. InTurn
      BY DEF ToolsInit, Written, InTurn
    <2>3. TypesHold
      BY NothingTyped DEF ToolsInit, Written, TypesHold
    <2> QED
      BY <2>1, <2>2, <2>3 DEF TInv
  <1>2. TInv /\ [ToolsNext]_tools => TInv'
    <2> SUFFICES ASSUME TInv, [ToolsNext]_tools PROVE TInv'
      OBVIOUS
    <2> QED
      BY OrderKept, TurnKept, TypesKept DEF TInv
  <1> QED
    BY <1>1, <1>2, PTL DEF ToolsSpec

\* Whatever the sources say, as long as their data are bytes: the tools keep
\* their types.  No sum of references leaves the 32 bits of the linker's shift
\* register, and no address falls below zero.
THEOREM ToolsTyped ==
    ASSUME AllLegible(Sources)
    PROVE  ToolsSpec => []ToolsTypeOK
  <1>1. TInv => ToolsTypeOK
    <2> SUFFICES ASSUME TInv PROVE ToolsTypeOK
      OBVIOUS
    <2>1. isa \in Machines
      BY SourcesAssumption DEF TInv, Ordered
    <2>2. \A i \in DOMAIN bin : bin[i] \subseteq 0 .. 7
      <3>1. bin \in Seq(Bytes8)
        BY DEF TInv, TypesHold
      <3>2. \A i \in DOMAIN bin : bin[i] \in Bytes8
        BY <3>1
      <3> QED
        BY <3>2 DEF Bytes8
    <2>3. addr \in Nat /\ OfNats(labels) /\ OfNats(targets) /\ shift \subseteq 0 .. 31 /\ at \in Nat
      BY DEF TInv, TypesHold, Words32, Ordered
    <2> QED
      BY <2>1, <2>2, <2>3 DEF TInv, InTurn, Targets3, ToolsTypeOK, OfNats
  <1> QED
    BY <1>1, TypesInvariant, PTL

-----------------------------------------------------------------------------
(* Bytes that are left *)

Rest(lines, i) == Cardinality(BytesFrom(lines, i))

\* The lines from i on have the bytes of line i, and those of the lines behind.
LEMMA RestIs ==
    ASSUME NEW lines, HexLines(lines)
    PROVE  /\ Len(lines) \in Nat /\ DOMAIN lines = 1 .. Len(lines) /\ Rest(lines, Len(lines) + 1) = 0
           /\ \A i \in 1 .. Len(lines) : /\ Len(lines[i].bytes) \in Nat
                                         /\ Rest(lines, i) \in Nat /\ Rest(lines, i + 1) \in Nat
                                         /\ Rest(lines, i) = Len(lines[i].bytes) + Rest(lines, i + 1)
  <1> DEFINE n    == Len(lines)
             S(i) == BytesFrom(lines, i)
             Own(i) == {i} \X DOMAIN lines[i].bytes
  <1>1. n \in Nat /\ DOMAIN lines = 1 .. n
    BY DEF HexLines, IsSeq
  <1>2. S(n + 1) = {}
    <2>1. n + 1 .. n = {}
      BY <1>1
    <2> QED
      BY <2>1 DEF BytesFrom
  <1>3. ASSUME NEW i \in 1 .. n
        PROVE  /\ S(i) = Own(i) \cup S(i + 1) /\ Own(i) \cap S(i + 1) = {}
               /\ IsFiniteSet(Own(i)) /\ Cardinality(Own(i)) = Len(lines[i].bytes) /\ Len(lines[i].bytes) \in Nat
    <2>1. lines[i].bytes \in Seq(Bytes8)
      BY <1>1 DEF HexLines
    <2>2. Len(lines[i].bytes) \in Nat /\ DOMAIN lines[i].bytes = 1 .. Len(lines[i].bytes)
      BY <2>1
    <2>3. i .. n = {i} \cup (i + 1 .. n) /\ i \notin i + 1 .. n
      BY <1>1
    <2>4. S(i) = Own(i) \cup S(i + 1)
      BY <2>3 DEF BytesFrom
    <2>5. Own(i) \cap S(i + 1) = {}
      BY <2>3 DEF BytesFrom
    <2> DEFINE m == Len(lines[i].bytes)
    <2>6. IsFiniteSet({i}) /\ Cardinality({i}) = 1
      BY FS_Singleton
    <2>7. IsFiniteSet(1 .. m) /\ Cardinality(1 .. m) = m
      <3>1. m \in Nat /\ m \in Int /\ 1 \in Int
        BY <2>2
      <3> HIDE DEF m
      <3>2. IsFiniteSet(1 .. m) /\ Cardinality(1 .. m) = IF 1 > m THEN 0 ELSE m - 1 + 1
        BY <3>1, FS_Interval
      <3> QED
        BY <3>1, <3>2
    <2>8. IsFiniteSet({i} \X (1 .. m)) /\ Cardinality({i} \X (1 .. m)) = Cardinality({i}) * Cardinality(1 .. m)
      <3> HIDE DEF m
      <3> QED
        BY <2>6, <2>7, FS_Product
    <2>9. IsFiniteSet(Own(i)) /\ Cardinality(Own(i)) = m
      BY <2>2, <2>6, <2>7, <2>8
    <2> QED
      BY <2>2, <2>4, <2>5, <2>9
  <1> HIDE DEF n, S, Own
  <1>4. \A j \in 0 .. n : IsFiniteSet(S(n + 1 - j))
    <2> DEFINE Good == {j \in Nat : j <= n => IsFiniteSet(S(n + 1 - j))}
    <2>1. 0 \in Good
      BY <1>1, <1>2, FS_EmptySet
    <2>2. ASSUME NEW j \in Nat, j \in Good PROVE j + 1 \in Good
      <3> SUFFICES ASSUME j + 1 <= n PROVE IsFiniteSet(S(n + 1 - (j + 1)))
        OBVIOUS
      <3> DEFINE i == n - j
      <3>1. i \in 1 .. n /\ n + 1 - (j + 1) = i /\ n + 1 - j = i + 1 /\ j <= n
        BY <1>1
      <3>2. IsFiniteSet(S(n + 1 - j))
        BY <2>2, <3>1
      <3>3. IsFiniteSet(S(i + 1))
        BY <3>1, <3>2
      <3> HIDE DEF i
      <3>4. S(i) = Own(i) \cup S(i + 1) /\ IsFiniteSet(Own(i))
        BY <1>3, <3>1
      <3>5. IsFiniteSet(S(i))
        BY <3>3, <3>4, FS_Union
      <3> QED
        BY <3>1, <3>5
    <2> HIDE DEF Good
    <2>3. \A j \in Nat : j \in Good
      BY <2>1, <2>2, Upwards
    <2> QED
      BY <2>3 DEF Good
  <1>5. \A i \in 1 .. n + 1 : IsFiniteSet(S(i)) /\ Cardinality(S(i)) \in Nat
    <2> SUFFICES ASSUME NEW i \in 1 .. n + 1 PROVE IsFiniteSet(S(i)) /\ Cardinality(S(i)) \in Nat
      OBVIOUS
    <2>1. n + 1 - i \in 0 .. n /\ n + 1 - (n + 1 - i) = i
      BY <1>1
    <2>2. IsFiniteSet(S(i))
      BY <1>4, <2>1
    <2> QED
      BY <2>2, FS_CardinalityType
  <1>6. ASSUME NEW i \in 1 .. n
        PROVE  Cardinality(S(i)) = Len(lines[i].bytes) + Cardinality(S(i + 1))
    <2>1. i + 1 \in 1 .. n + 1
      BY <1>1
    <2>2. IsFiniteSet(S(i + 1)) /\ Cardinality(S(i + 1)) \in Nat
      BY <1>5, <2>1
    <2>3. S(i) = Own(i) \cup S(i + 1) /\ Own(i) \cap S(i + 1) = {} /\ IsFiniteSet(Own(i))
          /\ Cardinality(Own(i)) = Len(lines[i].bytes) /\ Len(lines[i].bytes) \in Nat
      BY <1>3
    <2>4. Cardinality(S(i)) = Cardinality(Own(i)) + Cardinality(S(i + 1)) - Cardinality({})
      BY <2>2, <2>3, FS_Union
    <2>5. Cardinality({}) = 0
      BY FS_EmptySet
    <2> QED
      BY <2>2, <2>3, <2>4, <2>5
  <1>7. \A i \in 1 .. n + 1 : Rest(lines, i) = Cardinality(S(i))
    BY DEF Rest, S
  <1>8. Rest(lines, n + 1) = 0
    <2>1. n + 1 \in 1 .. n + 1
      BY <1>1
    <2> QED
      BY <1>2, <1>7, <2>1, FS_EmptySet
  <1>9. ASSUME NEW i \in 1 .. n
        PROVE  /\ Len(lines[i].bytes) \in Nat
               /\ Rest(lines, i) \in Nat /\ Rest(lines, i + 1) \in Nat
               /\ Rest(lines, i) = Len(lines[i].bytes) + Rest(lines, i + 1)
    <2>1. i \in 1 .. n + 1 /\ i + 1 \in 1 .. n + 1
      BY <1>1
    <2>2. Rest(lines, i) = Cardinality(S(i)) /\ Rest(lines, i + 1) = Cardinality(S(i + 1))
      BY <1>7, <2>1
    <2> QED
      BY <1>3, <1>5, <1>6, <2>1, <2>2
  <1> QED
    BY <1>1, <1>8, <1>9 DEF n

-----------------------------------------------------------------------------
(* As many bytes as the lines have *)

\* hex2 has written those of the lines it is through with; hex2tohex0.py has
\* yet to hand out those of the lines it has still to read.
Counting ==
    /\ job = "link1" => bin = <<>>
    /\ job = "link2" => at \in 0 .. Len(hex2) /\ Len(bin) + Rest(hex2, at + 1) = Rest(hex2, 1)
    /\ job = "linked" => Len(bin) = Rest(hex2, 1)
    /\ "bin" \in fresh /\ ~spoilt => Len(bin) = Rest(hex2, 1)
    /\ job = "annotate" /\ ~spoilt => at \in 0 .. Len(hex2) /\ Len(bin) - addr = Rest(hex2, at + 1)

SInv == TInv /\ Counting

LEMMA WiderSeq ==
    ASSUME NEW A, NEW B, A \subseteq B, NEW s \in Seq(A)
    PROVE  s \in Seq(B)
  OBVIOUS

LEMMA LinkCountsBytes ==
    ASSUME SInv, Link, UNCHANGED <<hex2, fresh, spoilt>>
    PROVE  Counting'
  <1> DEFINE n == Len(hex2)
  <1>1. /\ n \in Nat /\ DOMAIN hex2 = 1 .. n /\ Rest(hex2, n + 1) = 0
        /\ \A i \in 1 .. n : /\ Len(hex2[i].bytes) \in Nat
                             /\ Rest(hex2, i) \in Nat /\ Rest(hex2, i + 1) \in Nat
                             /\ Rest(hex2, i) = Len(hex2[i].bytes) + Rest(hex2, i + 1)
    <2>1. HexLines(hex2)
      BY DEF SInv, TInv, TypesHold
    <2> QED
      BY <2>1, RestIs
  <1>2. fresh' = {"hex2"} /\ bin \in Seq(Bytes8) /\ Len(bin) \in Nat
    <2>1. job \in {"link1", "link2"}
      BY DEF Link, LinkCounts, LinkTurns, LinkWrites, LinkRefuses, LinkEnds
    <2>2. bin \in Seq(Bytes8)
      BY DEF SInv, TInv, TypesHold
    <2> QED
      BY <2>1, <2>2 DEF SInv, TInv, InTurn
  <1> HIDE DEF n
  <1>3. CASE LinkCounts
    <2>1. job = "link1" /\ job' = "link1" /\ bin' = bin
      BY <1>3 DEF LinkCounts, Advance
    <2> QED
      BY <1>2, <2>1 DEF SInv, Counting
  <1>4. CASE LinkTurns
    <2>1. job = "link1" /\ job' = "link2" /\ at' = 0 /\ bin' = bin
      BY <1>4 DEF LinkTurns, Begin
    <2>2. Len(bin) = 0
      BY <2>1 DEF SInv, Counting
    <2>3. Rest(hex2, 1) \in Nat
      BY <1>1
    <2>4. 0 + 1 = 1 /\ at' \in 0 .. Len(hex2') /\ Len(bin') + Rest(hex2', at' + 1) = Rest(hex2', 1)
      BY <1>1, <2>1, <2>2, <2>3 DEF n
    <2> QED
      BY <1>2, <2>1, <2>4 DEF Counting
  <1>5. CASE LinkWrites
    <2>1. PICK i \in DOMAIN hex2 :
            /\ job = "link2" /\ at = i - 1 /\ job' = "link2" /\ at' = at + 1
            /\ bin' = bin \o [b \in 1 .. Len(hex2[i].bytes) |->
                                SymDiff(hex2[i].bytes[b], Field(Shifted(hex2[i].refs), 8 * (b - 1), 8))]
      BY <1>5 DEF LinkWrites, AtLine, Advance
    <2> DEFINE m   == Len(hex2[i].bytes)
               out == [b \in 1 .. m |-> SymDiff(hex2[i].bytes[b], Field(Shifted(hex2[i].refs), 8 * (b - 1), 8))]
    <2>2. i \in 1 .. n /\ i = at + 1 /\ at \in 0 .. n /\ at' = at + 1 /\ at' \in 0 .. n
      <3>1. n \in Nat /\ i \in 1 .. n /\ at = i - 1 /\ at' = at + 1
        BY <1>1, <2>1
      <3> QED
        BY <3>1
    <2>3. /\ m \in Nat /\ Rest(hex2, i) \in Nat /\ Rest(hex2, i + 1) \in Nat
          /\ Rest(hex2, i) = m + Rest(hex2, i + 1)
      BY <1>1, <2>2
    <2>4. Len(bin) + Rest(hex2, i) = Rest(hex2, 1)
      BY <2>1, <2>2 DEF SInv, Counting
    <2>5. Len(bin') = Len(bin) + m
      <3>1. bin' = bin \o out
        BY <2>1
      <3> HIDE DEF m
      <3>2. out \in Seq({out[b] : b \in 1 .. m}) /\ Len(out) = m
        BY <2>3
      <3> DEFINE S == {out[b] : b \in 1 .. m}
      <3> HIDE DEF out, S
      <3>3. bin \in Seq(Bytes8 \cup S) /\ out \in Seq(Bytes8 \cup S)
        <4>1. Bytes8 \subseteq Bytes8 \cup S /\ S \subseteq Bytes8 \cup S /\ bin \in Seq(Bytes8) /\ out \in Seq(S)
          BY <1>2, <3>2 DEF S
        <4> QED
          BY <4>1, WiderSeq
      <3>4. Len(bin \o out) = Len(bin) + Len(out)
        BY <3>3, ConcatProperties
      <3> QED
        BY <3>1, <3>2, <3>4
    <2> HIDE DEF m
    <2>6. Len(bin') + Rest(hex2, at' + 1) = Rest(hex2, 1)
      BY <1>2, <2>2, <2>3, <2>4, <2>5
    <2> QED
      BY <1>2, <2>1, <2>2, <2>6 DEF Counting, n
  <1>6. CASE LinkRefuses
    <2>1. job' = "refused"
      BY <1>6 DEF LinkRefuses, Exits
    <2> QED
      BY <1>2, <2>1 DEF Counting
  <1>7. CASE LinkEnds
    <2>1. job = "link2" /\ at = n /\ bin' = bin /\ job' = "linked"
      BY <1>7 DEF LinkEnds, AtEndOf, Exits, n
    <2>2. Len(bin') = Rest(hex2', 1)
      BY <1>1, <1>2, <2>1 DEF SInv, Counting
    <2> QED
      BY <1>2, <2>1, <2>2 DEF Counting
  <1> QED
    BY <1>3, <1>4, <1>5, <1>6, <1>7 DEF Link

LEMMA AnnotateCountsBytes ==
    ASSUME SInv, Annotate, UNCHANGED <<hex2, bin, fresh, spoilt>>
    PROVE  Counting'
  <1>1. job = "annotate" /\ fresh = {"hex2", "bin"} /\ HexLines(hex2) /\ addr \in Nat /\ bin \in Seq(Bytes8)
    <2>1. job = "annotate"
      BY DEF Annotate, CopyLine, AnnotateLine, AnnotateRefuses, AnnotateEnds
    <2> QED
      BY <2>1 DEF SInv, TInv, InTurn, TypesHold
  <1>2. CASE spoilt
    <2>1. job' \in {"annotate", "annotated", "refused"}
      BY <1>1 DEF Annotate, CopyLine, AnnotateLine, AnnotateRefuses, AnnotateEnds, Advance, Exits
    <2> QED
      BY <1>2, <2>1 DEF Counting
  <1>3. CASE ~spoilt
    <2> DEFINE n == Len(hex2)
    <2>1. /\ n \in Nat /\ DOMAIN hex2 = 1 .. n
          /\ \A i \in 1 .. n : /\ Len(hex2[i].bytes) \in Nat
                               /\ Rest(hex2, i) \in Nat /\ Rest(hex2, i + 1) \in Nat
                               /\ Rest(hex2, i) = Len(hex2[i].bytes) + Rest(hex2, i + 1)
      BY <1>1, RestIs
    <2>2. at \in 0 .. n /\ Len(bin) - addr = Rest(hex2, at + 1) /\ Len(bin) = Rest(hex2, 1) /\ Len(bin) \in Nat
      BY <1>1, <1>3 DEF SInv, Counting
    <2> HIDE DEF n
    <2>3. CASE CopyLine \/ AnnotateLine
      <3>1. PICK i \in DOMAIN hex2 : at = i - 1 /\ at' = at + 1 /\ addr' = addr + count_bytes(hex2[i]) /\ job' = "annotate"
        BY <2>3 DEF CopyLine, AnnotateLine, AtLine, Advance
      <3>2. count_bytes(hex2[i]) = Len(hex2[i].bytes)
        BY <1>1, CountsItsBytes
      <3>3. i \in 1 .. n /\ i = at + 1 /\ at' \in 0 .. n
        BY <2>1, <2>2, <3>1
      <3>4. Len(bin) - addr' = Rest(hex2, at' + 1)
        <4> DEFINE m == Len(hex2[i].bytes)
                   r == Rest(hex2, i)
                   q == Rest(hex2, i + 1)
        <4>1. m \in Nat /\ r \in Nat /\ q \in Nat /\ r = m + q
          BY <2>1, <3>3, Zenon
        <4>2. addr' = addr + m /\ at + 1 = i /\ at' + 1 = i + 1
          BY <3>1, <3>2, <3>3
        <4>3. Len(bin) - addr = r
          BY <2>2, <4>2
        <4>4. bin' = bin /\ hex2' = hex2
          OBVIOUS
        <4>5. Rest(hex2, at' + 1) = q
          BY <4>2
        <4> HIDE DEF m, r, q
        <4> QED
          BY <1>1, <2>2, <4>1, <4>2, <4>3, <4>4, <4>5
      <3> QED
        BY <1>3, <2>2, <3>1, <3>3, <3>4 DEF Counting, n
    <2>4. CASE AnnotateRefuses \/ AnnotateEnds
      <3>1. job' \in {"refused", "annotated"}
        BY <2>4 DEF AnnotateRefuses, AnnotateEnds, Exits
      <3> QED
        BY <1>3, <2>2, <3>1 DEF Counting
    <2> QED
      BY <2>3, <2>4 DEF Annotate
  <1> QED
    BY <1>2, <1>3

LEMMA BytesKept ==
    ASSUME SInv, [ToolsNext]_tools
    PROVE  Counting'
  <1>1. CASE UNCHANGED <<hex2, bin, job, at, addr, fresh, spoilt>>
    BY <1>1 DEF SInv, Counting
  <1>2. CASE Edit
    <2>1. fresh' = {} /\ job' = "idle"
      BY <1>2 DEF Edit, Outdated, reading, SInv, TInv, Ordered
    <2> QED
      BY <2>1 DEF Counting
  <1>3. CASE RunAssembler
    <2>1. fresh' = {} /\ job' \in {"pass1", "rv64"}
      BY <1>3 DEF RunAssembler, Runs, making, A64Begins, Rv64Begins, Begin, SInv, TInv, InTurn, Targets3
    <2> QED
      BY <2>1 DEF Counting
  <1>4. CASE RunLinker
    <2>1. fresh' = {"hex2"} /\ job' = "link1" /\ bin' = <<>>
      BY <1>4 DEF RunLinker, Runs, LinkBegins, Begin, making, SInv, TInv, InTurn, Targets3
    <2> QED
      BY <2>1 DEF Counting
  <1>5. CASE RunHex2ToHex0
    <2>1. /\ fresh = {"hex2", "bin"} /\ UNCHANGED <<hex2, bin, fresh, spoilt>>
          /\ job' = "annotate" /\ at' = 0 /\ addr' = 0
      BY <1>5 DEF RunHex2ToHex0, Runs, AnnotateBegins, Begin, making, SInv, TInv, InTurn, Targets3
    <2>2. HexLines(hex2) /\ bin \in Seq(Bytes8)
      BY DEF SInv, TInv, TypesHold
    <2>3. Len(hex2) \in Nat /\ Len(bin) \in Nat
      BY <2>2, RestIs
    <2>4. ~spoilt => Len(bin) = Rest(hex2, 1)
      BY <2>1 DEF SInv, Counting
    <2>5. at' \in 0 .. Len(hex2') /\ Len(bin') - addr' = Len(bin) /\ at' + 1 = 1
      BY <2>1, <2>3
    <2> QED
      BY <2>1, <2>4, <2>5 DEF Counting
  <1>6. CASE Work
    <2>1. UNCHANGED <<fresh, spoilt>>
      BY <1>6, WorkGoesOn
    <2>2. CASE Assembles
      <3>1. fresh' = {} /\ job' \in {"pass1", "pass2", "rv64", "printed", "refused"}
        <4>1. Assemble \/ Print64
          BY <2>2 DEF Assembles
        <4> QED
          BY <1>6, <2>1, <4>1, WorkGoesOn DEF Assemble, SInv, TInv, InTurn
      <3> QED
        BY <3>1 DEF Counting
    <2>3. CASE Links
      BY <2>1, <2>3, LinkCountsBytes DEF Links
    <2>4. CASE Annotates
      BY <2>1, <2>4, AnnotateCountsBytes DEF Annotates
    <2> QED
      BY <1>6, <2>2, <2>3, <2>4 DEF Work
  <1>7. CASE RecipeEnds
    <2>1. /\ UNCHANGED <<hex2, bin>> /\ job' = "idle" /\ spoilt' = (spoilt \/ job = "refused")
          /\ job \in {"printed", "linked", "annotated", "refused"}
          /\ fresh' = fresh \cup {IF "hex2" \notin fresh THEN "hex2" ELSE IF "bin" \notin fresh THEN "bin" ELSE "hex0"}
      BY <1>7 DEF RecipeEnds, Renewed, Target0
    <2>2. CASE spoilt'
      BY <2>1, <2>2 DEF Counting
    <2>3. CASE ~spoilt' /\ job = "printed"
      <3>1. fresh = {}
        BY <2>3 DEF SInv, TInv, InTurn
      <3> QED
        BY <2>1, <3>1 DEF Counting
    <2>4. CASE ~spoilt' /\ job = "linked"
      <3>1. Len(bin') = Rest(hex2', 1)
        BY <2>1, <2>4 DEF SInv, Counting
      <3> QED
        BY <2>1, <3>1 DEF Counting
    <2>5. CASE ~spoilt' /\ job = "annotated"
      <3>1. "bin" \in fresh /\ ~spoilt
        BY <2>1, <2>5 DEF SInv, TInv, InTurn
      <3>2. Len(bin') = Rest(hex2', 1)
        BY <2>1, <3>1 DEF SInv, Counting
      <3> QED
        BY <2>1, <3>2 DEF Counting
    <2> QED
      BY <2>1, <2>2, <2>3, <2>4, <2>5
  <1>8. Make \/ MakeEnds \/ UNCHANGED tools => UNCHANGED <<hex2, bin, job, at, addr, fresh, spoilt>>
    BY DEF Make, MakeEnds, tools, reading, making
  <1> QED
    BY <1>1, <1>2, <1>3, <1>4, <1>5, <1>6, <1>7, <1>8 DEF ToolsNext, MakeGoesOn

LEMMA CountingInvariant ==
    ASSUME AllLegible(Sources)
    PROVE  ToolsSpec => []SInv
  <1>1. ToolsInit => Counting
    BY DEF ToolsInit, Written, Counting
  <1>2. SInv /\ [ToolsNext]_tools => Counting'
    BY BytesKept
  <1> QED
    BY <1>1, <1>2, TypesInvariant, PTL DEF ToolsSpec, SInv

\* Whatever the sources are, as long as their data are bytes: hex2tohex0.py has
\* exactly as many bytes left to hand out as the lines it has still to read.
THEOREM CountedInStep ==
    ASSUME AllLegible(Sources)
    PROVE  ToolsSpec => []BytesInStep
  <1>1. SInv => BytesInStep
    BY DEF SInv, Counting, BytesInStep, Rest
  <1> QED
    BY <1>1, CountingInvariant, PTL

\* The tools run as they do alone while what they make is put on a disk and
\* booted: all that is proved of ToolsSpec holds of the whole.
THEOREM ToolsInTheWhole == WholeSpec => ToolsSpec
  <1>1. WholeInit => ToolsInit
    BY DEF WholeInit, NothingToMake, Written, ToolsInit
  <1>2. ASSUME [WholeNext]_<<vars, command, tools>>
        PROVE  [ToolsNext]_tools
    <2>1. CASE Desk
      BY <2>1 DEF Desk
    <2>2. CASE Flash
      BY <2>2 DEF Flash
    <2> QED
      BY <1>2, <2>1, <2>2 DEF WholeNext
  <1> QED
    BY <1>1, <1>2, PTL DEF WholeSpec, ToolsSpec

-----------------------------------------------------------------------------
(* Sectors *)

LEMMA Cancel ==
    ASSUME NEW m \in Nat \ {0}, NEW a \in Int, NEW b \in Int, a * m < b * m
    PROVE  a < b
<1> SUFFICES ASSUME a >= b PROVE FALSE
  OBVIOUS
<1>1. (a - b) * m >= 0
  OBVIOUS
<1>2. (a - b) * m = a * m - b * m
  OBVIOUS
<1>3. a * m \in Int /\ b * m \in Int
  OBVIOUS
<1> QED
  BY <1>1, <1>2, <1>3

\* How many sectors a text reaches into that does not end with a sector.
LEMMA SectorCount ==
    ASSUME NEW m \in Nat \ {0}, NEW l \in Nat, l % m # 0
    PROVE  /\ (l + m - 1) \div m \in Nat
           /\ l < ((l + m - 1) \div m) * m /\ ((l + m - 1) \div m) * m < l + m
<1> DEFINE n == (l + m - 1) \div m
           r == (l + m - 1) % m
<1>1. l + m - 1 \in Nat
  OBVIOUS
<1>2. n \in Nat /\ r \in 0 .. m - 1 /\ l + m - 1 = n * m + r
  BY <1>1
<1> HIDE DEF n, r
<1>3. n * m \in Nat
  BY <1>2
<1>4. n * m < l + m /\ l <= n * m
  BY <1>2, <1>3
<1>5. l # n * m
  <2> SUFFICES ASSUME l = n * m PROVE l % m = 0
    OBVIOUS
  <2> QED
    BY <1>2
<1> QED
  BY <1>2, <1>3, <1>4, <1>5 DEF n

\* The sectors of the source.
Reached(i) == (Len(i.source) + SectorSize - 1) \div SectorSize

LEMMA BuiltImage ==
    ASSUME NEW i, Built(i)
    PROVE  /\ i.source \in Seq(1 .. 255) /\ i.script \in [1 .. SectorSize -> 0 .. 255]
           /\ i.disk = Sectors(i.source) \o <<i.script, Zeros, Zeros>>
           /\ Len(i.source) % SectorSize # 0 /\ Len(i.source) \in Nat
<1>1. /\ i.source \in Seq(1 .. 255) /\ i.script \in [1 .. SectorSize -> 0 .. 255]
      /\ Len(i.source) % SectorSize # 0
  BY DEF Built
<1>2. i = Image(i.source, i.script)
  BY DEF Built
<1>3. Image(i.source, i.script).disk = Sectors(i.source) \o <<i.script, Zeros, Zeros>>
  BY DEF Image
<1>4. i.disk = Sectors(i.source) \o <<i.script, Zeros, Zeros>>
  BY <1>2, <1>3, Zenon
<1>5. Len(i.source) \in Nat
  BY <1>1
<1> QED
  BY <1>1, <1>4, <1>5

LEMMA ReachedFacts ==
    ASSUME NEW i, Built(i)
    PROVE  /\ Reached(i) \in Nat /\ SectorSize \in Nat \ {0} /\ Len(i.source) \in Nat
           /\ Len(i.source) < Reached(i) * SectorSize
           /\ Reached(i) * SectorSize < Len(i.source) + SectorSize
<1>1. Len(i.source) \in Nat /\ Len(i.source) % SectorSize # 0
  BY BuiltImage
<1> QED
  BY <1>1, SectorCount, Stage1Assumption DEF Reached

\* A byte of a sector of the source.
LEMMA SectorByte ==
    ASSUME NEW m \in Nat, NEW t \in Seq(1 .. 255), NEW z \in Nat \ {0}, NEW k \in 1 .. m
    PROVE  (IF (z - 1) * m + k <= Len(t) THEN t[(z - 1) * m + k] ELSE NUL) \in 0 .. 255
<1> DEFINE p == (z - 1) * m + k
<1>1. (z - 1) * m \in Nat
  OBVIOUS
<1>2. p \in Nat \ {0}
  BY <1>1
<1> HIDE DEF p
<1>3. ASSUME p <= Len(t) PROVE t[p] \in 0 .. 255
  <2>1. p \in 1 .. Len(t)
    BY <1>2, <1>3
  <2>2. t[p] \in 1 .. 255
    BY <2>1, ElementOfSeq
  <2> QED
    BY <2>2
<1>4. (IF p <= Len(t) THEN t[p] ELSE NUL) \in 0 .. 255
  BY <1>3 DEF NUL
<1> QED
  BY <1>4 DEF p

LEMMA TextSectors ==
    ASSUME NEW i, Built(i)
    PROVE  /\ Sectors(i.source) \in Seq([1 .. SectorSize -> 0 .. 255])
           /\ Len(Sectors(i.source)) = Reached(i)
           /\ \A z \in 1 .. Reached(i), k \in 1 .. SectorSize :
                Sectors(i.source)[z][k] = IF (z - 1) * SectorSize + k <= Len(i.source)
                                          THEN i.source[(z - 1) * SectorSize + k] ELSE NUL
<1> DEFINE n == Reached(i)
           m == SectorSize
           t == i.source
           S == [1 .. m -> 0 .. 255]
           B(z, k) == IF (z - 1) * m + k <= Len(t) THEN t[(z - 1) * m + k] ELSE NUL
           one == Sectors(t)
<1>1. n \in Nat /\ m \in Nat /\ t \in Seq(1 .. 255)
  BY BuiltImage, ReachedFacts
<1>2. one = [z \in 1 .. n |-> [k \in 1 .. m |-> B(z, k)]]
  BY DEF Sectors, Reached
<1>3. \A z \in 1 .. n, k \in 1 .. m : B(z, k) \in 0 .. 255
  <2> SUFFICES ASSUME NEW z \in 1 .. n, NEW k \in 1 .. m PROVE B(z, k) \in 0 .. 255
    OBVIOUS
  <2>1. z \in Nat \ {0}
    BY <1>1
  <2> HIDE DEF n, m, t
  <2> QED
    BY <1>1, <2>1, SectorByte
<1> HIDE DEF n, m, B, one
<1>4. one \in [1 .. n -> S]
  BY <1>2, <1>3
<1>5. \A z \in 1 .. n, k \in 1 .. m : one[z][k] = B(z, k)
  BY <1>2
<1> HIDE DEF S
<1>6. one \in Seq(S) /\ Len(one) = n
  BY <1>1, <1>4
<1> QED
  BY <1>5, <1>6 DEF n, m, B, one, S

\* What is on the disk, sector by sector.
LEMMA DiskLaidOut ==
    ASSUME NEW i, Built(i)
    PROVE  /\ Len(i.disk) = Reached(i) + 3 /\ i.disk[Reached(i) + 1] = i.script
           /\ \A z \in 1 .. Reached(i) + 3 : i.disk[z] \in [1 .. SectorSize -> 0 .. 255]
           /\ \A z \in 1 .. Reached(i), k \in 1 .. SectorSize :
                i.disk[z][k] = IF (z - 1) * SectorSize + k <= Len(i.source)
                               THEN i.source[(z - 1) * SectorSize + k] ELSE NUL
<1> DEFINE n   == Reached(i)
           S   == [1 .. SectorSize -> 0 .. 255]
           one == Sectors(i.source)
           two == <<i.script, Zeros, Zeros>>
<1>1. n \in Nat /\ i.disk = one \o two /\ i.script \in S
  BY BuiltImage, ReachedFacts
<1>2. one \in Seq(S) /\ Len(one) = n
  BY TextSectors
<1>3. Zeros \in S
  BY DEF Zeros, NUL
<1> HIDE DEF n, S, one
<1>4. two \in Seq(S) /\ Len(two) = 3 /\ two[1] = i.script
  BY <1>1, <1>3
<1> HIDE DEF two
<1>5. /\ Len(one \o two) = n + 3 /\ one \o two \in Seq(S)
      /\ \A z \in 1 .. n + 3 : (one \o two)[z] = IF z <= n THEN one[z] ELSE two[z - n]
  <2>1. /\ one \o two \in Seq(S) /\ Len(one \o two) = Len(one) + Len(two)
        /\ \A z \in 1 .. Len(one) + Len(two) :
             (one \o two)[z] = IF z <= Len(one) THEN one[z] ELSE two[z - Len(one)]
    BY <1>2, <1>4, ConcatProperties
  <2> QED
    BY <1>2, <1>4, <2>1
<1>6. \A z \in 1 .. n + 3 : (one \o two)[z] \in S
  <2> DEFINE q == one \o two
  <2> HIDE DEF q
  <2>1. q \in Seq(S) /\ Len(q) = n + 3
    BY <1>5 DEF q
  <2>2. \A z \in 1 .. n + 3 : q[z] \in S
    BY <2>1
  <2> QED
    BY <2>2 DEF q
<1>7. i.disk[n + 1] = i.script
  <2>1. n + 1 \in 1 .. n + 3 /\ ~(n + 1 <= n) /\ n + 1 - n = 1
    BY <1>1
  <2> QED
    BY <1>1, <1>4, <1>5, <2>1
<1>8. \A z \in 1 .. n : z \in 1 .. n + 3 /\ z <= n /\ i.disk[z] = one[z]
  BY <1>1, <1>5
<1>9. \A z \in 1 .. n + 3 : i.disk[z] \in S
  BY <1>1, <1>6
<1>10. Len(i.disk) = n + 3
  BY <1>1, <1>5
<1>11. \A z \in 1 .. n, k \in 1 .. SectorSize :
          i.disk[z][k] = IF (z - 1) * SectorSize + k <= Len(i.source)
                         THEN i.source[(z - 1) * SectorSize + k] ELSE NUL
  <2>1. \A z \in 1 .. n, k \in 1 .. SectorSize :
          one[z][k] = IF (z - 1) * SectorSize + k <= Len(i.source)
                      THEN i.source[(z - 1) * SectorSize + k] ELSE NUL
    BY TextSectors DEF n, one
  <2> SUFFICES ASSUME NEW z \in 1 .. n, NEW k \in 1 .. SectorSize
               PROVE  i.disk[z][k] = one[z][k]
    BY <2>1
  <2> QED
    BY <1>8
<1> QED
  BY <1>7, <1>9, <1>10, <1>11 DEF n, S

-----------------------------------------------------------------------------
(* The invariant of stage 1 *)

Consumed == (sector - 1) * SectorSize + offset

\* The buffer is the sector read last, and a jump is due to the first byte
\* behind the source.
Scanning ==
    /\ Built(image)
    /\ mode \in {"code", "comment", "jumped"}
    /\ sector \in Nat /\ offset \in 1 .. SectorSize
    /\ sector = 0 => offset = SectorSize
    /\ sector # 0 => sector <= Reached(image) /\ buffer = image.disk[sector]
    /\ mode # "jumped" => Consumed <= Len(image.source)
    /\ mode = "jumped" => Consumed = Len(image.source) + 1

Converted ==
    /\ state \in {0, 1} /\ high \in {16 * n : n \in 0 .. 15}
    /\ output \in Seq(0 .. 255)

LEMMA ConsumedCounts ==
    ASSUME Scanning
    PROVE  Consumed \in Nat
<1> DEFINE m == SectorSize
<1>1. /\ sector \in Nat /\ offset \in 1 .. m /\ (sector = 0 => offset = m) /\ m \in Nat \ {0}
      /\ Consumed = (sector - 1) * m + offset
  BY Stage1Assumption DEF Scanning, Consumed
<1> HIDE DEF m
<1>2. CASE sector = 0
  BY <1>1, <1>2
<1>3. CASE sector # 0
  <2>1. (sector - 1) * m \in Nat
    BY <1>1, <1>3
  <2> QED
    BY <1>1, <2>1
<1> QED
  BY <1>2, <1>3

\* The next byte is that of the source behind those consumed, or the zero
\* behind it.
LEMMA NextConsumed ==
    ASSUME Scanning, mode # "jumped", NextByte
    PROVE  /\ Consumed \in Nat /\ Consumed <= Len(image.source) /\ Len(image.source) \in Nat
           /\ Byte = (IF Consumed + 1 <= Len(image.source) THEN image.source[Consumed + 1] ELSE NUL)
           /\ ((sector' - 1) * SectorSize + offset' = Consumed + 1)
           /\ sector' \in 1 .. Reached(image) /\ offset' \in 1 .. SectorSize
           /\ buffer' = image.disk[sector']
<1> DEFINE m == SectorSize
           n == Reached(image)
           l == Len(image.source)
           d == image.disk
           B(p) == IF p <= l THEN image.source[p] ELSE NUL
<1>1. /\ n \in Nat /\ m \in Nat \ {0} /\ l \in Nat /\ l < n * m /\ Built(image)
  BY ReachedFacts DEF Scanning
<1>2. /\ Len(d) = n + 3
      /\ \A z \in 1 .. n, k \in 1 .. m : d[z][k] = B((z - 1) * m + k)
  BY <1>1, DiskLaidOut
<1>3. /\ sector \in Nat /\ offset \in 1 .. m /\ (sector = 0 => offset = m) /\ Consumed <= l
      /\ sector # 0 => sector <= n /\ buffer = d[sector]
  BY DEF Scanning
<1>4. Consumed = (sector - 1) * m + offset
  BY DEF Consumed
<1> HIDE DEF n, l, d, B, m
<1>5. sector * m \in Nat /\ (sector - 1) * m = sector * m - m
  BY <1>1, <1>3
<1>6. Consumed \in Nat
  BY ConsumedCounts
<1>7. CASE BufferUsed
  <2>1. offset = m
    BY <1>1, <1>3, <1>7 DEF BufferUsed, m
  <2>2. Consumed = sector * m
    BY <1>1, <1>3, <1>4, <1>5, <2>1
  <2>3. sector < n
    <3>1. sector * m < n * m
      BY <1>1, <1>3, <1>5, <2>2
    <3> QED
      BY <1>1, <1>3, <3>1, Cancel
  <2>4. sector' = sector + 1 /\ offset' = 1 /\ buffer' = d[sector + 1] /\ Byte = d[sector + 1][1]
    BY <1>7 DEF NextByte, Byte, d
  <2>5. sector + 1 \in 1 .. n /\ 1 \in 1 .. m /\ sector + 1 - 1 = sector
    BY <1>1, <1>3, <2>3
  <2>6. d[sector + 1][1] = B(sector * m + 1)
    <3>1. PICK z \in 1 .. n : z = sector + 1
      BY <2>5
    <3>2. d[z][1] = B((z - 1) * m + 1)
      BY <1>2, <2>5
    <3>3. z - 1 = sector
      BY <1>3, <3>1
    <3> QED
      BY <3>1, <3>2, <3>3
  <2>7. (sector' - 1) * m + offset' = Consumed + 1
    <3>1. sector' - 1 = sector /\ offset' = 1
      BY <1>3, <2>4
    <3> QED
      BY <2>2, <3>1
  <2> QED
    BY <1>1, <1>3, <1>6, <2>2, <2>4, <2>5, <2>6, <2>7 DEF B, d, m, n, l
<1>8. CASE ~BufferUsed
  <2>1. offset < m /\ sector # 0 /\ offset + 1 \in 1 .. m
    BY <1>1, <1>3, <1>8 DEF BufferUsed, m
  <2>2. sector' = sector /\ offset' = offset + 1 /\ buffer' = d[sector] /\ Byte = d[sector][offset + 1]
    BY <1>3, <1>8, <2>1 DEF NextByte, Byte
  <2>3. sector \in 1 .. n
    BY <1>1, <1>3, <2>1
  <2>4. d[sector][offset + 1] = B((sector - 1) * m + (offset + 1))
    BY <1>2, <2>1, <2>3
  <2>5. (sector - 1) * m + (offset + 1) = Consumed + 1
    BY <1>1, <1>3, <1>4, <1>5
  <2> QED
    BY <1>1, <1>3, <1>6, <2>1, <2>2, <2>3, <2>4, <2>5 DEF B, d, m, n, l
<1> QED
  BY <1>7, <1>8

\* A zero ends the source and nothing else.
LEMMA ZeroBehind ==
    ASSUME Scanning, mode # "jumped", NextByte
    PROVE  /\ Byte \in 0 .. 255
           /\ Byte = NUL => Consumed = Len(image.source)
           /\ Byte # NUL => Consumed + 1 <= Len(image.source)
<1> DEFINE p == Consumed + 1
           t == image.source
<1>1. Consumed \in Nat /\ Consumed <= Len(t) /\ Byte = IF p <= Len(t) THEN t[p] ELSE NUL
  BY NextConsumed
<1>2. t \in Seq(1 .. 255) /\ Len(t) \in Nat
  BY BuiltImage DEF Scanning
<1>3. p \in Nat \ {0}
  BY <1>1
<1> HIDE DEF t
<1>4. CASE p <= Len(t)
  <2> HIDE DEF p
  <2>1. p \in 1 .. Len(t)
    BY <1>2, <1>3, <1>4
  <2>2. Byte \in 1 .. 255
    BY <1>1, <1>2, <1>4, <2>1, ElementOfSeq
  <2>3. Byte # NUL
    BY <2>2 DEF NUL
  <2> QED
    BY <1>4, <2>2, <2>3 DEF p, t
<1>5. CASE ~(p <= Len(t))
  BY <1>1, <1>2, <1>5 DEF NUL, t
<1> QED
  BY <1>4, <1>5

LEMMA ScanningBegins ==
    ASSUME AllBuilt(Images), Init
    PROVE  Scanning
<1>1. SectorSize \in Nat \ {0}
  BY Stage1Assumption
<1>2. Built(image) /\ mode = "code" /\ sector = 0 /\ offset = SectorSize
  BY DEF Init, AllBuilt
<1>3. Consumed = 0
  <2>1. 0 - 1 = -1 /\ (-1) * SectorSize = -SectorSize
    BY <1>1
  <2> QED
    BY <1>1, <1>2, <2>1 DEF Consumed
<1>4. Len(image.source) >= 0
  OBVIOUS
<1> QED
  BY <1>1, <1>2, <1>3, <1>4 DEF Scanning

LEMMA ScanningGoesOn ==
    ASSUME Scanning, mode # "jumped", NextByte, image' = image,
           mode' \in {"code", "comment", "jumped"}, mode' = "jumped" <=> Byte = NUL
    PROVE  Scanning'
<1> DEFINE l == Len(image.source)
<1>1. /\ Consumed \in Nat /\ (sector' - 1) * SectorSize + offset' = Consumed + 1
      /\ sector' \in 1 .. Reached(image) /\ offset' \in 1 .. SectorSize
      /\ buffer' = image.disk[sector']
  BY NextConsumed
<1>2. Consumed' = Consumed + 1
  BY <1>1 DEF Consumed
<1>3. Built(image)
  BY DEF Scanning
<1>4. Reached(image) \in Nat /\ Reached(image)' = Reached(image)
  BY <1>3, ReachedFacts DEF Reached
<1>5. mode' = "jumped" => Consumed' = l + 1
  BY <1>2, ZeroBehind
<1>6. mode' # "jumped" => Consumed' <= l
  BY <1>2, ZeroBehind
<1>7. sector' \in Nat /\ sector' # 0 /\ sector' <= Reached(image)
  BY <1>1, <1>4
<1> QED
  BY <1>1, <1>3, <1>4, <1>5, <1>6, <1>7 DEF Scanning

LEMMA ScanningKept ==
    ASSUME Scanning, [Next]_vars
    PROVE  Scanning'
<1>1. CASE Hex0Loop
  <2>1. mode = "code" /\ NextByte /\ image' = image
    BY <1>1 DEF Hex0Loop
  <2>2. Byte = NUL => Byte \notin CommentSigns
    BY DEF NUL, CommentSigns
  <2>3. mode' \in {"code", "comment", "jumped"} /\ (mode' = "jumped" <=> Byte = NUL)
    BY <1>1, <2>1, <2>2 DEF Hex0Loop
  <2> QED
    BY <2>1, <2>3, ScanningGoesOn
<1>2. CASE SkipComment
  <2>1. mode = "comment" /\ NextByte /\ image' = image /\ mode' = AfterComment
    BY <1>2 DEF SkipComment
  <2>2. mode' \in {"code", "comment", "jumped"} /\ (mode' = "jumped" <=> Byte = NUL)
    BY <2>1 DEF AfterComment, NUL, NL
  <2> QED
    BY <2>1, <2>2, ScanningGoesOn
<1>3. CASE UNCHANGED vars
  BY <1>3 DEF vars, source, Scanning, Consumed, Reached
<1> QED
  BY <1>1, <1>2, <1>3 DEF Next

\* The jump is due in the last sector of the source.
LEMMA JumpsInTheLast ==
    ASSUME Scanning, mode = "jumped"
    PROVE  sector = Reached(image)
<1> DEFINE m == SectorSize
           n == Reached(image)
           l == Len(image.source)
<1>1. Built(image) /\ sector \in Nat /\ offset \in 1 .. m /\ (sector = 0 => offset = m)
      /\ (sector # 0 => sector <= n) /\ Consumed = l + 1
  BY DEF Scanning
<1>2. n \in Nat /\ m \in Nat \ {0} /\ l \in Nat /\ l < n * m /\ n * m < l + m
  BY <1>1, ReachedFacts
<1>3. Consumed = (sector - 1) * m + offset
  BY DEF Consumed
<1> HIDE DEF m, n, l
<1>4. (sector - 1) * m = sector * m - m /\ (n - 1) * m = n * m - m
  BY <1>1, <1>2
<1>5. sector * m \in Nat /\ n * m \in Nat
  BY <1>1, <1>2
<1>6. (n - 1) * m < sector * m
  BY <1>1, <1>2, <1>3, <1>4, <1>5
<1>7. n - 1 < sector
  BY <1>1, <1>2, <1>6, Cancel
<1>8. sector <= n
  BY <1>1, <1>2
<1> QED
  BY <1>1, <1>2, <1>7, <1>8 DEF n

LEMMA HandsOver ==
    ASSUME Scanning
    PROVE  HandsOverTheScript
<1> SUFFICES ASSUME mode = "jumped" PROVE image.disk[sector + 1] = image.script
  BY DEF HandsOverTheScript
<1>1. Built(image)
  BY DEF Scanning
<1> QED
  BY <1>1, JumpsInTheLast, DiskLaidOut

-----------------------------------------------------------------------------
(* The types *)

LEMMA NibbleTypes ==
    ASSUME NEW b \in 0 .. 255
    PROVE  /\ Stage1Nibble(b) # NoDigit => Stage1Nibble(b) \in 0 .. 15
           /\ Command!Stage2Nibble(b) # Command!NoDigit => Command!Stage2Nibble(b) \in 0 .. 15
<1>1. Stage1Nibble(b) # NoDigit => Stage1Nibble(b) \in 0 .. 15
  BY DEF Stage1Nibble, Beyond, LetterDigits, NoDigit
<1>2. Command!Stage2Nibble(b) # Command!NoDigit => Command!Stage2Nibble(b) \in 0 .. 15
  BY DEF Command!Stage2Nibble, Command!NoDigit
<1> QED
  BY <1>1, <1>2

LEMMA ByteAppended ==
    ASSUME NEW h \in {16 * n : n \in 0 .. 15}, NEW d \in 0 .. 15, NEW out \in Seq(0 .. 255)
    PROVE  Append(out, h + d) \in Seq(0 .. 255)
<1>1. PICK n \in 0 .. 15 : h = 16 * n
  OBVIOUS
<1>2. h + d \in 0 .. 255
  BY <1>1
<1> QED
  BY <1>2, AppendProperties

LEMMA ConvertedKept ==
    ASSUME Scanning, Converted, [Next]_vars
    PROVE  Converted'
<1>1. CASE Hex0Loop
  <2>1. mode = "code" /\ NextByte
    BY <1>1 DEF Hex0Loop
  <2>2. Byte \in 0 .. 255
    BY <2>1, ZeroBehind
  <2>3. CASE UNCHANGED <<state, high, output>>
    BY <2>3 DEF Converted
  <2>4. CASE Stage1Nibble(Byte) # NoDigit /\ GotNibble(Stage1Nibble(Byte))
    <3>1. PICK d \in 0 .. 15 : d = Stage1Nibble(Byte) /\ GotNibble(d)
      BY <2>2, <2>4, NibbleTypes
    <3>2. CASE state = 0
      BY <3>1, <3>2 DEF GotNibble, Converted
    <3>3. CASE state # 0
      BY <3>1, <3>3, ByteAppended DEF GotNibble, Converted, Reset
    <3> QED
      BY <3>2, <3>3
  <2> QED
    BY <1>1, <2>3, <2>4 DEF Hex0Loop
<1>2. CASE SkipComment
  BY <1>2 DEF SkipComment, Converted
<1>3. CASE UNCHANGED vars
  BY <1>3 DEF vars, Converted
<1> QED
  BY <1>1, <1>2, <1>3 DEF Next

LEMMA Typed ==
    ASSUME Scanning, Converted
    PROVE  TypeOK
<1>1. Built(image)
  BY DEF Scanning
<1>2. Len(image.disk) = Reached(image) + 3 /\ Reached(image) \in Nat
  BY <1>1, DiskLaidOut, ReachedFacts
<1>3. sector \in 0 .. Len(image.disk)
  BY <1>2 DEF Scanning
<1> QED
  BY <1>3 DEF Scanning, Converted, TypeOK

\* The command's files hold bytes, and it reads nothing behind their ends.
Reading == file \in Seq(0 .. 255) /\ Command!TypeOK

LEMMA FilesAreBytes ==
    ASSUME NEW i, Built(i), NEW f \in FilesOf(i)
    PROVE  f \in Seq(0 .. 255)
<1>1. i.source \in Seq(1 .. 255) /\ i.script \in [1 .. SectorSize -> 0 .. 255]
  BY BuiltImage
<1>2. i.source \in Seq(0 .. 255)
  BY <1>1
<1>3. i.script \in Seq(0 .. 255)
  BY <1>1, Stage1Assumption
<1>4. <<NUL>> \in Seq(0 .. 255)
  BY DEF NUL
<1>5. i.source \o <<NUL>> \in Seq(0 .. 255)
  BY <1>2, <1>4, ConcatProperties
<1>6. i.source \o <<NUL>> \o i.script \in Seq(0 .. 255)
  BY <1>3, <1>5, ConcatProperties
<1> QED
  BY <1>2, <1>6 DEF FilesOf

LEMMA ReadingBegins ==
    ASSUME Command!Init
    PROVE  Reading
<1>1. 0 \in {16 * n : n \in 0 .. 15}
  <2>1. 16 * 0 = 0
    OBVIOUS
  <2> QED
    BY <2>1
<1>2. Len(file) = 0
  BY DEF Command!Init
<1> QED
  BY <1>1, <1>2 DEF Command!Init, Command!TypeOK, Reading

LEMMA ReadingStarts ==
    ASSUME Scanning, Reading, StartCommand
    PROVE  Reading'
<1>1. PICK f \in FilesOf(image) : Command!Start(f)
  BY DEF StartCommand
<1>2. f \in Seq(0 .. 255)
  BY FilesAreBytes DEF Scanning
<1>3. 0 \in {16 * n : n \in 0 .. 15}
  <2>1. 16 * 0 = 0
    OBVIOUS
  <2> QED
    BY <2>1
<1>4. /\ file' = f /\ place' = 0 /\ phase' = "code" /\ fileState' = 0 /\ fileHigh' = 0
      /\ built' = <<>>
  BY <1>1 DEF Command!Start
<1> QED
  BY <1>2, <1>3, <1>4 DEF Command!TypeOK, Reading

LEMMA ReadingKept ==
    ASSUME Reading, Compile
    PROVE  Reading'
<1>1. CASE Command!CompileLoop
  <2> DEFINE b == file[place + 1]
  <2>1. file \in Seq(0 .. 255) /\ place \in 0 .. Len(file) /\ place # Len(file)
    BY <1>1 DEF Reading, Command!TypeOK, Command!CompileLoop, Command!AtEnd
  <2>2. place + 1 \in 1 .. Len(file)
    BY <2>1
  <2>3. b \in 0 .. 255
    BY <2>1, <2>2, ElementOfSeq
  <2>4. place' = place + 1 /\ file' = file
    BY <1>1 DEF Command!CompileLoop
  <2>5. /\ fileState \in {0, 1} /\ fileHigh \in {16 * n : n \in 0 .. 15} /\ built \in Seq(0 .. 255)
        /\ phase \in {"waiting", "code", "comment", "done"}
    BY DEF Reading, Command!TypeOK
  <2>6. /\ fileState' \in {0, 1} /\ fileHigh' \in {16 * n : n \in 0 .. 15} /\ built' \in Seq(0 .. 255)
        /\ phase' \in {"waiting", "code", "comment", "done"}
    <3>1. CASE UNCHANGED <<fileState, fileHigh, built>>
      BY <1>1, <2>5, <3>1 DEF Command!CompileLoop
    <3>2. CASE Command!Stage2Nibble(b) # Command!NoDigit
          /\ Command!GotNibble(Command!Stage2Nibble(b)) /\ phase' = phase
      <4>1. PICK d \in 0 .. 15 : Command!GotNibble(d)
        BY <2>3, <3>2, NibbleTypes
      <4>2. CASE fileState = 0
        BY <2>5, <3>2, <4>1, <4>2 DEF Command!GotNibble
      <4>3. CASE fileState # 0
        BY <2>5, <3>2, <4>1, <4>3, ByteAppended DEF Command!GotNibble
      <4> QED
        BY <4>2, <4>3
    <3>3. \/ UNCHANGED <<fileState, fileHigh, built>>
          \/ /\ Command!Stage2Nibble(b) # Command!NoDigit
             /\ Command!GotNibble(Command!Stage2Nibble(b)) /\ phase' = phase
      <4>1. file[place'] = b
        BY <2>4
      <4> QED
        BY <1>1, <4>1, Zenon DEF Command!CompileLoop
    <3> QED
      BY <3>1, <3>2, <3>3
  <2> QED
    BY <2>1, <2>2, <2>4, <2>6 DEF Reading, Command!TypeOK
<1>2. CASE Command!SkipComment
  <2>1. place \in 0 .. Len(file) /\ place # Len(file) /\ place' = place + 1 /\ file' = file
    BY <1>2 DEF Reading, Command!TypeOK, Command!SkipComment, Command!AtEnd
  <2>2. place' \in 0 .. Len(file')
    BY <2>1
  <2> QED
    BY <1>2, <2>1, <2>2 DEF Reading, Command!TypeOK, Command!SkipComment
<1>3. CASE Command!Done
  BY <1>3 DEF Reading, Command!TypeOK, Command!Done
<1> QED
  BY <1>1, <1>2, <1>3 DEF Compile, Command!Next

-----------------------------------------------------------------------------
(* What a text stands for: its digits, in their order, as they are come by *)

UpTo(t, c) == {q \in Places(t) : q <= c}

\* How many digits there are in the first c bytes.
Seen(t, c) == Cardinality(UpTo(t, c))

LEMMA PlacesFacts ==
    ASSUME NEW t \in Seq(0 .. 255)
    PROVE  /\ Places(t) \subseteq 1 .. Len(t) /\ Len(t) \in Nat
           /\ IsFiniteSet(Places(t)) /\ Cardinality(Places(t)) \in Nat
<1>1. Len(t) \in Nat /\ DOMAIN t = 1 .. Len(t)
  OBVIOUS
<1>2. Places(t) \subseteq 1 .. Len(t)
  BY <1>1 DEF Places
<1>3. IsFiniteSet(1 .. Len(t))
  BY <1>1, FS_Interval
<1>4. IsFiniteSet(Places(t))
  BY <1>2, <1>3, FS_Subset
<1> QED
  BY <1>1, <1>2, <1>4, FS_CardinalityType

LEMMA SeenFacts ==
    ASSUME NEW t \in Seq(0 .. 255), NEW c \in Nat
    PROVE  /\ IsFiniteSet(UpTo(t, c)) /\ Seen(t, c) \in 0 .. Cardinality(Places(t))
           /\ c >= Len(t) => Seen(t, c) = Cardinality(Places(t))
           /\ Seen(t, 0) = 0
<1>1. UpTo(t, c) \in SUBSET Places(t)
  BY DEF UpTo
<1>2. IsFiniteSet(UpTo(t, c)) /\ Cardinality(UpTo(t, c)) <= Cardinality(Places(t))
  BY <1>1, PlacesFacts, FS_Subset
<1>3. Seen(t, c) \in Nat
  BY <1>2, FS_CardinalityType DEF Seen
<1>4. c >= Len(t) => UpTo(t, c) = Places(t)
  BY PlacesFacts DEF UpTo
<1>5. UpTo(t, 0) = {}
  BY PlacesFacts DEF UpTo
<1>6. Seen(t, 0) = 0
  BY <1>5, FS_EmptySet DEF Seen
<1> QED
  BY <1>2, <1>3, <1>4, <1>6, PlacesFacts DEF Seen

LEMMA SeenNext ==
    ASSUME NEW t \in Seq(0 .. 255), NEW c \in Nat
    PROVE  Seen(t, c + 1) = IF c + 1 \in Places(t) THEN Seen(t, c) + 1 ELSE Seen(t, c)
<1>1. \A q \in Places(t) : q \in Nat
  BY PlacesFacts
<1>2. CASE c + 1 \in Places(t)
  <2>1. UpTo(t, c + 1) = UpTo(t, c) \cup {c + 1}
    BY <1>1, <1>2 DEF UpTo
  <2>2. c + 1 \notin UpTo(t, c)
    BY DEF UpTo
  <2> QED
    BY <1>2, <2>1, <2>2, SeenFacts, FS_AddElement DEF Seen
<1>3. CASE c + 1 \notin Places(t)
  <2>1. UpTo(t, c + 1) = UpTo(t, c)
    BY <1>1, <1>3 DEF UpTo
  <2> QED
    BY <1>3, <2>1 DEF Seen
<1> QED
  BY <1>2, <1>3

\* No two digits are the n-th.
LEMMA SeenGrows ==
    ASSUME NEW t \in Seq(0 .. 255), NEW p \in Places(t), NEW q \in Places(t), p < q
    PROVE  Seen(t, p) < Seen(t, q)
<1>1. p \in Nat /\ q \in Nat
  BY PlacesFacts
<1>2. UpTo(t, p) \in SUBSET UpTo(t, q)
  BY <1>1, PlacesFacts DEF UpTo
<1>3. q \in UpTo(t, q) /\ q \notin UpTo(t, p)
  BY <1>1 DEF UpTo
<1>4. IsFiniteSet(UpTo(t, q)) /\ Seen(t, p) \in Nat /\ Seen(t, q) \in Nat
  BY <1>1, SeenFacts, PlacesFacts
<1>5. Cardinality(UpTo(t, p)) <= Cardinality(UpTo(t, q)) /\ Cardinality(UpTo(t, p)) # Cardinality(UpTo(t, q))
  BY <1>2, <1>3, <1>4, FS_Subset
<1> QED
  BY <1>4, <1>5 DEF Seen

LEMMA NthDigit ==
    ASSUME NEW t \in Seq(0 .. 255), NEW p \in Places(t)
    PROVE  /\ Seen(t, p) \in 1 .. Cardinality(Places(t))
           /\ Digits(t)[Seen(t, p)] = DigitValue(t[p])
<1> DEFINE n == Seen(t, p)
           r == CHOOSE q \in Places(t) : Cardinality({o \in Places(t) : o <= q}) = n
<1>1. p \in Nat /\ Cardinality(Places(t)) \in Nat
  BY PlacesFacts
<1>2. p \in UpTo(t, p)
  BY <1>1 DEF UpTo
<1>3. n \in 0 .. Cardinality(Places(t)) /\ IsFiniteSet(UpTo(t, p))
  BY <1>1, SeenFacts
<1>4. n # 0
  BY <1>2, <1>3, FS_EmptySet DEF Seen
<1>5. n \in 1 .. Cardinality(Places(t))
  BY <1>1, <1>3, <1>4
<1>6. \E q \in Places(t) : Cardinality({o \in Places(t) : o <= q}) = n
  BY DEF Seen, UpTo
<1>7. r \in Places(t) /\ Cardinality({o \in Places(t) : o <= r}) = n
  BY <1>6
<1>8. Seen(t, r) = n
  BY <1>7 DEF Seen, UpTo
<1>9. r = p
  <2>1. r \in Nat
    BY <1>7, PlacesFacts
  <2>2. Seen(t, r) \in Nat
    BY <1>3, <1>8
  <2> HIDE DEF r
  <2>3. ~(r < p) /\ ~(p < r)
    BY <1>7, <1>8, <2>2, SeenGrows
  <2> QED
    BY <1>1, <2>1, <2>3
<1>10. Digits(t)[n] = DigitValue(t[r])
  BY <1>5 DEF Digits
<1> QED
  BY <1>5, <1>9, <1>10

\* A comment begins with its sign, ends with the line, and goes on otherwise.
LEMMA CommentNext ==
    ASSUME NEW t \in Seq(0 .. 255), NEW c \in Nat
    PROVE  /\ InComment(t, c + 1) <=> t[c + 1] # NL /\ (t[c + 1] \in CommentSigns \/ InComment(t, c))
           /\ ~InComment(t, 0)
<1>1. ASSUME InComment(t, c + 1)
      PROVE  t[c + 1] # NL /\ (t[c + 1] \in CommentSigns \/ InComment(t, c))
  <2>1. PICK j \in 1 .. c + 1 : t[j] \in CommentSigns /\ \A k \in j .. c + 1 : t[k] # NL
    BY <1>1 DEF InComment
  <2>2. t[c + 1] # NL
    BY <2>1
  <2>3. CASE j = c + 1
    BY <2>1, <2>2, <2>3
  <2>4. CASE j # c + 1
    BY <2>1, <2>2, <2>4 DEF InComment
  <2> QED
    BY <2>3, <2>4
<1>2. ASSUME t[c + 1] # NL, t[c + 1] \in CommentSigns
      PROVE  InComment(t, c + 1)
  <2>1. c + 1 \in 1 .. c + 1 /\ \A k \in c + 1 .. c + 1 : t[k] # NL
    BY <1>2
  <2> QED
    BY <1>2, <2>1 DEF InComment
<1>3. ASSUME t[c + 1] # NL, InComment(t, c)
      PROVE  InComment(t, c + 1)
  <2>1. PICK j \in 1 .. c : t[j] \in CommentSigns /\ \A k \in j .. c : t[k] # NL
    BY <1>3 DEF InComment
  <2>2. j \in 1 .. c + 1 /\ \A k \in j .. c + 1 : t[k] # NL
    BY <1>3, <2>1
  <2> QED
    BY <2>1, <2>2 DEF InComment
<1>4. ~InComment(t, 0)
  BY DEF InComment
<1> QED
  BY <1>1, <1>2, <1>3, <1>4

LEMMA PlaceNext ==
    ASSUME NEW t \in Seq(0 .. 255), NEW c \in Nat
    PROVE  c + 1 \in Places(t) <=> c + 1 <= Len(t) /\ t[c + 1] \in DigitSet /\ ~InComment(t, c)
<1>1. DOMAIN t = 1 .. Len(t) /\ Len(t) \in Nat
  OBVIOUS
<1>2. \A b \in DigitSet : b # NL /\ b \notin CommentSigns
  BY DEF DigitSet, NL, CommentSigns
<1>3. c + 1 \in DOMAIN t <=> c + 1 <= Len(t)
  BY <1>1
<1>4. c + 1 \in Places(t) <=> c + 1 \in DOMAIN t /\ t[c + 1] \in DigitSet /\ ~InComment(t, c + 1)
  BY DEF Places
<1> QED
  BY <1>2, <1>3, <1>4, CommentNext

\* What a compiler has when it has looked at c bytes of text t.
Translated(t, c, out, st, hi) ==
    /\ out \in Seq(0 .. 255) /\ st \in {0, 1}
    /\ Seen(t, c) = 2 * Len(out) + st
    /\ \A i \in 1 .. Len(out) : out[i] = 16 * Digits(t)[2 * i - 1] + Digits(t)[2 * i]
    /\ st = 1 => hi = 16 * Digits(t)[Seen(t, c)]

LEMMA NothingYet ==
    ASSUME NEW t \in Seq(0 .. 255), NEW hi
    PROVE  Translated(t, 0, <<>>, 0, hi)
BY SeenFacts DEF Translated

LEMMA NoDigitNext ==
    ASSUME NEW t \in Seq(0 .. 255), NEW c \in Nat, NEW out, NEW st, NEW hi,
           Translated(t, c, out, st, hi), c + 1 \notin Places(t)
    PROVE  Translated(t, c + 1, out, st, hi)
<1>1. Seen(t, c + 1) = Seen(t, c)
  BY SeenNext
<1> QED
  BY <1>1 DEF Translated

LEMMA DigitNext ==
    ASSUME NEW t \in Seq(0 .. 255), NEW c \in Nat, NEW out, NEW st, NEW hi,
           Translated(t, c, out, st, hi), c + 1 \in Places(t),
           NEW d, d = DigitValue(t[c + 1])
    PROVE  /\ st = 0 => Translated(t, c + 1, out, 1, 16 * d)
           /\ st = 1 /\ hi + d \in 0 .. 255 => \A h : Translated(t, c + 1, Append(out, hi + d), 0, h)
<1> DEFINE digit == Digits(t)
           n == Seen(t, c)
           l == Len(out)
<1>1. Seen(t, c + 1) = n + 1 /\ digit[n + 1] = d /\ n \in Nat
  <2>1. Seen(t, c + 1) = n + 1 /\ n \in Nat
    BY SeenNext, SeenFacts
  <2>2. Digits(t)[Seen(t, c + 1)] = d
    BY NthDigit
  <2> QED
    BY <2>1, <2>2
<1>2. out \in Seq(0 .. 255) /\ l \in Nat /\ n = 2 * l + st
  BY DEF Translated
<1>3. \A i \in 1 .. l : out[i] = 16 * digit[2 * i - 1] + digit[2 * i]
  BY DEF Translated
<1> HIDE DEF digit, n, l
<1>4. st = 0 => Translated(t, c + 1, out, 1, 16 * d)
  BY <1>1, <1>2, <1>3 DEF Translated, digit, l
<1>5. ASSUME st = 1, hi + d \in 0 .. 255, NEW h
      PROVE  Translated(t, c + 1, Append(out, hi + d), 0, h)
  <2> DEFINE o == Append(out, hi + d)
  <2>1. hi = 16 * digit[n]
    BY <1>5 DEF Translated, digit, n
  <2>2. /\ o \in Seq(0 .. 255) /\ Len(o) = l + 1 /\ o[l + 1] = hi + d
        /\ \A i \in 1 .. l : o[i] = out[i]
    BY <1>2, <1>5, AppendProperties DEF l
  <2>3. n + 1 = 2 * (l + 1) /\ n = 2 * (l + 1) - 1
    BY <1>2, <1>5
  <2>4. o[l + 1] = 16 * digit[2 * (l + 1) - 1] + digit[2 * (l + 1)]
    BY <1>1, <2>1, <2>2, <2>3
  <2> HIDE DEF o
  <2>5. \A i \in 1 .. l + 1 : o[i] = 16 * digit[2 * i - 1] + digit[2 * i]
    <3> SUFFICES ASSUME NEW i \in 1 .. l + 1 PROVE o[i] = 16 * digit[2 * i - 1] + digit[2 * i]
      OBVIOUS
    <3>1. CASE i = l + 1
      BY <2>4, <3>1
    <3>2. CASE i # l + 1
      <4>1. i \in 1 .. l
        BY <1>2, <3>2
      <4> QED
        BY <1>3, <2>2, <4>1
    <3> QED
      BY <3>1, <3>2
  <2>6. Seen(t, c + 1) = 2 * Len(o) + 0
    BY <1>1, <1>2, <2>2, <2>3
  <2>7. Translated(t, c + 1, o, 0, h)
    BY <2>2, <2>5, <2>6 DEF Translated, digit
  <2> QED
    BY <2>7 DEF o
<1> QED
  BY <1>4, <1>5

LEMMA TranslatedSoFar ==
    ASSUME NEW t \in Seq(0 .. 255), NEW c \in Nat, NEW out, NEW st, NEW hi,
           Translated(t, c, out, st, hi)
    PROVE  /\ IsPrefix(out, Assembled(t))
           /\ c >= Len(t) => out = Assembled(t)
<1> DEFINE digit == Digits(t)
           A == Assembled(t)
           l == Len(out)
           m == Cardinality(Places(t))
<1>1. m \in Nat /\ Seen(t, c) \in 0 .. m /\ (c >= Len(t) => Seen(t, c) = m)
  BY PlacesFacts, SeenFacts
<1>2. Len(digit) = m
  BY <1>1 DEF Digits
<1>3. A = [i \in 1 .. m \div 2 |-> 16 * digit[2 * i - 1] + digit[2 * i]]
  BY <1>2 DEF Assembled
<1>4. out \in Seq(0 .. 255) /\ l \in Nat /\ st \in {0, 1} /\ Seen(t, c) = 2 * l + st
  BY DEF Translated
<1>5. \A i \in 1 .. l : out[i] = 16 * digit[2 * i - 1] + digit[2 * i]
  BY DEF Translated
<1> HIDE DEF digit, A, m, l
<1>6. m \div 2 \in Nat /\ l <= m \div 2 /\ (c >= Len(t) => l = m \div 2)
  BY <1>1, <1>4
<1>7. Len(A) = m \div 2 /\ DOMAIN A = 1 .. m \div 2 /\ \A i \in 1 .. l : A[i] = out[i]
  <2>1. DOMAIN A = 1 .. m \div 2 /\ Len(A) = m \div 2
    BY <1>3, <1>6
  <2>2. \A i \in 1 .. l : i \in 1 .. m \div 2 /\ A[i] = 16 * digit[2 * i - 1] + digit[2 * i]
    BY <1>3, <1>4, <1>6
  <2> QED
    BY <1>5, <2>1, <2>2
<1>8. out = [i \in 1 .. l |-> out[i]]
  BY <1>4 DEF l
<1>9. A = [i \in 1 .. m \div 2 |-> A[i]]
  BY <1>3
<1>10. SubSeq(out, 1, l) = [i \in 1 .. l |-> out[i]] /\ SubSeq(A, 1, l) = [i \in 1 .. l |-> A[i]]
  BY <1>4, <1>6, <1>7
<1>11. IsPrefix(out, A)
  BY <1>6, <1>7, <1>10 DEF IsPrefix, l
<1>12. c >= Len(t) => out = A
  BY <1>6, <1>7, <1>8, <1>9
<1> QED
  BY <1>11, <1>12 DEF A

\* Both compilers' tests find the digits and what they count, and nothing else.
LEMMA NibblesAreDigits ==
    ASSUME NEW b \in 0 .. 255
    PROVE  /\ Stage1Nibble(b) = (IF b \in DigitSet THEN DigitValue(b) ELSE NoDigit)
           /\ Command!Stage2Nibble(b) = (IF b \in DigitSet THEN DigitValue(b) ELSE NoDigit)
           /\ b \in DigitSet => DigitValue(b) \in 0 .. 15
<1>1. b \in 48 .. 57 => DigitValue(b) = b - 48
  BY DEF DigitValue
<1>2. b \in 65 .. 70 => DigitValue(b) = b - 55
  BY DEF DigitValue
<1>3. b \in 97 .. 102 => DigitValue(b) = b - 87
  BY DEF DigitValue
<1>4. Stage1Nibble(b) = CASE b \in 48 .. 57  -> b - 48
                          [] b \in 65 .. 70  -> b - 55
                          [] b \in 97 .. 102 -> b - 87
                          [] OTHER           -> NoDigit
  BY DEF Stage1Nibble, Beyond, LetterDigits, NoDigit
<1>5. Command!Stage2Nibble(b) = CASE b \in 48 .. 57  -> b - 48
                                  [] b \in 65 .. 70  -> b - 55
                                  [] b \in 97 .. 102 -> b - 87
                                  [] OTHER           -> NoDigit
  BY DEF Command!Stage2Nibble, Command!NoDigit, NoDigit
<1>6. b \in DigitSet <=> b \in 48 .. 57 \/ b \in 65 .. 70 \/ b \in 97 .. 102
  BY DEF DigitSet
<1> QED
  BY <1>1, <1>2, <1>3, <1>4, <1>5, <1>6

LEMMA CommandReference ==
    ASSUME NEW t
    PROVE  /\ Command!Assembled(t) = Assembled(t)
           /\ \A s : Command!IsPrefix(s, t) = IsPrefix(s, t)
           /\ Command!CommentSigns = CommentSigns /\ Command!NL = NL /\ Command!NoDigit = NoDigit
<1>1. Command!CommentSigns = CommentSigns /\ Command!NL = NL /\ Command!NoDigit = NoDigit
  BY DEF Command!CommentSigns, CommentSigns, Command!NL, NL, Command!NoDigit, NoDigit
<1>2. Command!Digits(t) = Digits(t)
  BY DEF Command!Digits, Digits, Command!Places, Places, Command!InComment, InComment,
         Command!DigitSet, DigitSet, Command!DigitValue, DigitValue, Command!CommentSigns, CommentSigns,
         Command!NL, NL, Command!Cardinality, Cardinality
<1>3. Command!Assembled(t) = Assembled(t)
  BY <1>2 DEF Command!Assembled, Assembled
<1>4. \A s : Command!IsPrefix(s, t) = IsPrefix(s, t)
  BY DEF Command!IsPrefix, IsPrefix
<1> QED
  BY <1>1, <1>3, <1>4

-----------------------------------------------------------------------------
(* Both compilers translate *)

Translating ==
    /\ mode # "jumped" => (mode = "comment" <=> InComment(image.source, Consumed))
    /\ Translated(image.source, Consumed, output, state, high)

LEMMA NextInText ==
    ASSUME Scanning, mode # "jumped", NextByte
    PROVE  /\ image.source \in Seq(0 .. 255) /\ Consumed \in Nat /\ Consumed' = Consumed + 1
           /\ Byte \in 0 .. 255
           /\ Byte = NUL => Consumed + 1 > Len(image.source)
           /\ Byte # NUL => Consumed + 1 <= Len(image.source) /\ Byte = image.source[Consumed + 1]
<1>1. image.source \in Seq(1 .. 255) /\ Len(image.source) \in Nat
  BY BuiltImage DEF Scanning
<1>2. image.source \in Seq(0 .. 255)
  BY <1>1
<1>3. (sector' - 1) * SectorSize + offset' = Consumed + 1 /\ Consumed \in Nat
      /\ Byte = (IF Consumed + 1 <= Len(image.source) THEN image.source[Consumed + 1] ELSE NUL)
  BY NextConsumed
<1>4. Consumed' = Consumed + 1
  BY <1>3 DEF Consumed
<1> QED
  BY <1>1, <1>2, <1>3, <1>4, ZeroBehind

LEMMA TranslatingKept ==
    ASSUME Scanning, Converted, Translating, [Next]_vars
    PROVE  Translating'
<1> DEFINE t == image.source
           c == Consumed
<1>1. CASE Hex0Loop
  <2>1. mode = "code" /\ NextByte /\ image' = image
    BY <1>1 DEF Hex0Loop
  <2>2. /\ t \in Seq(0 .. 255) /\ c \in Nat /\ c' = c + 1 /\ Byte \in 0 .. 255 /\ t' = t
        /\ Byte = NUL => c + 1 > Len(t)
        /\ Byte # NUL => c + 1 <= Len(t) /\ Byte = t[c + 1]
    BY <2>1, NextInText
  <2>3. Translated(t, c, output, state, high) /\ ~InComment(t, c)
    BY <2>1 DEF Translating
  <2> HIDE DEF t, c
  <2>4. InComment(t, c + 1) <=> t[c + 1] # NL /\ t[c + 1] \in CommentSigns
    BY <2>2, <2>3, CommentNext
  <2>5. c + 1 \in Places(t) <=> c + 1 <= Len(t) /\ t[c + 1] \in DigitSet
    BY <2>2, <2>3, PlaceNext
  <2>6. CASE Byte = NUL /\ mode' = "jumped" /\ UNCHANGED <<state, high, output>>
    <3>1. c + 1 \notin Places(t)
      <4>1. Len(t) \in Nat
        BY <2>2
      <4> QED
        BY <2>2, <2>5, <2>6, <4>1
    <3>2. Translated(t, c + 1, output, state, high)
      BY <2>2, <2>3, <3>1, NoDigitNext
    <3> QED
      BY <2>2, <2>6, <3>2 DEF Translating, t, c
  <2>7. CASE Byte \in CommentSigns /\ mode' = "comment" /\ UNCHANGED <<state, high, output>>
    <3>1. Byte # NUL /\ Byte # NL /\ Byte \notin DigitSet
      BY <2>7 DEF CommentSigns, NUL, NL, DigitSet
    <3>2. Translated(t, c + 1, output, state, high)
      BY <2>2, <2>3, <2>5, <3>1, NoDigitNext
    <3>3. InComment(t, c + 1)
      BY <2>2, <2>4, <2>7, <3>1
    <3> QED
      BY <2>2, <2>7, <3>2, <3>3 DEF Translating, t, c
  <2>8. CASE /\ Byte \notin {NUL} \cup CommentSigns /\ Stage1Nibble(Byte) = NoDigit
             /\ UNCHANGED <<mode, state, high, output>>
    <3>1. Byte \notin DigitSet
      <4>1. Byte \in DigitSet => Stage1Nibble(Byte) \in 0 .. 15
        BY <2>2, NibblesAreDigits
      <4> QED
        BY <2>8, <4>1 DEF NoDigit
    <3>2. Translated(t, c + 1, output, state, high)
      BY <2>2, <2>3, <2>5, <2>8, <3>1, NoDigitNext
    <3>3. ~InComment(t, c + 1)
      BY <2>2, <2>4, <2>8
    <3> QED
      BY <2>1, <2>2, <2>8, <3>2, <3>3 DEF Translating, t, c
  <2>9. CASE /\ Byte \notin {NUL} \cup CommentSigns /\ Stage1Nibble(Byte) # NoDigit
             /\ GotNibble(Stage1Nibble(Byte)) /\ mode' = mode
    <3>1. PICK d \in 0 .. 15 : d = DigitValue(t[c + 1]) /\ GotNibble(d) /\ t[c + 1] \in DigitSet
      BY <2>2, <2>9, NibblesAreDigits
    <3>2. c + 1 \in Places(t)
      BY <2>2, <2>5, <2>9, <3>1
    <3>3. ~InComment(t, c + 1)
      BY <2>2, <2>4, <2>9
    <3>4. state \in {0, 1} /\ high \in {16 * n : n \in 0 .. 15}
      BY DEF Converted
    <3>5. CASE state = 0
      <4>1. high' = 16 * d /\ state' = 1 /\ output' = output
        BY <3>1, <3>5 DEF GotNibble
      <4>2. Translated(t, c + 1, output, 1, 16 * d)
        BY <2>2, <2>3, <3>1, <3>2, <3>5, DigitNext
      <4>3. Translated(t, c + 1, output', state', high')
        BY <4>1, <4>2
      <4> QED
        BY <2>1, <2>2, <2>9, <3>3, <4>3 DEF Translating, t, c
    <3>6. CASE state = 1
      <4>1. output' = Append(output, high + d) /\ state' = 0 /\ high' = high
        BY <3>1, <3>6 DEF GotNibble, Reset
      <4>2. high + d \in 0 .. 255
        BY <3>4
      <4>3. Translated(t, c + 1, Append(output, high + d), 0, high)
        BY <2>2, <2>3, <3>1, <3>2, <3>6, <4>2, DigitNext
      <4>4. Translated(t, c + 1, output', state', high')
        BY <4>1, <4>3
      <4> QED
        BY <2>1, <2>2, <2>9, <3>3, <4>4 DEF Translating, t, c
    <3> QED
      BY <3>4, <3>5, <3>6
  <2> QED
    BY <1>1, <2>6, <2>7, <2>8, <2>9, Zenon DEF Hex0Loop
<1>2. CASE SkipComment
  <2>1. mode = "comment" /\ NextByte /\ mode' = AfterComment
        /\ UNCHANGED <<image, state, high, output>>
    BY <1>2 DEF SkipComment
  <2>2. /\ t \in Seq(0 .. 255) /\ c \in Nat /\ c' = c + 1 /\ t' = t
        /\ Byte # NUL => Byte = t[c + 1]
    BY <2>1, NextInText
  <2>3. Translated(t, c, output, state, high) /\ InComment(t, c)
    BY <2>1 DEF Translating
  <2> HIDE DEF t, c
  <2>4. Translated(t, c + 1, output, state, high)
    BY <2>2, <2>3, PlaceNext, NoDigitNext
  <2>5. mode' # "jumped" => (mode' = "comment" <=> InComment(t, c + 1))
    <3>1. InComment(t, c + 1) <=> t[c + 1] # NL
      BY <2>2, <2>3, CommentNext
    <3>2. /\ Byte = NUL => mode' = "jumped"
          /\ Byte # NUL => mode' = (IF Byte = NL THEN "code" ELSE "comment")
      BY <2>1 DEF AfterComment, NUL, NL
    <3> QED
      BY <2>2, <3>1, <3>2
  <2> QED
    BY <2>1, <2>2, <2>4, <2>5 DEF Translating, t, c
<1>3. CASE UNCHANGED vars
  BY <1>3 DEF vars, source, Translating, Consumed
<1> QED
  BY <1>1, <1>2, <1>3 DEF Next

\* The command's file, place by place.
Compiling ==
    /\ phase \in {"code", "comment"} => (phase = "comment" <=> InComment(file, place))
    /\ Translated(file, place, built, fileState, fileHigh)
    /\ phase = "done" => place = Len(file)

LEMMA CompilingBegins ==
    ASSUME Command!Init
    PROVE  Compiling
<1>1. file = <<>> /\ place = 0 /\ phase = "waiting" /\ fileState = 0 /\ fileHigh = 0 /\ built = <<>>
  BY DEF Command!Init
<1>2. <<>> \in Seq(0 .. 255)
  OBVIOUS
<1>3. Translated(<<>>, 0, <<>>, 0, 0)
  BY <1>2, NothingYet
<1> QED
  BY <1>1, <1>3 DEF Compiling

LEMMA CompilingStarts ==
    ASSUME Scanning, StartCommand
    PROVE  Compiling'
<1>1. PICK f \in FilesOf(image) : Command!Start(f)
  BY DEF StartCommand
<1>2. f \in Seq(0 .. 255)
  BY FilesAreBytes DEF Scanning
<1>3. /\ file' = f /\ place' = 0 /\ phase' = "code" /\ fileState' = 0 /\ fileHigh' = 0
      /\ built' = <<>>
  BY <1>1 DEF Command!Start
<1>4. Translated(f, 0, <<>>, 0, 0) /\ ~InComment(f, 0)
  BY <1>2, NothingYet, CommentNext
<1> QED
  BY <1>3, <1>4 DEF Compiling

LEMMA CompilingKept ==
    ASSUME Reading, Compiling, Compile
    PROVE  Compiling'
<1> DEFINE t == file
           c == place
<1>1. /\ t \in Seq(0 .. 255) /\ c \in 0 .. Len(t) /\ c \in Nat /\ Len(t) \in Nat
      /\ fileState \in {0, 1} /\ fileHigh \in {16 * n : n \in 0 .. 15}
  BY DEF Reading, Command!TypeOK
<1>2. Translated(t, c, built, fileState, fileHigh)
  BY DEF Compiling
<1>3. CASE Command!CompileLoop
  <2> DEFINE b == t[c + 1]
  <2>1. phase = "code" /\ c # Len(t) /\ c' = c + 1 /\ t' = t /\ ~InComment(t, c)
    BY <1>3 DEF Command!CompileLoop, Command!AtEnd, Compiling
  <2> HIDE DEF t, c
  <2>2. c + 1 \in 1 .. Len(t)
    BY <1>1, <2>1
  <2>3. b \in 0 .. 255
    BY <1>1, <2>2, ElementOfSeq
  <2>4. InComment(t, c + 1) <=> b # NL /\ b \in CommentSigns
    BY <1>1, <2>1, CommentNext
  <2>5. c + 1 \in Places(t) <=> b \in DigitSet
    BY <1>1, <2>1, <2>2, PlaceNext
  <2>6. \/ b \in CommentSigns /\ phase' = "comment" /\ UNCHANGED <<fileState, fileHigh, built>>
        \/ b \notin CommentSigns /\ b \notin DigitSet /\ UNCHANGED <<phase, fileState, fileHigh, built>>
        \/ /\ b \notin CommentSigns /\ b \in DigitSet /\ DigitValue(b) \in 0 .. 15
           /\ Command!GotNibble(DigitValue(b)) /\ phase' = phase
    <3>1. file[place'] = b
      BY <2>1 DEF t, c
    <3>2. \/ b \in CommentSigns /\ phase' = "comment" /\ UNCHANGED <<fileState, fileHigh, built>>
          \/ b \notin CommentSigns /\ Command!Stage2Nibble(b) = NoDigit
             /\ UNCHANGED <<phase, fileState, fileHigh, built>>
          \/ b \notin CommentSigns /\ Command!Stage2Nibble(b) # NoDigit
             /\ Command!GotNibble(Command!Stage2Nibble(b)) /\ phase' = phase
      <4> HIDE DEF b
      <4> QED
        BY <1>3, <3>1, CommandReference, Zenon DEF Command!CompileLoop
    <3>3. /\ Command!Stage2Nibble(b) = (IF b \in DigitSet THEN DigitValue(b) ELSE NoDigit)
          /\ b \in DigitSet => DigitValue(b) \in 0 .. 15
      BY <2>3, NibblesAreDigits
    <3>4. b \in DigitSet => Command!Stage2Nibble(b) # NoDigit
      BY <3>3 DEF NoDigit
    <3> QED
      BY <3>2, <3>3, <3>4
  <2> HIDE DEF b
  <2>7. CASE b \in CommentSigns /\ phase' = "comment" /\ UNCHANGED <<fileState, fileHigh, built>>
    <3>1. b # NL /\ b \notin DigitSet
      BY <2>7 DEF CommentSigns, NL, DigitSet
    <3>2. Translated(t, c + 1, built, fileState, fileHigh)
      BY <1>1, <1>2, <2>5, <3>1, NoDigitNext
    <3> QED
      BY <2>1, <2>4, <2>7, <3>1, <3>2 DEF Compiling, t, c
  <2>8. CASE b \notin CommentSigns /\ b \notin DigitSet /\ UNCHANGED <<phase, fileState, fileHigh, built>>
    <3>1. Translated(t, c + 1, built, fileState, fileHigh)
      BY <1>1, <1>2, <2>5, <2>8, NoDigitNext
    <3> QED
      BY <2>1, <2>4, <2>8, <3>1 DEF Compiling, t, c
  <2>9. CASE /\ b \notin CommentSigns /\ b \in DigitSet /\ DigitValue(b) \in 0 .. 15
             /\ Command!GotNibble(DigitValue(b)) /\ phase' = phase
    <3>1. PICK d \in 0 .. 15 : d = DigitValue(t[c + 1]) /\ Command!GotNibble(d)
      BY <2>9 DEF b
    <3>2. c + 1 \in Places(t)
      BY <2>5, <2>9
    <3>3. CASE fileState = 0
      <4>1. fileHigh' = 16 * d /\ fileState' = 1 /\ built' = built
        BY <3>1, <3>3 DEF Command!GotNibble
      <4>2. Translated(t, c + 1, built, 1, 16 * d)
        BY <1>1, <1>2, <3>1, <3>2, <3>3, DigitNext
      <4>3. Translated(t, c + 1, built', fileState', fileHigh')
        BY <4>1, <4>2
      <4> QED
        BY <2>1, <2>4, <2>9, <4>3 DEF Compiling, t, c
    <3>4. CASE fileState = 1
      <4>1. built' = Append(built, fileHigh + d) /\ fileState' = 0 /\ fileHigh' = fileHigh
        BY <3>1, <3>4 DEF Command!GotNibble
      <4>2. fileHigh + d \in 0 .. 255
        <5>1. PICK n \in 0 .. 15 : fileHigh = 16 * n
          BY <1>1
        <5> QED
          BY <5>1
      <4>3. Translated(t, c + 1, Append(built, fileHigh + d), 0, fileHigh)
        BY <1>1, <1>2, <3>1, <3>2, <3>4, <4>2, DigitNext
      <4>4. Translated(t, c + 1, built', fileState', fileHigh')
        BY <4>1, <4>3
      <4> QED
        BY <2>1, <2>4, <2>9, <4>4 DEF Compiling, t, c
    <3> QED
      BY <1>1, <3>3, <3>4
  <2> QED
    BY <2>6, <2>7, <2>8, <2>9
<1>4. CASE Command!SkipComment
  <2>1. /\ phase = "comment" /\ c' = c + 1 /\ t' = t /\ InComment(t, c)
        /\ phase' = (IF t[c + 1] = NL THEN "code" ELSE "comment")
        /\ UNCHANGED <<fileState, fileHigh, built>>
    BY <1>4, CommandReference DEF Command!SkipComment, Compiling
  <2> HIDE DEF t, c
  <2>2. Translated(t, c + 1, built, fileState, fileHigh)
    BY <1>1, <1>2, <2>1, PlaceNext, NoDigitNext
  <2>3. InComment(t, c + 1) <=> t[c + 1] # NL
    BY <1>1, <2>1, CommentNext
  <2> QED
    BY <2>1, <2>2, <2>3 DEF Compiling, t, c
<1>5. CASE Command!Done
  BY <1>5 DEF Command!Done, Command!AtEnd, Compiling
<1> QED
  BY <1>3, <1>4, <1>5 DEF Compile, Command!Next

-----------------------------------------------------------------------------
(* The machine, from power-on *)

BuildInv == Scanning /\ Converted /\ Translating /\ Reading /\ Compiling

LEMMA BuildBegins ==
    ASSUME AllBuilt(Images), BuildInit
    PROVE  BuildInv
<1>1. 0 \in {16 * n : n \in 0 .. 15}
  <2>1. 16 * 0 = 0
    OBVIOUS
  <2> QED
    BY <2>1
<1>2. Converted
  BY <1>1 DEF BuildInit, Init, Converted
<1>3. Scanning
  BY ScanningBegins DEF BuildInit
<1>4. Translating
  <2>1. Built(image) /\ mode = "code" /\ output = <<>> /\ state = 0 /\ high = 0
        /\ sector = 0 /\ offset = SectorSize
    BY DEF BuildInit, Init, AllBuilt
  <2>2. image.source \in Seq(1 .. 255)
    BY <2>1, BuiltImage
  <2>3. image.source \in Seq(0 .. 255)
    BY <2>2
  <2>4. Consumed = 0
    <3>1. SectorSize \in Nat /\ 0 - 1 = -1 /\ (-1) * SectorSize = -SectorSize
      BY Stage1Assumption
    <3> QED
      BY <2>1, <3>1 DEF Consumed
  <2> QED
    BY <2>1, <2>3, <2>4, NothingYet, CommentNext DEF Translating
<1> QED
  BY <1>2, <1>3, <1>4, ReadingBegins, CompilingBegins DEF BuildInit, BuildInv

LEMMA BuildKept ==
    ASSUME BuildInv, [BuildNext]_<<vars, command>>
    PROVE  BuildInv'
<1>1. ASSUME [Next]_vars PROVE Scanning' /\ Converted' /\ Translating'
  BY <1>1, ScanningKept, ConvertedKept, TranslatingKept DEF BuildInv
<1>2. ASSUME UNCHANGED command PROVE Reading' /\ Compiling'
  BY <1>2 DEF command, BuildInv, Reading, Command!TypeOK, Compiling
<1>3. CASE Boot
  BY <1>1, <1>2, <1>3 DEF Boot, BuildInv
<1>4. CASE StartCommand
  <2>1. Reading' /\ Compiling'
    BY <1>4, ReadingStarts, CompilingStarts DEF BuildInv
  <2> QED
    BY <1>1, <1>4, <2>1 DEF StartCommand, BuildInv
<1>5. CASE Compile
  <2>1. Reading' /\ Compiling'
    BY <1>5, ReadingKept, CompilingKept DEF BuildInv
  <2> QED
    BY <1>1, <1>5, <2>1 DEF Compile, BuildInv
<1>6. CASE UNCHANGED <<vars, command>>
  BY <1>1, <1>2, <1>6 DEF BuildInv
<1> QED
  BY <1>3, <1>4, <1>5, <1>6 DEF BuildNext

\* What stage 1 has written, in front of what it has looked at.
LEMMA SourceIsCompiled ==
    ASSUME BuildInv
    PROVE  CompilesTheSource
<1>1. /\ Built(image) /\ Translated(image.source, Consumed, output, state, high)
      /\ mode # "jumped" => Consumed <= Len(image.source)
      /\ mode = "jumped" => Consumed = Len(image.source) + 1
  BY DEF BuildInv, Scanning, Translating
<1>2. image.source \in Seq(1 .. 255)
  BY <1>1, BuiltImage
<1>3. image.source \in Seq(0 .. 255) /\ Len(image.source) \in Nat
  BY <1>2
<1>4. Consumed \in Nat
  BY ConsumedCounts DEF BuildInv
<1> QED
  BY <1>1, <1>3, <1>4, TranslatedSoFar DEF CompilesTheSource

\* What the hex0 command has written, likewise.
LEMMA FileIsCompiled ==
    ASSUME BuildInv
    PROVE  CompilesTheFile
<1>1. /\ file \in Seq(0 .. 255) /\ place \in 0 .. Len(file)
      /\ Translated(file, place, built, fileState, fileHigh)
      /\ phase = "done" => place = Len(file)
  BY DEF BuildInv, Reading, Command!TypeOK, Compiling
<1>2. place \in Nat
  BY <1>1
<1>3. IsPrefix(built, Assembled(file)) /\ (phase = "done" => built = Assembled(file))
  BY <1>1, <1>2, TranslatedSoFar
<1>4. Command!Assembled(file) = Assembled(file)
  BY CommandReference
<1>5. Command!IsPrefix(built, Assembled(file)) = IsPrefix(built, Assembled(file))
  BY CommandReference
<1> QED
  BY <1>3, <1>4, <1>5 DEF CompilesTheFile, Command!CompilesTheFile

LEMMA BuildInvariant ==
    ASSUME AllBuilt(Images)
    PROVE  BuildSpec => []BuildInv
<1>1. BuildInit => BuildInv
  BY BuildBegins
<1>2. BuildInv /\ [BuildNext]_<<vars, command>> => BuildInv'
  BY BuildKept
<1> QED
  BY <1>1, <1>2, PTL DEF BuildSpec

\* Stage 1 counts sectors while it scans for a zero byte, build-self.sh divides
\* the length of the source to find out where the script goes; whatever the
\* source and the sector size, they agree, and stage 2 reads the script.
THEOREM ScriptHandedOver ==
    ASSUME AllBuilt(Images)
    PROVE  BuildSpec => []HandsOverTheScript
<1>1. BuildInv => HandsOverTheScript
  BY HandsOver DEF BuildInv
<1> QED
  BY <1>1, BuildInvariant, PTL

\* Neither compiler reads behind its source, whatever is in it, and all they
\* write are bytes: stage 1's unsigned comparison lets no other sign pass for
\* a digit, and no digit is more than 15.
THEOREM CompilersTyped ==
    ASSUME AllBuilt(Images)
    PROVE  BuildSpec => []BuildTypeOK
<1>1. BuildInv => BuildTypeOK
  BY Typed DEF BuildInv, Reading, BuildTypeOK
<1> QED
  BY <1>1, BuildInvariant, PTL

\* Whatever text is on the disk and wherever its sectors end, hex0_loop makes
\* of it the bytes its digits outside comments stand for, and when it jumps
\* all of them.
THEOREM SourceCompiled ==
    ASSUME AllBuilt(Images)
    PROVE  BuildSpec => []CompilesTheSource
<1>1. BuildInv => CompilesTheSource
  BY SourceIsCompiled
<1> QED
  BY <1>1, BuildInvariant, PTL

\* The hex0 command makes of any file, zeros or not, what its text stands for:
\* of a source without zeros, what stage 1 makes of it on the disk.
THEOREM FileCompiled ==
    ASSUME AllBuilt(Images)
    PROVE  BuildSpec => []CompilesTheFile
<1>1. BuildInv => CompilesTheFile
  BY FileIsCompiled
<1> QED
  BY <1>1, BuildInvariant, PTL

-----------------------------------------------------------------------------
(* Bytes as numbers *)

Weight(s, k, w) == IF k \in s THEN w ELSE 0

\* The sum of the bits of a byte.
Summed(s) ==
    Weight(s, 0, 1) + Weight(s, 1, 2) + Weight(s, 2, 4) + Weight(s, 3, 8)
    + Weight(s, 4, 16) + Weight(s, 5, 32) + Weight(s, 6, 64) + Weight(s, 7, 128)

\* A bit less is its weight less.
LEMMA BitLess ==
    ASSUME NEW s \in Bytes8, NEW x \in s
    PROVE  /\ Summed(s) \in Nat /\ s \ {x} \in Bytes8
           /\ 2^x \in Nat \ {0} /\ Summed(s) = 2^x + Summed(s \ {x})
  <1> DEFINE t == s \ {x}
  <1>1. x \in 0 .. 7 /\ t \in Bytes8 /\ x \notin t /\ \A k \in 0 .. 7 : k # x => (k \in t <=> k \in s)
    BY DEF Bytes8
  <1> HIDE DEF t
  <1>2. 2^0 = 1 /\ 2^1 = 2 /\ 2^2 = 4 /\ 2^3 = 8
    OBVIOUS
  <1>3. 2^4 = 16 /\ 2^5 = 32 /\ 2^6 = 64 /\ 2^7 = 128
    OBVIOUS
  <1>4. Summed(s) \in Nat
    BY DEF Summed, Weight
  <1>5. 2^x \in Nat \ {0} /\ Summed(s) = 2^x + Summed(t)
    <2>1. ASSUME x = 0 PROVE 2^x = 1 /\ Summed(s) = 1 + Summed(t)
      BY <1>1, <1>2, <2>1 DEF Summed, Weight
    <2>2. ASSUME x = 1 PROVE 2^x = 2 /\ Summed(s) = 2 + Summed(t)
      BY <1>1, <1>2, <2>2 DEF Summed, Weight
    <2>3. ASSUME x = 2 PROVE 2^x = 4 /\ Summed(s) = 4 + Summed(t)
      BY <1>1, <1>2, <2>3 DEF Summed, Weight
    <2>4. ASSUME x = 3 PROVE 2^x = 8 /\ Summed(s) = 8 + Summed(t)
      BY <1>1, <1>2, <2>4 DEF Summed, Weight
    <2>5. ASSUME x = 4 PROVE 2^x = 16 /\ Summed(s) = 16 + Summed(t)
      BY <1>1, <1>3, <2>5 DEF Summed, Weight
    <2>6. ASSUME x = 5 PROVE 2^x = 32 /\ Summed(s) = 32 + Summed(t)
      BY <1>1, <1>3, <2>6 DEF Summed, Weight
    <2>7. ASSUME x = 6 PROVE 2^x = 64 /\ Summed(s) = 64 + Summed(t)
      BY <1>1, <1>3, <2>7 DEF Summed, Weight
    <2>8. ASSUME x = 7 PROVE 2^x = 128 /\ Summed(s) = 128 + Summed(t)
      BY <1>1, <1>3, <2>8 DEF Summed, Weight
    <2>9. x = 0 \/ x = 1 \/ x = 2 \/ x = 3 \/ x = 4 \/ x = 5 \/ x = 6 \/ x = 7
      BY <1>1
    <2> QED
      BY <2>1, <2>2, <2>3, <2>4, <2>5, <2>6, <2>7, <2>8, <2>9
  <1> QED
    BY <1>1, <1>4, <1>5 DEF t

\* The fold over the bits comes to their sum, whichever is taken first.
LEMMA NumberIsSum ==
    ASSUME NEW b \in Bytes8
    PROVE  Number(b) = Summed(b) /\ Number(b) \in Nat
  <1> DEFINE First(s) == CHOOSE x \in s : TRUE
             Step(f, s) == IF s = {} THEN 0 ELSE 2^First(s) + f[s \ {First(s)}]
             Rule(f)    == f = [s \in SUBSET b |-> Step(f, s)]
             it == CHOOSE f : Rule(f)
             g  == [s \in SUBSET b |-> Summed(s)]
  <1>1. Number(b) = it[b]
    BY DEF Number, MapThenSumSet, MapThenFoldSet
  <1>2. \A s \in SUBSET b : s \in Bytes8 /\ (s # {} => First(s) \in s /\ s \ {First(s)} \in SUBSET b)
    BY DEF Bytes8
  <1>3. Summed({}) = 0
    BY DEF Summed, Weight
  <1>4. \A s \in SUBSET b : s # {} => /\ Summed(s) = 2^First(s) + Summed(s \ {First(s)})
                                      /\ 2^First(s) \in Nat \ {0} /\ Summed(s) \in Nat /\ Summed(s \ {First(s)}) \in Nat
    <2> SUFFICES ASSUME NEW s \in SUBSET b, s # {}
                 PROVE  /\ Summed(s) = 2^First(s) + Summed(s \ {First(s)})
                        /\ 2^First(s) \in Nat \ {0} /\ Summed(s) \in Nat /\ Summed(s \ {First(s)}) \in Nat
      OBVIOUS
    <2>1. s \in Bytes8 /\ First(s) \in s
      BY <1>2
    <2> DEFINE x == First(s)
    <2>2. x \in s
      BY <2>1
    <2> HIDE DEF x, First
    <2>3. Summed(s) \in Nat /\ Summed(s) = 2^x + Summed(s \ {x}) /\ 2^x \in Nat \ {0}
      BY <2>1, <2>2, BitLess
    <2>4. Summed(s \ {x}) \in Nat
      BY DEF Summed, Weight
    <2> QED
      BY <2>3, <2>4 DEF x
  <1> HIDE DEF First
  <1>5. Rule(g)
    <2>1. \A s \in SUBSET b : g[s] = Step(g, s)
      BY <1>2, <1>3, <1>4
    <2> HIDE DEF Step
    <2> QED
      BY <2>1
  <1>6. Rule(it)
    <2> HIDE DEF Rule, g
    <2> QED
      BY <1>5
  <1>7. \A s \in SUBSET b : it[s] = Step(it, s)
    <2> HIDE DEF it, Step
    <2> QED
      BY <1>6
  <1> HIDE DEF it, g, Rule
  <1> DEFINE Good == {n \in Nat : \A s \in SUBSET b : Summed(s) <= n => it[s] = Summed(s)}
  <1>8. \A s \in SUBSET b : Summed(s) \in Nat
    BY DEF Summed, Weight
  <1>9. 0 \in Good
    <2> SUFFICES ASSUME NEW s \in SUBSET b, Summed(s) <= 0 PROVE it[s] = Summed(s)
      OBVIOUS
    <2>1. s # {} => FALSE
      <3> SUFFICES ASSUME s # {} PROVE FALSE
        OBVIOUS
      <3>1. /\ Summed(s) = 2^First(s) + Summed(s \ {First(s)})
            /\ 2^First(s) \in Nat \ {0} /\ Summed(s) \in Nat /\ Summed(s \ {First(s)}) \in Nat
        BY <1>4
      <3> QED
        BY <3>1
    <2> QED
      BY <1>3, <1>7, <2>1
  <1>10. ASSUME NEW n \in Nat, n \in Good PROVE n + 1 \in Good
    <2> SUFFICES ASSUME NEW s \in SUBSET b, Summed(s) <= n + 1 PROVE it[s] = Summed(s)
      OBVIOUS
    <2>1. CASE s = {}
      BY <1>3, <1>7, <2>1
    <2>2. CASE s # {}
      <3>1. s \ {First(s)} \in SUBSET b /\ Summed(s \ {First(s)}) <= n
        <4>1. s \ {First(s)} \in SUBSET b
          BY <1>2, <2>2
        <4>2. /\ Summed(s) = 2^First(s) + Summed(s \ {First(s)})
              /\ 2^First(s) \in Nat \ {0} /\ Summed(s) \in Nat /\ Summed(s \ {First(s)}) \in Nat
          BY <1>4, <2>2
        <4> QED
          BY <4>1, <4>2
      <3>2. it[s \ {First(s)}] = Summed(s \ {First(s)})
        BY <1>10, <3>1
      <3>3. it[s] = 2^First(s) + it[s \ {First(s)}]
        BY <1>7, <2>2
      <3> QED
        BY <1>4, <2>2, <3>2, <3>3
    <2> QED
      BY <2>1, <2>2
  <1>11. Summed(b) \in Good
    <2>1. Summed(b) \in Nat
      BY <1>8
    <2> HIDE DEF Good
    <2> QED
      BY <1>9, <1>10, <2>1, Upwards
  <1> QED
    BY <1>1, <1>8, <1>11

\* The two digits of a byte come to it.
LEMMA DigitsOfByte ==
    ASSUME NEW b \in Bytes8
    PROVE  /\ Unsigned(b, 4, 4) \in 0 .. 15 /\ Unsigned(b, 0, 4) \in 0 .. 15
           /\ 16 * Unsigned(b, 4, 4) + Unsigned(b, 0, 4) = Number(b)
           /\ Number(b) \in 0 .. 255
  <1> DEFINE hi == Field(b, 4, 4)
             lo == Field(b, 0, 4)
  <1>1. hi \in Bytes8 /\ lo \in Bytes8
    BY DEF Field, Bytes8
  <1>2. \A k \in 0 .. 7 : (k \in hi <=> k \in 0 .. 3 /\ 4 + k \in b) /\ (k \in lo <=> k \in 0 .. 3 /\ k \in b)
    BY DEF Field, Bytes8
  <1>3. Unsigned(b, 4, 4) = Summed(hi) /\ Unsigned(b, 0, 4) = Summed(lo) /\ Number(b) = Summed(b)
    BY <1>1, NumberIsSum DEF Unsigned
  <1> HIDE DEF hi, lo
  <1>4. Summed(lo) = Weight(b, 0, 1) + Weight(b, 1, 2) + Weight(b, 2, 4) + Weight(b, 3, 8)
    BY <1>2 DEF Summed, Weight
  <1>5. Summed(hi) = Weight(b, 4, 1) + Weight(b, 5, 2) + Weight(b, 6, 4) + Weight(b, 7, 8)
    <2>1. /\ 0 \in hi <=> 4 \in b
          /\ 1 \in hi <=> 5 \in b
          /\ 2 \in hi <=> 6 \in b
          /\ 3 \in hi <=> 7 \in b
          /\ 4 \notin hi /\ 5 \notin hi /\ 6 \notin hi /\ 7 \notin hi
      BY <1>2
    <2> QED
      BY <2>1 DEF Summed, Weight
  <1>6. 16 * Summed(hi) + Summed(lo) = Summed(b) /\ Summed(hi) \in 0 .. 15 /\ Summed(lo) \in 0 .. 15
    BY <1>4, <1>5 DEF Summed, Weight
  <1>7. Summed(b) \in 0 .. 255
    BY <1>6
  <1> QED
    BY <1>3, <1>6, <1>7

-----------------------------------------------------------------------------
(* Sequences one behind the other *)

\* FlattenSeq puts one sequence behind what it has of those before.
LEMMA FlattenSteps ==
    ASSUME NEW T, NEW seqs \in Seq(Seq(T))
    PROVE  \E f \in [0 .. Len(seqs) -> Seq(T)] :
             /\ f[0] = <<>> /\ f[Len(seqs)] = FlattenSeq(seqs)
             /\ \A i \in 1 .. Len(seqs) : f[i] = f[i - 1] \o seqs[i]
  <1> DEFINE n == Len(seqs)
             S == Seq(T)
             G == [x \in S \X (1 .. n) |-> x[1] \o seqs[x[2]]]
  <1>1. n \in Nat /\ \A i \in 1 .. n : seqs[i] \in S
    OBVIOUS
  <1>2. <<>> \in S
    OBVIOUS
  <1>3. G \in [S \X (1 .. n) -> S]
    <2>1. ASSUME NEW x \in S \X (1 .. n) PROVE x[1] \o seqs[x[2]] \in S
      <3>1. x[1] \in S /\ seqs[x[2]] \in S
        BY <1>1
      <3> QED
        BY <3>1
    <2> HIDE DEF S
    <2> QED
      BY <2>1
  <1>4. \A y \in S, i \in 1 .. n : G[<<y, i>>] = y \o seqs[i]
    <2> HIDE DEF S
    <2> QED
      OBVIOUS
  <1> HIDE DEF G, S
  <1>5. PICK f \in [0 .. n -> S] : Stepwise(f, n, <<>>, G)
    BY <1>1, <1>2, <1>3, StepsExist
  <1>6. f[0] = <<>> /\ \A i \in 1 .. n : f[i] = G[<<f[i - 1], i>>]
    <2> HIDE DEF n
    <2>1. \A i \in 0 .. n : f[i] = IF i = 0 THEN <<>> ELSE G[<<f[i - 1], i>>]
      BY <1>5 DEF Stepwise
    <2>2. n \in Nat /\ 0 \in 0 .. n /\ \A i \in 1 .. n : i \in 0 .. n /\ i # 0
      BY <1>1
    <2> QED
      BY <2>1, <2>2, Zenon
  <1>7. \A i \in 1 .. n : f[i - 1] \in S /\ f[i] = f[i - 1] \o seqs[i]
    <2> SUFFICES ASSUME NEW i \in 1 .. n PROVE f[i - 1] \in S /\ f[i] = f[i - 1] \o seqs[i]
      OBVIOUS
    <2>1. i - 1 \in 0 .. n
      BY <1>1
    <2>2. f[i - 1] \in S
      BY <2>1
    <2> QED
      BY <1>4, <1>6, <2>2
  <1>9. n # 0 => 1 \in 1 .. n /\ f[1] = <<>> \o seqs[1] /\ seqs[1] \in Seq(T)
    <2> SUFFICES ASSUME n # 0 PROVE 1 \in 1 .. n /\ f[1] = <<>> \o seqs[1] /\ seqs[1] \in Seq(T)
      OBVIOUS
    <2>1. 1 \in 1 .. n /\ 1 - 1 = 0
      BY <1>1
    <2>2. f[1] = f[1 - 1] \o seqs[1]
      BY <1>7, <2>1, Zenon
    <2> QED
      BY <1>1, <1>6, <2>1, <2>2 DEF S
  <1>8. f[n] = FlattenSeq(seqs)
    <2>1. CASE n = 0
      <3>1. seqs = <<>>
        BY <2>1
      <3> QED
        BY <1>6, <2>1, <3>1 DEF FlattenSeq
    <2>2. CASE n # 0
      <3> DEFINE Step(g, i) == IF i = 1 THEN seqs[i] ELSE g[i - 1] \o seqs[i]
                 Rule(g) == g = [i \in 1 .. n |-> Step(g, i)]
                 it == CHOOSE g : Rule(g)
                 h  == [i \in 1 .. n |-> f[i]]
      <3>1. FlattenSeq(seqs) = it[n]
        BY <2>2 DEF FlattenSeq
      <3>2. Rule(h)
        <4>1. ASSUME NEW i \in 1 .. n PROVE f[i] = Step(h, i)
          <5>1. CASE i = 1
            <6>1. f[1] = <<>> \o seqs[1] /\ seqs[1] \in Seq(T)
              BY <1>9, <5>1
            <6> QED
              BY <5>1, <6>1
          <5>2. CASE i # 1
            <6>1. i - 1 \in 1 .. n
              BY <1>1, <5>2
            <6>2. h[i - 1] = f[i - 1]
              BY <6>1
            <6> QED
              BY <1>7, <5>2, <6>2
          <5> QED
            BY <5>1, <5>2
        <4> HIDE DEF Step
        <4> QED
          BY <4>1
      <3>3. Rule(it)
        <4> HIDE DEF Rule, h
        <4> QED
          BY <3>2
      <3>4. \A i \in 1 .. n : it[i] = Step(it, i)
        <4> HIDE DEF it, Step
        <4> QED
          BY <3>3
      <3> HIDE DEF it, h, Rule
      <3> DEFINE Good == {k \in Nat : k \in 1 .. n => it[k] = f[k]}
      <3>5. 0 \in Good
        OBVIOUS
      <3>6. ASSUME NEW k \in Nat, k \in Good PROVE k + 1 \in Good
        <4> SUFFICES ASSUME k + 1 \in 1 .. n PROVE it[k + 1] = f[k + 1]
          OBVIOUS
        <4>1. CASE k = 0
          <5>1. it[1] = seqs[1] /\ f[1] = <<>> \o seqs[1] /\ seqs[1] \in Seq(T)
            BY <1>9, <3>4, <4>1
          <5> QED
            BY <4>1, <5>1
        <4>2. CASE k # 0
          <5>1. k \in 1 .. n /\ k + 1 # 1 /\ (k + 1) - 1 = k
            BY <1>1, <4>2
          <5>2. it[k] = f[k]
            BY <3>6, <5>1
          <5>3. it[k + 1] = it[k] \o seqs[k + 1] /\ f[k + 1] = f[k] \o seqs[k + 1]
            BY <1>7, <3>4, <5>1
          <5> QED
            BY <5>2, <5>3
        <4> QED
          BY <4>1, <4>2
      <3> HIDE DEF Good
      <3>7. n \in Good
        BY <1>1, <3>5, <3>6, Upwards
      <3>8. n \in 1 .. n
        BY <1>1, <2>2
      <3> QED
        BY <3>1, <3>7, <3>8 DEF Good
    <2> QED
      BY <2>1, <2>2
  <1> QED
    BY <1>6, <1>7, <1>8 DEF S

\* Each of them is in the whole, from where those before end.
LaidOut(seqs, whole, ends) ==
    /\ ends[0] = 0 /\ ends[Len(seqs)] = Len(whole)
    /\ \A i \in 1 .. Len(seqs) : /\ ends[i] = ends[i - 1] + Len(seqs[i]) /\ ends[i] <= Len(whole)
                                  /\ \A k \in 1 .. Len(seqs[i]) : whole[ends[i - 1] + k] = seqs[i][k]

LEMMA FlattenPlaces ==
    ASSUME NEW T, NEW seqs \in Seq(Seq(T))
    PROVE  /\ FlattenSeq(seqs) \in Seq(T)
           /\ \E ends \in [0 .. Len(seqs) -> Nat] : LaidOut(seqs, FlattenSeq(seqs), ends)
  <1> DEFINE n == Len(seqs)
  <1>1. n \in Nat /\ \A i \in 1 .. n : seqs[i] \in Seq(T) /\ Len(seqs[i]) \in Nat
    OBVIOUS
  <1>2. PICK f \in [0 .. n -> Seq(T)] : /\ f[0] = <<>> /\ f[n] = FlattenSeq(seqs)
                                        /\ \A i \in 1 .. n : f[i] = f[i - 1] \o seqs[i]
    BY FlattenSteps
  <1> DEFINE ends == [i \in 0 .. n |-> Len(f[i])]
  <1>3. ends \in [0 .. n -> Nat] /\ n \in 0 .. n /\ 0 \in 0 .. n
    BY <1>1, <1>2
  <1>4. ends[0] = 0 /\ ends[n] = Len(FlattenSeq(seqs)) /\ FlattenSeq(seqs) \in Seq(T)
    BY <1>2, <1>3
  <1>5. ASSUME NEW i \in 1 .. n
        PROVE  /\ f[i - 1] \in Seq(T) /\ f[i] \in Seq(T) /\ ends[i] = Len(f[i]) /\ ends[i - 1] = Len(f[i - 1])
               /\ ends[i] = ends[i - 1] + Len(seqs[i])
               /\ \A k \in 1 .. Len(f[i - 1]) : f[i][k] = f[i - 1][k]
               /\ \A k \in 1 .. Len(seqs[i]) : f[i][ends[i - 1] + k] = seqs[i][k]
    <2>1. i - 1 \in 0 .. n /\ i \in 0 .. n
      BY <1>1
    <2>2. f[i - 1] \in Seq(T) /\ f[i] \in Seq(T) /\ ends[i] = Len(f[i]) /\ ends[i - 1] = Len(f[i - 1])
      BY <1>2, <2>1
    <2>3. f[i] = f[i - 1] \o seqs[i] /\ seqs[i] \in Seq(T)
      BY <1>1, <1>2
    <2> DEFINE a == f[i - 1]
               b == seqs[i]
    <2>4. a \in Seq(T) /\ b \in Seq(T) /\ f[i] = a \o b /\ Len(a) \in Nat /\ Len(b) \in Nat
      BY <2>2, <2>3
    <2> HIDE DEF a, b
    <2>5. /\ Len(a \o b) = Len(a) + Len(b)
          /\ \A k \in 1 .. Len(a) : (a \o b)[k] = a[k]
          /\ \A k \in 1 .. Len(b) : (a \o b)[Len(a) + k] = b[k]
      BY <2>4
    <2> QED
      BY <2>2, <2>4, <2>5 DEF a, b
  <1> HIDE DEF ends
  <1> DEFINE Within(m) == \A i \in 1 .. m : /\ ends[i] <= ends[m]
                                         /\ \A k \in 1 .. Len(seqs[i]) : f[m][ends[i - 1] + k] = seqs[i][k]
             Good == {m \in Nat : m <= n => Within(m)}
  <1>6. 0 \in Good
    OBVIOUS
  <1>7. ASSUME NEW m \in Nat, m \in Good PROVE m + 1 \in Good
    <2> SUFFICES ASSUME m + 1 <= n, NEW i \in 1 .. m + 1
                 PROVE  /\ ends[i] <= ends[m + 1]
                        /\ \A k \in 1 .. Len(seqs[i]) : f[m + 1][ends[i - 1] + k] = seqs[i][k]
      OBVIOUS
    <2>1. m + 1 \in 1 .. n /\ (m + 1) - 1 = m /\ i \in 1 .. n /\ m \in 0 .. n /\ i - 1 \in 0 .. n
      BY <1>1
    <2>2. /\ ends[m + 1] = ends[m] + Len(seqs[m + 1]) /\ ends[m] = Len(f[m]) /\ Len(seqs[m + 1]) \in Nat
          /\ ends[m] \in Nat /\ ends[m + 1] \in Nat /\ ends[i] \in Nat /\ ends[i - 1] \in Nat
          /\ \A k \in 1 .. Len(f[m]) : f[m + 1][k] = f[m][k]
          /\ \A k \in 1 .. Len(seqs[m + 1]) : f[m + 1][ends[m] + k] = seqs[m + 1][k]
      <3>1. i \in 0 .. n /\ m + 1 \in 0 .. n
        BY <2>1
      <3>2. ends[m + 1] = ends[(m + 1) - 1] + Len(seqs[m + 1]) /\ ends[(m + 1) - 1] = Len(f[(m + 1) - 1])
        BY <1>5, <2>1, Zenon
      <3>3. /\ \A k \in 1 .. Len(f[(m + 1) - 1]) : f[m + 1][k] = f[(m + 1) - 1][k]
            /\ \A k \in 1 .. Len(seqs[m + 1]) : f[m + 1][ends[(m + 1) - 1] + k] = seqs[m + 1][k]
        BY <1>5, <2>1, Zenon
      <3>4. ends[m] \in Nat /\ ends[m + 1] \in Nat /\ ends[i] \in Nat /\ ends[i - 1] \in Nat
        BY <1>3, <2>1, <3>1
      <3> QED
        BY <1>1, <2>1, <3>2, <3>3, <3>4
    <2>3. CASE i = m + 1
      <3>1. i - 1 = m
        BY <2>3
      <3>2. \A k \in 1 .. Len(seqs[i]) : f[m + 1][ends[i - 1] + k] = seqs[i][k]
        BY <2>2, <2>3, <3>1, Zenon
      <3>3. ends[i] <= ends[m + 1]
        <4>1. ends[i] = ends[m + 1] /\ ends[m + 1] \in Nat
          BY <2>2, <2>3
        <4> QED
          BY <4>1
      <3> QED
        BY <3>2, <3>3
    <2>4. CASE i \in 1 .. m
      <3>1. ends[i] <= ends[m] /\ \A k \in 1 .. Len(seqs[i]) : f[m][ends[i - 1] + k] = seqs[i][k]
        BY <1>7, <2>1, <2>4
      <3>2. ends[i] = ends[i - 1] + Len(seqs[i]) /\ Len(seqs[i]) \in Nat
        BY <1>1, <1>5, <2>1
      <3>3. ends[i] <= ends[m + 1]
        <4> DEFINE l == Len(seqs[m + 1])
        <4>1. ends[m + 1] = ends[m] + l /\ l \in Nat
          BY <2>2
        <4> HIDE DEF l
        <4>2. ends[i] <= ends[m] /\ ends[m] \in Nat /\ ends[m + 1] \in Nat /\ ends[i] \in Nat
          BY <2>2, <3>1
        <4> DEFINE a == ends[i]
                   b == ends[m]
                   c == ends[m + 1]
        <4>3. a <= b /\ b \in Nat /\ c \in Nat /\ a \in Nat /\ c = b + l
          BY <4>1, <4>2
        <4> HIDE DEF a, b, c
        <4>4. a <= c
          BY <4>1, <4>3
        <4> QED
          BY <4>4 DEF a, c
      <3>4. ASSUME NEW k \in 1 .. Len(seqs[i]) PROVE f[m + 1][ends[i - 1] + k] = seqs[i][k]
        <4> DEFINE l == Len(seqs[i])
        <4>1. ends[i - 1] + k \in 1 .. Len(f[m])
          <5>1. ends[i] = ends[i - 1] + l /\ l \in Nat /\ k \in 1 .. l /\ ends[m] = Len(f[m]) /\ ends[i] <= ends[m]
            BY <2>2, <3>1, <3>2
          <5>2. ends[i - 1] \in Nat /\ ends[i] \in Nat /\ ends[m] \in Nat
            BY <2>2
          <5> HIDE DEF l
          <5> QED
            BY <5>1, <5>2
        <4> QED
          BY <2>2, <3>1, <4>1
      <3> QED
        BY <3>3, <3>4
    <2> QED
      BY <2>3, <2>4
  <1> HIDE DEF Good
  <1>8. n \in Good
    BY <1>1, <1>6, <1>7, Upwards
  <1>9. Within(n)
    <2>1. n <= n => Within(n)
      BY <1>8, Zenon DEF Good
    <2>2. n <= n
      BY <1>1
    <2> HIDE DEF Within
    <2> QED
      BY <2>1, <2>2
  <1>10. \A i \in 1 .. n : /\ ends[i] = ends[i - 1] + Len(seqs[i]) /\ ends[i] <= Len(FlattenSeq(seqs))
                           /\ \A k \in 1 .. Len(seqs[i]) : FlattenSeq(seqs)[ends[i - 1] + k] = seqs[i][k]
    BY <1>2, <1>4, <1>5, <1>9
  <1>11. LaidOut(seqs, FlattenSeq(seqs), ends)
    BY <1>4, <1>10 DEF LaidOut
  <1> QED
    BY <1>3, <1>4, <1>11

-----------------------------------------------------------------------------
(* What a .hex0 file stands for *)

\* In the first c bytes of a text are the digits of these bytes; the text is
\* outside or inside a comment there.
Plain(t, c, out)  == ~InComment(t, c) /\ Translated(t, c, out, 0, 0)
Remark(t, c, out) == InComment(t, c) /\ Translated(t, c, out, 0, 0)

LEMMA PlainNext ==
    ASSUME NEW t \in Seq(0 .. 255), NEW c \in Nat, NEW out, Plain(t, c, out), t[c + 1] \notin DigitSet
    PROVE  /\ t[c + 1] \notin CommentSigns => Plain(t, c + 1, out)
           /\ t[c + 1] \in CommentSigns => Remark(t, c + 1, out)
  <1>1. c + 1 \notin Places(t)
    BY PlaceNext
  <1>2. Translated(t, c + 1, out, 0, 0)
    BY <1>1, NoDigitNext DEF Plain
  <1>3. t[c + 1] \in CommentSigns => t[c + 1] # NL
    BY DEF CommentSigns, NL
  <1>4. InComment(t, c + 1) <=> t[c + 1] \in CommentSigns
    BY <1>3, CommentNext DEF Plain
  <1> QED
    BY <1>2, <1>4 DEF Plain, Remark

LEMMA RemarkNext ==
    ASSUME NEW t \in Seq(0 .. 255), NEW c \in Nat, NEW out, Remark(t, c, out)
    PROVE  /\ t[c + 1] # NL => Remark(t, c + 1, out)
           /\ t[c + 1] = NL => Plain(t, c + 1, out)
  <1>1. c + 1 \notin Places(t)
    BY PlaceNext DEF Remark
  <1>2. Translated(t, c + 1, out, 0, 0)
    BY <1>1, NoDigitNext DEF Remark
  <1>3. InComment(t, c + 1) <=> t[c + 1] # NL
    BY CommentNext DEF Remark
  <1> QED
    BY <1>2, <1>3 DEF Plain, Remark

\* The digits hex2tohex0.py writes are digits of hex0, of the same value.
LEMMA HexDigitIsDigit ==
    ASSUME NEW n \in 0 .. 15
    PROVE  HexDigit(n) \in DigitSet /\ DigitValue(HexDigit(n)) = n /\ HexDigit(n) \in 1 .. 255
  <1>1. CASE n < 10
    <2>1. HexDigit(n) = 48 + n /\ 48 + n \in 48 .. 57
      BY <1>1 DEF HexDigit
    <2>2. DigitValue(48 + n) = n
      BY <2>1 DEF DigitValue
    <2> QED
      BY <2>1, <2>2 DEF DigitSet
  <1>2. CASE n >= 10
    <2>1. HexDigit(n) = 87 + n /\ 87 + n \in 97 .. 102
      BY <1>2 DEF HexDigit
    <2>2. DigitValue(87 + n) = n
      <3> DEFINE b == 87 + n
      <3>1. b \in 97 .. 102 /\ b \notin 48 .. 57 /\ b \notin 65 .. 70 /\ b - 97 + 10 = n
        BY <2>1
      <3> HIDE DEF b
      <3> QED
        BY <3>1 DEF DigitValue, b
    <2> QED
      BY <2>1, <2>2 DEF DigitSet
  <1> QED
    BY <1>1, <1>2

\* Two digits and a blank are a byte.
LEMMA ByteNext ==
    ASSUME NEW t \in Seq(0 .. 255), NEW c \in Nat, NEW out, Plain(t, c, out), c + 3 <= Len(t),
           NEW u \in 0 .. 15, NEW v \in 0 .. 15,
           t[c + 1] = HexDigit(u), t[c + 2] = HexDigit(v), t[c + 3] = 32
    PROVE  Plain(t, c + 3, Append(out, 16 * u + v))
  <1>1. Len(t) \in Nat /\ c + 1 \in Nat /\ c + 2 \in Nat
    OBVIOUS
  <1>2. /\ t[c + 1] \in DigitSet /\ DigitValue(t[c + 1]) = u
        /\ t[c + 2] \in DigitSet /\ DigitValue(t[c + 2]) = v
    BY HexDigitIsDigit
  <1>3. c + 1 \in Places(t)
    <2>1. c + 1 \in Places(t) <=> c + 1 <= Len(t) /\ t[c + 1] \in DigitSet /\ ~InComment(t, c)
      BY PlaceNext
    <2>2. c + 1 <= Len(t)
      BY <1>1
    <2> QED
      BY <1>2, <2>1, <2>2 DEF Plain
  <1>4. Translated(t, c + 1, out, 1, 16 * u)
    BY <1>2, <1>3, DigitNext DEF Plain
  <1>5. \A b \in DigitSet : b \notin CommentSigns /\ b # NL
    BY DEF DigitSet, CommentSigns, NL
  <1>6. ~InComment(t, c + 1)
    BY <1>2, <1>5, CommentNext DEF Plain
  <1>7. (c + 1) + 1 = c + 2 /\ (c + 2) + 1 = c + 3
    OBVIOUS
  <1>8. c + 2 \in Places(t)
    <2>1. (c + 1) + 1 \in Places(t) <=> /\ (c + 1) + 1 <= Len(t) /\ t[(c + 1) + 1] \in DigitSet
                                        /\ ~InComment(t, c + 1)
      BY <1>1, PlaceNext
    <2> QED
      BY <1>1, <1>2, <1>6, <1>7, <2>1
  <1>9. Translated(t, c + 2, Append(out, 16 * u + v), 0, 0)
    <2>1. 16 * u + v \in 0 .. 255
      OBVIOUS
    <2>2. (c + 1) + 1 \in Places(t) /\ v = DigitValue(t[(c + 1) + 1])
      BY <1>2, <1>7, <1>8
    <2> DEFINE hi == 16 * u
    <2>3. Translated(t, c + 1, out, 1, hi) /\ hi + v \in 0 .. 255
      BY <1>4, <2>1
    <2> HIDE DEF hi
    <2>4. \A h : Translated(t, (c + 1) + 1, Append(out, hi + v), 0, h)
      BY <1>1, <2>2, <2>3, DigitNext
    <2> QED
      BY <1>7, <2>4 DEF hi
  <1>10. ~InComment(t, c + 2)
    <2>1. InComment(t, (c + 1) + 1) <=> /\ t[(c + 1) + 1] # NL
                                        /\ t[(c + 1) + 1] \in CommentSigns \/ InComment(t, c + 1)
      BY <1>1, CommentNext
    <2> QED
      BY <1>2, <1>5, <1>6, <1>7, <2>1
  <1>11. Plain(t, c + 2, Append(out, 16 * u + v)) /\ t[(c + 2) + 1] = 32
    BY <1>7, <1>9, <1>10 DEF Plain
  <1>12. 32 \notin DigitSet /\ 32 \notin CommentSigns
    BY DEF DigitSet, CommentSigns
  <1>13. Plain(t, (c + 2) + 1, Append(out, 16 * u + v))
    BY <1>1, <1>11, <1>12, PlainNext
  <1> QED
    BY <1>7, <1>13

\* A file's first m bytes, as numbers.
Numbers(b, m) == [i \in 1 .. m |-> Number(b[i])]

LEMMA NumbersGrow ==
    ASSUME NEW b \in Seq(Bytes8), NEW m \in Nat, m + 1 <= Len(b)
    PROVE  Append(Numbers(b, m), Number(b[m + 1])) = Numbers(b, m + 1)
  <1>1. \A i \in 1 .. m + 1 : Number(b[i]) \in Nat
    <2> SUFFICES ASSUME NEW i \in 1 .. m + 1 PROVE Number(b[i]) \in Nat
      OBVIOUS
    <2>1. i \in 1 .. Len(b)
      OBVIOUS
    <2>2. b[i] \in Bytes8
      BY <2>1
    <2> QED
      BY <2>2, NumberIsSum
  <1> DEFINE f(i) == Number(b[i])
             p == Numbers(b, m)
             q == Numbers(b, m + 1)
  <1>2. p \in Seq(Nat) /\ Len(p) = m /\ \A i \in 1 .. m : p[i] = f(i)
    BY <1>1 DEF Numbers
  <1>3. q \in Seq(Nat) /\ Len(q) = m + 1 /\ \A i \in 1 .. m + 1 : q[i] = f(i)
    BY <1>1 DEF Numbers
  <1>4. f(m + 1) \in Nat
    BY <1>1
  <1> HIDE DEF p, q, f
  <1> DEFINE a == Append(p, f(m + 1))
  <1>5. a \in Seq(Nat) /\ Len(a) = m + 1 /\ (\A i \in 1 .. m : a[i] = p[i]) /\ a[m + 1] = f(m + 1)
    BY <1>2, <1>4
  <1>6. a = q
    <2>1. \A i \in 1 .. m + 1 : a[i] = q[i]
      BY <1>2, <1>3, <1>5
    <2>2. a = [i \in 1 .. m + 1 |-> a[i]] /\ q = [i \in 1 .. m + 1 |-> q[i]]
      BY <1>3, <1>5
    <2> HIDE DEF a
    <2> QED
      BY <2>1, <2>2
  <1> QED
    BY <1>6 DEF p, q, f

\* The characters of a byte that is written out.
LEMMA RenderedBytes ==
    ASSUME NEW bytes \in Seq(Bytes8)
    PROVE  /\ Rendered(bytes) \in Seq(1 .. 255) /\ Len(Rendered(bytes)) = 3 * Len(bytes)
           /\ \A j \in 0 .. Len(bytes) - 1 :
                /\ Rendered(bytes)[3 * j + 1] = HexDigit(Unsigned(bytes[j + 1], 4, 4))
                /\ Rendered(bytes)[3 * j + 2] = HexDigit(Unsigned(bytes[j + 1], 0, 4))
                /\ Rendered(bytes)[3 * j + 3] = 32
  <1> DEFINE n == Len(bytes)
             hi(i) == HexDigit(Unsigned(bytes[i], 4, 4))
             lo(i) == HexDigit(Unsigned(bytes[i], 0, 4))
             char(k) == CASE k % 3 = 1 -> hi((k + 2) \div 3)
                          [] k % 3 = 2 -> lo((k + 2) \div 3)
                          [] OTHER     -> 32
  <1>1. n \in Nat /\ Rendered(bytes) = [k \in 1 .. 3 * n |-> char(k)]
    BY DEF Rendered
  <1>2. ASSUME NEW i \in 1 .. n PROVE hi(i) \in 1 .. 255 /\ lo(i) \in 1 .. 255
    <2>1. bytes[i] \in Bytes8
      OBVIOUS
    <2>2. Unsigned(bytes[i], 4, 4) \in 0 .. 15 /\ Unsigned(bytes[i], 0, 4) \in 0 .. 15
      BY <2>1, DigitsOfByte
    <2> QED
      BY <2>2, HexDigitIsDigit
  <1> HIDE DEF hi, lo, n
  <1>3. ASSUME NEW k \in 1 .. 3 * n PROVE char(k) \in 1 .. 255
    <2>1. (k + 2) \div 3 \in 1 .. n
      BY <1>1
    <2> DEFINE i == (k + 2) \div 3
    <2>2. hi(i) \in 1 .. 255 /\ lo(i) \in 1 .. 255
      BY <1>2, <2>1
    <2>3. char(k) = hi(i) \/ char(k) = lo(i) \/ char(k) = 32
      <3> HIDE DEF i
      <3>1. char(k) = hi((k + 2) \div 3) \/ char(k) = lo((k + 2) \div 3) \/ char(k) = 32
        OBVIOUS
      <3> QED
        BY <3>1 DEF i
    <2> QED
      BY <2>2, <2>3
  <1>4. ASSUME NEW j \in 0 .. n - 1
        PROVE  char(3 * j + 1) = hi(j + 1) /\ char(3 * j + 2) = lo(j + 1) /\ char(3 * j + 3) = 32
    <2>1. /\ (3 * j + 1) % 3 = 1 /\ (3 * j + 1 + 2) \div 3 = j + 1
          /\ (3 * j + 2) % 3 = 2 /\ (3 * j + 2 + 2) \div 3 = j + 1
          /\ (3 * j + 3) % 3 = 0
      OBVIOUS
    <2> QED
      BY <2>1
  <1> HIDE DEF char
  <1>5. Rendered(bytes) \in Seq(1 .. 255) /\ Len(Rendered(bytes)) = 3 * n
    BY <1>1, <1>3
  <1>6. ASSUME NEW j \in 0 .. n - 1
        PROVE  /\ Rendered(bytes)[3 * j + 1] = hi(j + 1)
               /\ Rendered(bytes)[3 * j + 2] = lo(j + 1)
               /\ Rendered(bytes)[3 * j + 3] = 32
    <2>1. 3 * j + 1 \in 1 .. 3 * n /\ 3 * j + 2 \in 1 .. 3 * n /\ 3 * j + 3 \in 1 .. 3 * n
      BY <1>1
    <2> QED
      BY <1>1, <1>4, <2>1
  <1> QED
    BY <1>5, <1>6 DEF n, hi, lo

\* A text has the characters of x from place c on.
HasAt(t, c, x) == c + Len(x) <= Len(t) /\ \A k \in 1 .. Len(x) : t[c + k] = x[k]

\* Bytes s + 1 up to s + n of b are these.
PartOf(b, s, bytes) == s + Len(bytes) <= Len(b) /\ \A k \in 1 .. Len(bytes) : bytes[k] = b[s + k]

LEMMA RenderedRead ==
    ASSUME NEW t \in Seq(0 .. 255), NEW c \in Nat, NEW b \in Seq(Bytes8), NEW s \in Nat,
           NEW bytes \in Seq(Bytes8), PartOf(b, s, bytes), HasAt(t, c, Rendered(bytes)),
           Plain(t, c, Numbers(b, s))
    PROVE  Plain(t, c + 3 * Len(bytes), Numbers(b, s + Len(bytes)))
  <1> DEFINE n == Len(bytes)
             Good == {k \in Nat : k <= n => Plain(t, c + 3 * k, Numbers(b, s + k))}
  <1>1. n \in Nat /\ Len(t) \in Nat /\ Len(b) \in Nat
    OBVIOUS
  <1>2. s + n <= Len(b) /\ c + 3 * n <= Len(t) /\ Len(Rendered(bytes)) = 3 * n
    BY RenderedBytes DEF PartOf, HasAt
  <1>3. 0 \in Good
    <2>1. c + 3 * 0 = c /\ s + 0 = s
      OBVIOUS
    <2> QED
      BY <2>1
  <1>4. ASSUME NEW k \in Nat, k \in Good PROVE k + 1 \in Good
    <2> SUFFICES ASSUME k + 1 <= n PROVE Plain(t, c + 3 * (k + 1), Numbers(b, s + (k + 1)))
      OBVIOUS
    <2> DEFINE e == c + 3 * k
               m == s + k
               u == Unsigned(bytes[k + 1], 4, 4)
               v == Unsigned(bytes[k + 1], 0, 4)
               x == Rendered(bytes)
    <2>1. k \in 0 .. n - 1 /\ k + 1 \in 1 .. n
      BY <1>1
    <2>2. Plain(t, e, Numbers(b, m))
      BY <1>1, <1>4
    <2>3. e \in Nat /\ m \in Nat /\ e + 3 <= Len(t) /\ m + 1 <= Len(b) /\ m + 1 = s + (k + 1)
      BY <1>1, <1>2
    <2>4. bytes[k + 1] = b[m + 1] /\ bytes[k + 1] \in Bytes8
      <3>1. bytes[k + 1] = b[s + (k + 1)]
        BY <2>1 DEF PartOf
      <3>2. bytes[k + 1] \in Bytes8
        BY <2>1
      <3> QED
        BY <2>3, <3>1, <3>2
    <2>5. u \in 0 .. 15 /\ v \in 0 .. 15 /\ 16 * u + v = Number(b[m + 1])
      BY <2>4, DigitsOfByte
    <2>6. t[e + 1] = HexDigit(u) /\ t[e + 2] = HexDigit(v) /\ t[e + 3] = 32
      <3>1. x[3 * k + 1] = HexDigit(u) /\ x[3 * k + 2] = HexDigit(v) /\ x[3 * k + 3] = 32
        BY <2>1, RenderedBytes
      <3>2. 3 * k + 1 \in 1 .. 3 * n /\ 3 * k + 2 \in 1 .. 3 * n /\ 3 * k + 3 \in 1 .. 3 * n
        BY <1>1, <2>1
      <3>3. \A i \in 1 .. 3 * n : t[c + i] = x[i]
        BY <1>2 DEF HasAt
      <3>4. e + 1 = c + (3 * k + 1) /\ e + 2 = c + (3 * k + 2) /\ e + 3 = c + (3 * k + 3)
        OBVIOUS
      <3> HIDE DEF e, u, v, x, n
      <3> QED
        BY <3>1, <3>2, <3>3, <3>4
    <2> HIDE DEF e, m, u, v, x
    <2>7. Plain(t, e + 3, Append(Numbers(b, m), 16 * u + v))
      BY <2>2, <2>3, <2>5, <2>6, ByteNext
    <2>8. Append(Numbers(b, m), 16 * u + v) = Numbers(b, m + 1)
      BY <2>3, <2>5, NumbersGrow
    <2>9. e + 3 = c + 3 * (k + 1)
      BY DEF e
    <2> QED
      BY <2>3, <2>7, <2>8, <2>9
  <1> HIDE DEF Good
  <1>5. n \in Good
    BY <1>1, <1>3, <1>4, Upwards
  <1> QED
    BY <1>1, <1>5 DEF Good

\* What is behind the bytes of a line: a comment, and the end of the line.
IsTail(z) ==
    \/ Len(z) = 1 /\ z[1] = 10
    \/ Len(z) = 3 /\ z[1] = 35 /\ z[2] = 97 /\ z[3] = 10
    \/ Len(z) = 4 /\ z[1] = 35 /\ z[2] = 58 /\ z[3] = 97 /\ z[4] = 10
    \/ Len(z) = 5 /\ z[1] = 32 /\ z[2] = 35 /\ z[3] = 32 /\ z[4] = 97 /\ z[5] = 10

LEMMA LineShape ==
    ASSUME NEW line, line.bytes \in Seq(Bytes8), Silent(line.line) => line.bytes = <<>>
    PROVE  /\ LineText(line) \in Seq(1 .. 255)
           /\ \E z \in Seq(1 .. 255) : IsTail(z) /\ LineText(line) = Rendered(line.bytes) \o z
  <1> DEFINE x == Rendered(line.bytes)
             B == 1 .. 255
  <1>1. x \in Seq(B)
    BY RenderedBytes
  <1>2. Silent(line.line) => x = <<>>
    <2> SUFFICES ASSUME Silent(line.line) PROVE x = <<>>
      OBVIOUS
    <2>1. Len(line.bytes) = 0
      OBVIOUS
    <2>2. Len(x) = 0
      BY <2>1, RenderedBytes
    <2> HIDE DEF x
    <2> QED
      BY <1>1, <2>2
  <1> HIDE DEF x
  <1>3. 35 \in B /\ 58 \in B /\ 97 \in B /\ 10 \in B /\ 32 \in B
    OBVIOUS
  <1> HIDE DEF B
  <1>4. \A a, z : a \in Seq(B) /\ z \in Seq(B) => (x \o a) \o z = x \o (a \o z)
    <2> SUFFICES ASSUME NEW a \in Seq(B), NEW z \in Seq(B) PROVE (x \o a) \o z = x \o (a \o z)
      OBVIOUS
    <2>1. x \in Seq(B)
      BY <1>1
    <2> QED
      BY <2>1, ConcatAssociative
  <1>5. \A y \in Seq(B) : <<>> \o y = y /\ x \o y \in Seq(B)
    BY <1>1
  <1> DEFINE end == <<10>>
             a2 == <<35, 97>>
             a3 == <<35, 58, 97>>
             a4 == <<32, 35, 32, 97>>
  <1>6. end \in Seq(B) /\ IsTail(end)
    BY <1>3 DEF IsTail
  <1>7. \A a \in Seq(B) : /\ a \o end \in Seq(B) /\ Len(a \o end) = Len(a) + 1 /\ Len(a) \in Nat
                          /\ \A i \in 1 .. Len(a) : (a \o end)[i] = a[i]
                          /\ (a \o end)[Len(a) + 1] = 10
    <2> SUFFICES ASSUME NEW a \in Seq(B)
                 PROVE  /\ a \o end \in Seq(B) /\ Len(a \o end) = Len(a) + 1 /\ Len(a) \in Nat
                        /\ \A i \in 1 .. Len(a) : (a \o end)[i] = a[i]
                        /\ (a \o end)[Len(a) + 1] = 10
      OBVIOUS
    <2>1. IsSeq(a)
      BY DEF IsSeq
    <2>2. /\ a \o <<10>> = Append(a, 10)
          /\ Len(a) \in Nat /\ Len(Append(a, 10)) = Len(a) + 1
          /\ \A i \in 1 .. Len(a) : Append(a, 10)[i] = a[i]
          /\ Append(a, 10)[Len(a) + 1] = 10
      BY <2>1, AppendOne
    <2>3. Append(a, 10) \in Seq(B)
      BY <1>3
    <2> QED
      BY <2>2, <2>3
  <1>8. a2 \in Seq(B) /\ Len(a2) = 2 /\ a2[1] = 35 /\ a2[2] = 97
    BY <1>3
  <1>9. a3 \in Seq(B) /\ Len(a3) = 3 /\ a3[1] = 35 /\ a3[2] = 58 /\ a3[3] = 97
    BY <1>3
  <1>10. a4 \in Seq(B) /\ Len(a4) = 4 /\ a4[1] = 32 /\ a4[2] = 35 /\ a4[3] = 32 /\ a4[4] = 97
    BY <1>3
  <1> HIDE DEF end, a2, a3, a4
  <1>11. a2 \o end \in Seq(B) /\ IsTail(a2 \o end)
    <2> DEFINE z == a2 \o end
    <2>1. /\ z \in Seq(B) /\ Len(z) = Len(a2) + 1
          /\ \A i \in 1 .. Len(a2) : z[i] = a2[i]
          /\ z[Len(a2) + 1] = 10
      BY <1>7, <1>8
    <2> HIDE DEF z
    <2>2. Len(z) = 3 /\ z[3] = 10
      BY <1>8, <2>1
    <2>3. z[1] = 35 /\ z[2] = 97
      BY <1>8, <2>1
    <2>4. IsTail(z)
      BY <2>2, <2>3 DEF IsTail
    <2> QED
      BY <2>1, <2>4 DEF z
  <1>12. a3 \o end \in Seq(B) /\ IsTail(a3 \o end)
    <2> DEFINE z == a3 \o end
    <2>1. /\ z \in Seq(B) /\ Len(z) = Len(a3) + 1
          /\ \A i \in 1 .. Len(a3) : z[i] = a3[i]
          /\ z[Len(a3) + 1] = 10
      BY <1>7, <1>9
    <2> HIDE DEF z
    <2>2. Len(z) = 4 /\ z[4] = 10
      BY <1>9, <2>1
    <2>3. z[1] = 35 /\ z[2] = 58 /\ z[3] = 97
      BY <1>9, <2>1
    <2>4. IsTail(z)
      BY <2>2, <2>3 DEF IsTail
    <2> QED
      BY <2>1, <2>4 DEF z
  <1>13. a4 \o end \in Seq(B) /\ IsTail(a4 \o end)
    <2> DEFINE z == a4 \o end
    <2>1. /\ z \in Seq(B) /\ Len(z) = Len(a4) + 1
          /\ \A i \in 1 .. Len(a4) : z[i] = a4[i]
          /\ z[Len(a4) + 1] = 10
      BY <1>7, <1>10
    <2> HIDE DEF z
    <2>2. Len(z) = 5 /\ z[5] = 10
      BY <1>10, <2>1
    <2>3. z[1] = 32 /\ z[2] = 35 /\ z[3] = 32 /\ z[4] = 97
      BY <1>10, <2>1
    <2>4. IsTail(z)
      BY <2>2, <2>3 DEF IsTail
    <2> QED
      BY <2>1, <2>4 DEF z
  <1> DEFINE Shape(text) == text \in Seq(B) /\ \E z \in Seq(B) : IsTail(z) /\ text = x \o z
  <1>14. \A z \in Seq(B) : IsTail(z) => Shape(x \o z)
    BY <1>5
  <1>15. CASE line.line.kind = "label"
    <2>1. LineText(line) = a3 \o end /\ x = <<>>
      BY <1>2, <1>15 DEF LineText, LabelCommented, NL, Silent, a3, end
    <2>2. LineText(line) = x \o (a3 \o end)
      BY <1>5, <1>12, <2>1
    <2> QED
      BY <1>12, <1>14, <2>2 DEF x, B
  <1>16. CASE line.line.kind = "comment"
    <2>1. LineText(line) = a2 \o end /\ x = <<>>
      BY <1>2, <1>16 DEF LineText, NL, Silent, a2, end
    <2>2. LineText(line) = x \o (a2 \o end)
      BY <1>5, <1>11, <2>1
    <2> QED
      BY <1>11, <1>14, <2>2 DEF x, B
  <1>17. CASE line.line.kind = "insn"
    <2>1. LineText(line) = (x \o a4) \o end
      BY <1>17 DEF LineText, NL, x, a4, end
    <2>2. LineText(line) = x \o (a4 \o end)
      BY <1>4, <1>6, <1>10, <2>1
    <2> QED
      BY <1>13, <1>14, <2>2 DEF x, B
  <1>18. CASE line.line.kind \notin {"label", "comment", "insn"}
    <2>1. LineText(line) = x \o end
      BY <1>18 DEF LineText, NL, x, end
    <2> QED
      BY <1>6, <1>14, <2>1 DEF x, B
  <1> QED
    BY <1>15, <1>16, <1>17, <1>18

\* Behind the bytes of a line nothing is read, up to the end of the line.
LEMMA TailRead ==
    ASSUME NEW t \in Seq(0 .. 255), NEW c \in Nat, NEW out, Plain(t, c, out), NEW z, IsTail(z),
           HasAt(t, c, z)
    PROVE  Plain(t, c + Len(z), out)
  <1>1. /\ 32 \notin DigitSet /\ 32 \notin CommentSigns /\ 10 \notin DigitSet /\ 10 \notin CommentSigns
        /\ 35 \in CommentSigns /\ 35 \notin DigitSet
        /\ 10 = NL /\ 35 # NL /\ 58 # NL /\ 97 # NL /\ 32 # NL
    BY DEF DigitSet, CommentSigns, NL
  <1>2. \A d \in Nat : /\ Plain(t, d, out) /\ t[d + 1] = 10 => Plain(t, d + 1, out)
                       /\ Plain(t, d, out) /\ t[d + 1] = 32 => Plain(t, d + 1, out)
                       /\ Plain(t, d, out) /\ t[d + 1] = 35 => Remark(t, d + 1, out)
                       /\ Remark(t, d, out) /\ t[d + 1] \in {32, 58, 97} => Remark(t, d + 1, out)
                       /\ Remark(t, d, out) /\ t[d + 1] = 10 => Plain(t, d + 1, out)
    BY <1>1, PlainNext, RemarkNext
  <1>3. c + 1 \in Nat /\ c + 2 \in Nat /\ c + 3 \in Nat /\ c + 4 \in Nat
    OBVIOUS
  <1>4. (c + 1) + 1 = c + 2 /\ (c + 2) + 1 = c + 3 /\ (c + 3) + 1 = c + 4 /\ (c + 4) + 1 = c + 5
    OBVIOUS
  <1>5. CASE Len(z) = 1 /\ z[1] = 10
    <2>1. t[c + 1] = 10
      BY <1>5 DEF HasAt
    <2> QED
      BY <1>2, <1>5, <2>1
  <1>6. CASE Len(z) = 3 /\ z[1] = 35 /\ z[2] = 97 /\ z[3] = 10
    <2>1. t[c + 1] = 35 /\ t[c + 2] = 97 /\ t[c + 3] = 10
      BY <1>6 DEF HasAt
    <2>2. Remark(t, c + 1, out)
      BY <1>2, <2>1
    <2>3. Remark(t, c + 2, out)
      BY <1>2, <1>3, <1>4, <2>1, <2>2
    <2>4. Plain(t, c + 3, out)
      BY <1>2, <1>3, <1>4, <2>1, <2>3
    <2> QED
      BY <1>6, <2>4
  <1>7. CASE Len(z) = 4 /\ z[1] = 35 /\ z[2] = 58 /\ z[3] = 97 /\ z[4] = 10
    <2>1. t[c + 1] = 35 /\ t[c + 2] = 58 /\ t[c + 3] = 97 /\ t[c + 4] = 10
      BY <1>7 DEF HasAt
    <2>2. Remark(t, c + 1, out)
      BY <1>2, <2>1
    <2>3. Remark(t, c + 2, out)
      BY <1>2, <1>3, <1>4, <2>1, <2>2
    <2>4. Remark(t, c + 3, out)
      BY <1>2, <1>3, <1>4, <2>1, <2>3
    <2>5. Plain(t, c + 4, out)
      BY <1>2, <1>3, <1>4, <2>1, <2>4
    <2> QED
      BY <1>7, <2>5
  <1>8. CASE Len(z) = 5 /\ z[1] = 32 /\ z[2] = 35 /\ z[3] = 32 /\ z[4] = 97 /\ z[5] = 10
    <2>1. t[c + 1] = 32 /\ t[c + 2] = 35 /\ t[c + 3] = 32 /\ t[c + 4] = 97 /\ t[c + 5] = 10
      BY <1>8 DEF HasAt
    <2>2. Plain(t, c + 1, out)
      BY <1>2, <2>1
    <2>3. Remark(t, c + 2, out)
      BY <1>2, <1>3, <1>4, <2>1, <2>2
    <2>4. Remark(t, c + 3, out)
      BY <1>2, <1>3, <1>4, <2>1, <2>3
    <2>5. Remark(t, c + 4, out)
      BY <1>2, <1>3, <1>4, <2>1, <2>4
    <2>6. Plain(t, c + 5, out)
      BY <1>2, <1>3, <1>4, <2>1, <2>5
    <2> QED
      BY <1>8, <2>6
  <1> QED
    BY <1>5, <1>6, <1>7, <1>8 DEF IsTail

LEMMA TwoBehind ==
    ASSUME NEW T, NEW x \in Seq(T), NEW z \in Seq(T)
    PROVE  /\ Len(x) \in Nat /\ Len(z) \in Nat /\ Len(x \o z) = Len(x) + Len(z)
           /\ \A k \in 1 .. Len(x) : (x \o z)[k] = x[k]
           /\ \A k \in 1 .. Len(z) : (x \o z)[Len(x) + k] = z[k]
  OBVIOUS

LEMMA LineRead ==
    ASSUME NEW t \in Seq(0 .. 255), NEW c \in Nat, NEW b \in Seq(Bytes8), NEW s \in Nat,
           NEW line, line.bytes \in Seq(Bytes8), Silent(line.line) => line.bytes = <<>>,
           PartOf(b, s, line.bytes), HasAt(t, c, LineText(line)), Plain(t, c, Numbers(b, s))
    PROVE  Plain(t, c + Len(LineText(line)), Numbers(b, s + Len(line.bytes)))
  <1> DEFINE x == Rendered(line.bytes)
             y == LineText(line)
             T == 1 .. 255
  <1>1. PICK z \in Seq(T) : IsTail(z) /\ y = x \o z
    BY LineShape
  <1>2. x \in Seq(T) /\ Len(x) = 3 * Len(line.bytes) /\ Len(line.bytes) \in Nat
    BY RenderedBytes
  <1>3. c + Len(y) <= Len(t) /\ Len(t) \in Nat /\ \A k \in 1 .. Len(y) : t[c + k] = y[k]
    BY DEF HasAt
  <1> HIDE DEF x, y, T
  <1>4. /\ Len(x) \in Nat /\ Len(z) \in Nat /\ Len(y) = Len(x) + Len(z)
        /\ \A k \in 1 .. Len(x) : y[k] = x[k]
        /\ \A k \in 1 .. Len(z) : y[Len(x) + k] = z[k]
    <2>1. x \in Seq(T)
      BY <1>2
    <2>2. /\ Len(x) \in Nat /\ Len(z) \in Nat /\ Len(x \o z) = Len(x) + Len(z)
          /\ \A k \in 1 .. Len(x) : (x \o z)[k] = x[k]
          /\ \A k \in 1 .. Len(z) : (x \o z)[Len(x) + k] = z[k]
      BY <2>1, TwoBehind
    <2> QED
      BY <1>1, <2>2, Zenon
  <1>5. HasAt(t, c, x)
    <2>1. c + Len(x) <= Len(t)
      BY <1>3, <1>4
    <2>2. ASSUME NEW k \in 1 .. Len(x) PROVE t[c + k] = x[k]
      <3>1. k \in 1 .. Len(y)
        BY <1>4
      <3> QED
        BY <1>3, <1>4, <3>1, Zenon
    <2> QED
      BY <2>1, <2>2 DEF HasAt
  <1>6. HasAt(t, c + Len(x), z)
    <2>1. (c + Len(x)) + Len(z) <= Len(t)
      BY <1>3, <1>4
    <2>2. ASSUME NEW k \in 1 .. Len(z) PROVE t[(c + Len(x)) + k] = z[k]
      <3>1. Len(x) + k \in 1 .. Len(y) /\ (c + Len(x)) + k = c + (Len(x) + k)
        BY <1>4
      <3>2. t[c + (Len(x) + k)] = y[Len(x) + k]
        BY <1>3, <3>1, Zenon
      <3> QED
        BY <1>4, <3>1, <3>2
    <2> QED
      BY <2>1, <2>2 DEF HasAt
  <1>7. Plain(t, c + Len(x), Numbers(b, s + Len(line.bytes)))
    BY <1>2, <1>5, RenderedRead DEF x
  <1>8. Plain(t, (c + Len(x)) + Len(z), Numbers(b, s + Len(line.bytes)))
    <2> DEFINE d == c + Len(x)
               out == Numbers(b, s + Len(line.bytes))
    <2>1. d \in Nat /\ Plain(t, d, out) /\ HasAt(t, d, z)
      BY <1>4, <1>6, <1>7
    <2> HIDE DEF d, out
    <2>2. Plain(t, d + Len(z), out)
      BY <1>1, <2>1, TailRead
    <2> QED
      BY <2>2 DEF d, out
  <1>9. (c + Len(x)) + Len(z) = c + Len(y)
    BY <1>4
  <1> QED
    BY <1>8, <1>9 DEF y

\* The files of the tools, whatever they come from: if the bytes of the lines
\* lie one behind the other in b, then the text of the file stands for b.
LEMMA FileRead ==
    ASSUME NEW lines, IsSeq(lines), OfBytes(lines), NEW b \in Seq(Bytes8),
           NEW spot \in [0 .. Len(lines) -> Nat], spot[0] = 0, spot[Len(lines)] = Len(b),
           \A i \in 1 .. Len(lines) : /\ spot[i] = spot[i - 1] + Len(lines[i].bytes)
                                      /\ PartOf(b, spot[i - 1], lines[i].bytes)
    PROVE  Assembled(TextOf(lines)) = Numbers(b, Len(b))
  <1> DEFINE n == Len(lines)
             T == 1 .. 255
             seqs == [i \in DOMAIN lines |-> LineText(lines[i])]
             t == TextOf(lines)
  <1>1. n \in Nat /\ DOMAIN lines = 1 .. n
    BY DEF IsSeq
  <1>2. \A i \in 1 .. n : /\ lines[i].bytes \in Seq(Bytes8)
                          /\ Silent(lines[i].line) => lines[i].bytes = <<>>
    BY <1>1 DEF OfBytes
  <1>3. \A i \in 1 .. n : LineText(lines[i]) \in Seq(T)
    BY <1>2, LineShape
  <1> HIDE DEF T
  <1>4. seqs \in Seq(Seq(T)) /\ Len(seqs) = n /\ \A i \in 1 .. n : seqs[i] = LineText(lines[i])
    BY <1>1, <1>3
  <1>5. t = FlattenSeq(seqs)
    BY DEF TextOf
  <1> HIDE DEF seqs, t, n
  <1>6. t \in Seq(T)
    BY <1>4, <1>5, FlattenPlaces
  <1>7. PICK ends \in [0 .. n -> Nat] :
          /\ ends[0] = 0 /\ ends[n] = Len(t)
          /\ \A i \in 1 .. n : /\ ends[i] = ends[i - 1] + Len(seqs[i]) /\ ends[i] <= Len(t)
                               /\ \A k \in 1 .. Len(seqs[i]) : t[ends[i - 1] + k] = seqs[i][k]
    <2>1. \E ends \in [0 .. Len(seqs) -> Nat] : LaidOut(seqs, FlattenSeq(seqs), ends)
      BY <1>4, FlattenPlaces
    <2>2. Len(seqs) = n /\ FlattenSeq(seqs) = t
      BY <1>4, <1>5
    <2> QED
      BY <2>1, <2>2, Zenon DEF LaidOut
  <1>8. t \in Seq(0 .. 255) /\ Len(t) \in Nat /\ Len(b) \in Nat
    <2>1. T \subseteq 0 .. 255
      BY DEF T
    <2>2. t \in Seq(0 .. 255)
      <3> DEFINE U == 0 .. 255
      <3>1. T \subseteq U
        BY <2>1
      <3> HIDE DEF U
      <3>2. t \in Seq(U)
        BY <1>6, <3>1, WiderSeq
      <3> QED
        BY <3>2 DEF U
    <2> QED
      BY <2>2
  <1> DEFINE Good == {i \in Nat : i <= n => Plain(t, ends[i], Numbers(b, spot[i]))}
  <1>9. 0 \in Good
    <2>1. Numbers(b, 0) = <<>>
      BY DEF Numbers
    <2>2. Plain(t, 0, <<>>)
      BY <1>8, NothingYet, CommentNext DEF Plain
    <2> QED
      BY <1>7, <2>1, <2>2
  <1>10. ASSUME NEW i \in Nat, i \in Good PROVE i + 1 \in Good
    <2> SUFFICES ASSUME i + 1 <= n PROVE Plain(t, ends[i + 1], Numbers(b, spot[i + 1]))
      OBVIOUS
    <2>1. i + 1 \in 1 .. n /\ (i + 1) - 1 = i /\ i \in 0 .. n /\ i + 1 \in 0 .. n
      BY <1>1
    <2>2. ends[i] \in Nat /\ spot[i] \in Nat
      BY <1>7, <2>1 DEF n
    <2> DEFINE line == lines[i + 1]
               c == ends[i]
               s == spot[i]
               l == Len(LineText(line))
               m == Len(line.bytes)
    <2>3. line.bytes \in Seq(Bytes8) /\ (Silent(line.line) => line.bytes = <<>>) /\ LineText(line) \in Seq(T)
      BY <1>2, <1>3, <2>1
    <2>4. spot[i + 1] = spot[(i + 1) - 1] + m /\ PartOf(b, spot[(i + 1) - 1], line.bytes)
      BY <2>1 DEF n
    <2>5. spot[i + 1] = s + m /\ PartOf(b, s, line.bytes)
      BY <2>1, <2>4
    <2>6. /\ ends[i + 1] = ends[(i + 1) - 1] + Len(seqs[i + 1]) /\ ends[i + 1] <= Len(t)
          /\ \A k \in 1 .. Len(seqs[i + 1]) : t[ends[(i + 1) - 1] + k] = seqs[i + 1][k]
      BY <1>7, <2>1, Zenon
    <2>7. seqs[i + 1] = LineText(line)
      BY <1>4, <2>1
    <2>8. ends[i + 1] = c + l /\ HasAt(t, c, LineText(line))
      BY <2>1, <2>6, <2>7 DEF HasAt
    <2>9. Plain(t, c, Numbers(b, s))
      BY <1>10, <2>1
    <2> HIDE DEF line, c, s
    <2>10. c \in Nat /\ s \in Nat
      BY <2>2 DEF c, s
    <2>11. Plain(t, c + l, Numbers(b, s + m))
      BY <1>8, <2>3, <2>5, <2>8, <2>9, <2>10, LineRead
    <2> QED
      BY <2>5, <2>8, <2>11
  <1> HIDE DEF Good
  <1>11. n \in Good
    BY <1>1, <1>9, <1>10, Upwards
  <1>12. Plain(t, Len(t), Numbers(b, Len(b)))
    BY <1>1, <1>7, <1>11 DEF Good, n
  <1>13. Numbers(b, Len(b)) = Assembled(t)
    BY <1>8, <1>12, TranslatedSoFar DEF Plain
  <1> QED
    BY <1>13 DEF t

\* The text of a file is one: no zero in it, for none of its bytes is written
\* as a character.
LEMMA TextIsText ==
    ASSUME NEW lines, IsSeq(lines), OfBytes(lines)
    PROVE  TextOf(lines) \in Seq(1 .. 255)
  <1> DEFINE T == 1 .. 255
             seqs == [i \in DOMAIN lines |-> LineText(lines[i])]
  <1>1. Len(lines) \in Nat /\ DOMAIN lines = 1 .. Len(lines)
    BY DEF IsSeq
  <1>2. \A i \in DOMAIN lines : LineText(lines[i]) \in Seq(T)
    BY LineShape DEF OfBytes
  <1> HIDE DEF T
  <1>3. seqs \in Seq(Seq(T))
    BY <1>1, <1>2
  <1>4. FlattenSeq(seqs) \in Seq(T)
    <2> HIDE DEF seqs
    <2> QED
      BY <1>3, FlattenPlaces
  <1> QED
    BY <1>4 DEF TextOf, T

-----------------------------------------------------------------------------
(* The linker's bytes, in the lines of the .hex0 file *)

\* The first n lines of the .hex0 file have the linker's bytes, each as many as
\* its line of the .hex2 file, and from where those of the lines before end.
HandedTo(n) ==
    /\ Len(hex0) = n
    /\ \A i \in 1 .. n : /\ Len(bin) - Rest(hex2, i) \in Nat
                         /\ PartOf(bin, Len(bin) - Rest(hex2, i), hex0[i].bytes)
                         /\ Len(hex0[i].bytes) = Len(hex2[i].bytes)

Handing ==
    /\ job \in {"annotate", "annotated"} /\ ~spoilt => at \in 0 .. Len(hex2) /\ HandedTo(at)
    /\ job = "annotated" /\ ~spoilt => at = Len(hex2)
    /\ "hex0" \in fresh /\ ~spoilt => HandedTo(Len(hex2))

HInv == SInv /\ Handing

LEMMA AnnotateHands ==
    ASSUME HInv, Annotate, UNCHANGED <<hex2, bin, fresh, spoilt>>
    PROVE  Handing'
  <1>1. job = "annotate" /\ fresh = {"hex2", "bin"} /\ HexLines(hex2) /\ addr \in Nat /\ bin \in Seq(Bytes8) /\ IsSeq(hex0)
    <2>1. job = "annotate"
      BY DEF Annotate, CopyLine, AnnotateLine, AnnotateRefuses, AnnotateEnds
    <2> QED
      BY <2>1 DEF HInv, SInv, TInv, InTurn, TypesHold
  <1>2. "hex0" \notin fresh'
    BY <1>1
  <1>3. CASE spoilt
    BY <1>2, <1>3 DEF Handing
  <1>4. CASE AnnotateRefuses
    <2>1. job' = "refused"
      BY <1>4 DEF AnnotateRefuses, Exits
    <2> QED
      BY <1>2, <2>1 DEF Handing
  <1>5. CASE ~spoilt /\ AnnotateEnds
    <2>1. job' = "annotated" /\ at' = at /\ at = Len(hex2) /\ hex0' = hex0
      BY <1>5 DEF AnnotateEnds, Exits, AtEndOf
    <2>2. at \in 0 .. Len(hex2) /\ HandedTo(at)
      BY <1>1, <1>5 DEF HInv, Handing
    <2> QED
      BY <1>2, <2>1, <2>2 DEF Handing, HandedTo
  <1>6. CASE ~spoilt /\ (CopyLine \/ AnnotateLine)
    <2> DEFINE n == Len(hex2)
               l == Len(bin)
    <2>1. PICK i \in DOMAIN hex2 : /\ at = i - 1 /\ at' = at + 1 /\ job' = job
                                   /\ \/ count_bytes(hex2[i]) = 0 /\ hex0' = Append(hex0, Hex0Line(hex2[i], <<>>))
                                      \/ /\ addr + count_bytes(hex2[i]) <= Len(bin)
                                         /\ hex0' = Append(hex0, Hex0Line(hex2[i], Chunk(count_bytes(hex2[i]))))
      BY <1>6 DEF CopyLine, AnnotateLine, AtLine, Advance
    <2>2. at \in 0 .. n /\ HandedTo(at) /\ n \in Nat /\ DOMAIN hex2 = 1 .. n
      BY <1>1, <1>6, RestIs DEF HInv, Handing
    <2>3. l - addr = Rest(hex2, at + 1) /\ l \in Nat
      BY <1>1, <1>6 DEF HInv, SInv, Counting
    <2>4. count_bytes(hex2[i]) = Len(hex2[i].bytes) /\ Len(hex2[i].bytes) \in Nat
      BY <1>1, <2>2, CountsItsBytes, RestIs
    <2>5. i = at + 1 /\ i \in 1 .. n
      BY <2>1, <2>2
    <2>6. Rest(hex2, i) \in Nat /\ l - Rest(hex2, i) = addr /\ addr <= l
      <3>1. Rest(hex2, i) \in Nat
        BY <1>1, <2>5, RestIs
      <3> DEFINE r == Rest(hex2, i)
      <3>2. l - addr = r /\ r \in Nat
        BY <2>3, <2>5, <3>1
      <3> HIDE DEF r, l
      <3>3. l - r = addr /\ addr <= l
        BY <1>1, <2>3, <3>2
      <3> QED
        BY <3>1, <3>3 DEF r
    <2>7. \E x : hex0' = Append(hex0, Hex0Line(hex2[i], x)) /\ PartOf(bin, addr, x) /\ Len(x) = Len(hex2[i].bytes)
      <3> DEFINE m == count_bytes(hex2[i])
      <3>1. CASE m = 0 /\ hex0' = Append(hex0, Hex0Line(hex2[i], <<>>))
        <4>1. PartOf(bin, addr, <<>>)
          BY <1>1, <2>6 DEF PartOf
        <4>2. Len(<<>>) = Len(hex2[i].bytes)
          BY <2>4, <3>1
        <4> QED
          BY <3>1, <4>1, <4>2
      <3>2. CASE addr + m <= Len(bin) /\ hex0' = Append(hex0, Hex0Line(hex2[i], Chunk(m)))
        <4>1. m \in Nat
          BY <2>4
        <4> DEFINE x == SubSeq(bin, addr + 1, addr + m)
        <4> HIDE DEF m
        <4>2. Len(x) = m /\ \A k \in 1 .. m : x[k] = bin[addr + k]
          BY <1>1, <3>2, <4>1
        <4>3. PartOf(bin, addr, x)
          BY <3>2, <4>2 DEF PartOf
        <4>4. Len(x) = Len(hex2[i].bytes)
          BY <2>4, <4>2 DEF m
        <4>5. hex0' = Append(hex0, Hex0Line(hex2[i], x))
          BY <3>2 DEF Chunk
        <4> QED
          BY <4>3, <4>4, <4>5
      <3> QED
        BY <2>1, <3>1, <3>2
    <2>8. PICK x : hex0' = Append(hex0, Hex0Line(hex2[i], x)) /\ PartOf(bin, addr, x) /\ Len(x) = Len(hex2[i].bytes)
      BY <2>7
    <2>9. /\ Len(hex0) \in Nat /\ Len(hex0') = Len(hex0) + 1
          /\ \A j \in 1 .. Len(hex0) : hex0'[j] = hex0[j]
          /\ hex0'[Len(hex0) + 1] = Hex0Line(hex2[i], x)
      BY <1>1, <2>8, AppendOne
    <2>10. Len(hex0) = at
      BY <2>2 DEF HandedTo
    <2>11. hex2' = hex2 /\ bin' = bin
      OBVIOUS
    <2>12. HandedTo(at)'
      <3>1. ASSUME NEW j \in 1 .. at'
            PROVE  /\ Len(bin) - Rest(hex2, j) \in Nat
                   /\ PartOf(bin, Len(bin) - Rest(hex2, j), hex0'[j].bytes)
                   /\ Len(hex0'[j].bytes) = Len(hex2[j].bytes)
        <4>1. CASE j \in 1 .. at
          BY <2>2, <2>9, <2>10, <4>1 DEF HandedTo
        <4>2. CASE j = at + 1
          <5>1. hex0'[j].bytes = x
            BY <2>9, <2>10, <4>2 DEF Hex0Line
          <5>2. j = i
            BY <2>5, <4>2
          <5> QED
            BY <1>1, <2>6, <2>8, <5>1, <5>2
        <4> QED
          BY <2>1, <2>2, <4>1, <4>2
      <3>2. Len(hex0') = at'
        BY <2>1, <2>9, <2>10
      <3> QED
        BY <2>11, <3>1, <3>2 DEF HandedTo
    <2>13. job' = "annotate" /\ at' \in 0 .. Len(hex2')
      BY <1>1, <2>1, <2>2, <2>5
    <2> QED
      BY <1>2, <2>12, <2>13 DEF Handing
  <1> QED
    BY <1>3, <1>4, <1>5, <1>6 DEF Annotate

LEMMA HandingKept ==
    ASSUME HInv, [ToolsNext]_tools
    PROVE  Handing'
  <1>0. InTurn /\ Ordered
    BY DEF HInv, SInv, TInv
  <1>1. CASE UNCHANGED <<hex2, bin, hex0, job, at, fresh, spoilt>>
    BY <1>1 DEF HInv, Handing, HandedTo
  <1>2. CASE Edit
    <2>1. fresh' = {} /\ job' = "idle"
      BY <1>0, <1>2 DEF Edit, Outdated, reading, Ordered
    <2> QED
      BY <2>1 DEF Handing
  <1>3. CASE RunAssembler
    <2>1. fresh' = {} /\ job' \in {"pass1", "rv64"}
      BY <1>0, <1>3 DEF RunAssembler, Runs, making, A64Begins, Rv64Begins, Begin, InTurn, Targets3
    <2> QED
      BY <2>1 DEF Handing
  <1>4. CASE RunLinker
    <2>1. fresh' = {"hex2"} /\ job' = "link1"
      BY <1>0, <1>4 DEF RunLinker, Runs, LinkBegins, Begin, making, InTurn, Targets3
    <2> QED
      BY <2>1 DEF Handing
  <1>5. CASE RunHex2ToHex0
    <2>1. /\ fresh' = {"hex2", "bin"} /\ job' = "annotate" /\ at' = 0 /\ hex0' = <<>> /\ hex2' = hex2
      BY <1>0, <1>5 DEF RunHex2ToHex0, Runs, AnnotateBegins, Begin, making, InTurn, Targets3
    <2>2. Len(hex2) \in Nat
      BY RestIs DEF HInv, SInv, TInv, TypesHold
    <2>3. HandedTo(at)'
      BY <2>1 DEF HandedTo
    <2>4. at' \in 0 .. Len(hex2')
      BY <2>1, <2>2
    <2> QED
      BY <2>1, <2>3, <2>4 DEF Handing
  <1>6. CASE Work
    <2>1. UNCHANGED <<fresh, spoilt>>
      BY <1>6, WorkGoesOn
    <2>2. CASE Assembles
      <3>1. fresh' = {} /\ job' \in {"pass1", "pass2", "rv64", "printed", "refused"}
        <4>1. Assemble \/ Print64
          BY <2>2 DEF Assembles
        <4> QED
          BY <1>0, <1>6, <2>1, <4>1, WorkGoesOn DEF Assemble, InTurn
      <3> QED
        BY <3>1 DEF Handing
    <2>3. CASE Links
      <3>1. fresh' = {"hex2"} /\ job' \in {"link1", "link2", "linked", "refused"}
        BY <1>0, <1>6, <2>1, <2>3, WorkGoesOn DEF Links, InTurn
      <3> QED
        BY <3>1 DEF Handing
    <2>4. CASE Annotates
      BY <2>1, <2>4, AnnotateHands DEF Annotates
    <2> QED
      BY <1>6, <2>2, <2>3, <2>4 DEF Work
  <1>7. CASE RecipeEnds
    <2>1. /\ UNCHANGED <<hex2, bin, hex0, at>> /\ job' = "idle" /\ spoilt' = (spoilt \/ job = "refused")
          /\ job \in {"printed", "linked", "annotated", "refused"}
          /\ fresh' = fresh \cup {IF "hex2" \notin fresh THEN "hex2" ELSE IF "bin" \notin fresh THEN "bin" ELSE "hex0"}
      BY <1>7 DEF RecipeEnds, Renewed, Target0
    <2>2. CASE spoilt'
      BY <2>1, <2>2 DEF Handing
    <2>3. CASE ~spoilt' /\ job \in {"printed", "linked"}
      <3>1. "hex0" \notin fresh'
        BY <1>0, <2>1, <2>3 DEF InTurn, Targets3
      <3> QED
        BY <2>1, <3>1 DEF Handing
    <2>4. CASE ~spoilt' /\ job = "annotated"
      <3>1. HandedTo(Len(hex2))
        BY <2>1, <2>4 DEF HInv, Handing
      <3>2. HandedTo(Len(hex2))'
        BY <2>1, <3>1 DEF HandedTo
      <3> QED
        BY <2>1, <3>2 DEF Handing
    <2> QED
      BY <2>1, <2>2, <2>3, <2>4
  <1>8. Make \/ MakeEnds \/ UNCHANGED tools => UNCHANGED <<hex2, bin, hex0, job, at, fresh, spoilt>>
    BY DEF Make, MakeEnds, tools, reading, making
  <1> QED
    BY <1>1, <1>2, <1>3, <1>4, <1>5, <1>6, <1>7, <1>8 DEF ToolsNext, MakeGoesOn

LEMMA HandingInvariant ==
    ASSUME AllLegible(Sources)
    PROVE  ToolsSpec => []HInv
  <1>1. ToolsInit => Handing
    BY DEF ToolsInit, Written, Handing
  <1>2. HInv /\ [ToolsNext]_tools => Handing'
    BY HandingKept
  <1> QED
    BY <1>1, <1>2, CountingInvariant, PTL DEF ToolsSpec, HInv

\* What make is content with stands for what the linker wrote.
LEMMA StandsForTheBinary ==
    ASSUME HInv, Made
    PROVE  Assembled(TextOf(hex0)) = Numbers(bin, Len(bin))
  <1> DEFINE n == Len(hex2)
             l == Len(bin)
  <1>1. "hex0" \in fresh /\ "bin" \in fresh /\ ~spoilt
    BY DEF Made, HInv, SInv, TInv, InTurn, Targets3
  <1>2. HexLines(hex2) /\ bin \in Seq(Bytes8) /\ IsSeq(hex0) /\ OfBytes(hex0)
    BY DEF HInv, SInv, TInv, TypesHold
  <1>3. HandedTo(n) /\ l = Rest(hex2, 1) /\ l \in Nat
    BY <1>1, <1>2 DEF HInv, SInv, Counting, Handing
  <1>4. /\ n \in Nat /\ Rest(hex2, n + 1) = 0
        /\ \A i \in 1 .. n : /\ Len(hex2[i].bytes) \in Nat
                             /\ Rest(hex2, i) \in Nat /\ Rest(hex2, i + 1) \in Nat
                             /\ Rest(hex2, i) = Len(hex2[i].bytes) + Rest(hex2, i + 1)
    BY <1>2, RestIs
  <1>5. Len(hex0) = n
    BY <1>3 DEF HandedTo
  <1> DEFINE spot == [i \in 0 .. n |-> l - Rest(hex2, i + 1)]
  <1>6. spot[0] = 0 /\ spot[n] = l
    <2>1. 0 \in 0 .. n /\ n \in 0 .. n /\ 0 + 1 = 1
      BY <1>4
    <2>2. spot[0] = l - Rest(hex2, 1) /\ spot[n] = l - Rest(hex2, n + 1)
      BY <2>1
    <2> HIDE DEF spot, n, l
    <2> QED
      BY <1>3, <1>4, <2>2
  <1>7. ASSUME NEW i \in 0 .. n PROVE l - Rest(hex2, i + 1) \in Nat
    <2>1. CASE i = n
      BY <1>3, <1>4, <2>1
    <2>2. CASE i # n
      <3>1. i + 1 \in 1 .. n
        BY <1>4, <2>2
      <3> QED
        BY <1>3, <3>1 DEF HandedTo
    <2> QED
      BY <2>1, <2>2
  <1>8. spot \in [0 .. n -> Nat]
    BY <1>7
  <1>9. ASSUME NEW i \in 1 .. n
        PROVE  spot[i] = spot[i - 1] + Len(hex0[i].bytes) /\ PartOf(bin, spot[i - 1], hex0[i].bytes)
    <2> DEFINE a == Rest(hex2, i)
               b == Rest(hex2, i + 1)
               m == Len(hex2[i].bytes)
    <2>1. m \in Nat /\ a \in Nat /\ b \in Nat /\ a = m + b
      BY <1>4, Zenon
    <2>2. i - 1 \in 0 .. n /\ i \in 0 .. n /\ (i - 1) + 1 = i
      BY <1>4
    <2>3. spot[i] = l - b /\ spot[i - 1] = l - a
      BY <2>2
    <2>4. PartOf(bin, l - a, hex0[i].bytes) /\ Len(hex0[i].bytes) = m
      BY <1>3 DEF HandedTo
    <2> HIDE DEF spot, l, a, b, m
    <2>5. l - b = (l - a) + m
      BY <1>3, <2>1
    <2> QED
      BY <2>3, <2>4, <2>5
  <1> HIDE DEF spot
  <1> QED
    BY <1>2, <1>5, <1>6, <1>8, <1>9, FileRead

-----------------------------------------------------------------------------
(* From the source to the boot *)

\* The machine that is switched on again begins as it does the first time,
\* with whatever text is on its disk.
LEMMA SwitchedOn ==
    ASSUME NEW i, Built(i), PowerOn(i)
    PROVE  Scanning' /\ Converted' /\ Translating'
  <1>1. /\ image' = i /\ mode' = "code" /\ sector' = 0 /\ offset' = SectorSize
        /\ state' = 0 /\ high' = 0 /\ output' = <<>>
    BY DEF PowerOn
  <1>2. SectorSize \in Nat \ {0}
    BY Stage1Assumption
  <1>3. Consumed' = 0
    <2>1. 0 - 1 = -1 /\ (-1) * SectorSize = -SectorSize
      BY <1>2
    <2>2. Consumed' = (sector' - 1) * SectorSize + offset'
      BY DEF Consumed
    <2> QED
      BY <1>1, <1>2, <2>1, <2>2
  <1>4. i.source \in Seq(1 .. 255) /\ Len(i.source) \in Nat
    BY BuiltImage
  <1>5. i.source \in Seq(0 .. 255)
    BY <1>4
  <1>6. 0 \in {16 * n : n \in 0 .. 15}
    <2>1. 16 * 0 = 0
      OBVIOUS
    <2> QED
      BY <2>1
  <1>7. Scanning'
    <2>1. Built(image')
      BY <1>1
    <2>2. mode' \in {"code", "comment", "jumped"} /\ mode' # "jumped"
      BY <1>1
    <2>3. sector' \in Nat /\ offset' \in 1 .. SectorSize /\ sector' = 0 /\ offset' = SectorSize
      BY <1>1, <1>2
    <2>4. Consumed' <= Len(image'.source)
      <3>1. 0 <= Len(i.source)
        BY <1>4
      <3> QED
        BY <1>1, <1>3, <3>1
    <2> QED
      BY <2>1, <2>2, <2>3, <2>4 DEF Scanning
  <1>8. Converted'
    BY <1>1, <1>6 DEF Converted
  <1>9. Translating'
    <2>1. ~InComment(i.source, 0) /\ Translated(i.source, 0, <<>>, 0, 0)
      BY <1>5, NothingYet, CommentNext
    <2> QED
      BY <1>1, <1>3, <2>1 DEF Translating
  <1> QED
    BY <1>7, <1>8, <1>9

LEMMA FlashKeeps ==
    ASSUME BuildInv, HInv, Flash
    PROVE  BuildInv'
  <1> DEFINE text == TextOf(hex0)
             i    == Image(text, image.script)
  <1>1. text \in Seq(1 .. 255)
    BY TextIsText DEF HInv, SInv, TInv, TypesHold
  <1>2. image.script \in [1 .. SectorSize -> 0 .. 255]
    BY BuiltImage DEF BuildInv, Scanning
  <1>3. /\ Len(text) % SectorSize # 0 /\ PowerOn(i) /\ phase' = "waiting"
        /\ UNCHANGED <<file, place, fileState, fileHigh, built>>
    BY DEF Flash
  <1> HIDE DEF text
  <1>4. i.source = text /\ i.script = image.script
    BY DEF Image
  <1>5. Built(i)
    BY <1>1, <1>2, <1>3, <1>4 DEF Built
  <1>6. Scanning' /\ Converted' /\ Translating'
    BY <1>3, <1>5, SwitchedOn
  <1>7. Reading'
    BY <1>3 DEF BuildInv, Reading, Command!TypeOK
  <1>8. Compiling'
    BY <1>3 DEF BuildInv, Compiling
  <1> QED
    BY <1>6, <1>7, <1>8 DEF BuildInv

LEMMA WholeInvariant ==
    ASSUME AllBuilt(Images), AllLegible(Sources)
    PROVE  WholeSpec => [](BuildInv /\ HInv)
  <1>1. WholeInit => BuildInv
    BY BuildBegins DEF WholeInit
  <1>2. BuildInv /\ HInv /\ [WholeNext]_<<vars, command, tools>> => BuildInv'
    <2> SUFFICES ASSUME BuildInv, HInv, [WholeNext]_<<vars, command, tools>> PROVE BuildInv'
      OBVIOUS
    <2>1. Machine => BuildNext
      BY DEF Machine, BuildNext
    <2>2. CASE [BuildNext]_<<vars, command>>
      BY <2>2, BuildKept
    <2>3. CASE Flash
      BY <2>3, FlashKeeps
    <2> QED
      BY <2>1, <2>2, <2>3 DEF WholeNext, Desk
  <1>3. WholeSpec => []HInv
    BY ToolsInTheWhole, HandingInvariant, PTL
  <1> QED
    BY <1>1, <1>2, <1>3, PTL DEF WholeSpec

\* Whatever is made, edited and made again, put on a disk and booted, any number
\* of times, as long as the data of the sources are bytes: both compilers keep
\* their types and make of their texts what these stand for, and stage 2 is
\* told where its script begins.
THEOREM WholeBuilds ==
    ASSUME AllBuilt(Images), AllLegible(Sources)
    PROVE  WholeSpec => [](BuildTypeOK /\ CompilesTheSource /\ CompilesTheFile /\ HandsOverTheScript)
  <1>1. BuildInv => BuildTypeOK /\ CompilesTheSource /\ CompilesTheFile /\ HandsOverTheScript
    BY Typed, SourceIsCompiled, FileIsCompiled, HandsOver DEF BuildInv, Reading, BuildTypeOK
  <1> QED
    BY <1>1, WholeInvariant, PTL

\* From the .S file to the running program: what is in memory when stage 1 jumps
\* is what the linker wrote, byte for byte.  hex2tohex0.py hands the linker's
\* bytes out by counting for itself, writes them as digits between comments that
\* are full of letters, and stage 1 scans them sector by sector; whatever the
\* sources, and however often they are edited, made and booted, this cancels out.
THEOREM LinkedIsBooted ==
    ASSUME AllBuilt(Images), AllLegible(Sources)
    PROVE  WholeSpec => []BootsWhatWasLinked
  <1>1. BuildInv /\ HInv => BootsWhatWasLinked
    <2> SUFFICES ASSUME BuildInv, HInv, Made, mode = "jumped", image.source = TextOf(hex0)
                 PROVE  output = [i \in DOMAIN bin |-> Number(bin[i])]
      BY DEF BootsWhatWasLinked
    <2>1. output = Assembled(image.source)
      BY SourceIsCompiled DEF CompilesTheSource
    <2>2. Assembled(TextOf(hex0)) = Numbers(bin, Len(bin))
      BY StandsForTheBinary
    <2>3. bin \in Seq(Bytes8)
      BY DEF HInv, SInv, TInv, TypesHold
    <2>4. DOMAIN bin = 1 .. Len(bin)
      BY <2>3
    <2> QED
      BY <2>1, <2>2, <2>4 DEF Numbers
  <1> QED
    BY <1>1, WholeInvariant, PTL
=============================================================================
