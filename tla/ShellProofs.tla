----------------------------- MODULE ShellProofs -----------------------------
(***************************************************************************)
(* Proofs of the properties of Shell and of its refinement of Commands.    *)
(***************************************************************************)
EXTENDS ShellRefinement, SequenceTheorems, FiniteSetTheorems, WellFoundedInduction, TLAPS

\* s is how t begins.
Begins(s, t) == Len(s) <= Len(t) /\ \A i \in 1 .. Len(s) : s[i] = t[i]

\* What the digits of ds are worth, one after the other.
Value(ds) == LET value[j \in 0 .. Len(ds)] == IF j = 0 THEN 0 ELSE 10 * value[j - 1] + (ds[j] - Zero) IN value

\* The shell is p bytes into the text of command c.
InWord(c, p) ==
    /\ c.op \in DOMAIN Rest /\ mode = c.op
    /\ left \in 1 .. Rest[c.op] /\ p = Rest[c.op] + 1 - left
    /\ name = <<>> /\ out = <<>>

InComment(c, p) == mode = "comment" /\ c.op = mode /\ p \in 1 .. Len(c.data) + 1

InSrc(c, p) ==
    LET digits == Decimal(Len(c.data))
    IN /\ c.op = "src"
       /\ \/ /\ mode = "count"
             /\ p - 4 \in 0 .. Len(digits) /\ count = Value(digits)[p - 4]
             /\ name = <<>>
          \/ /\ mode = "name"
             /\ p = 5 + Len(digits) + Len(name)
             /\ count = Len(c.data) /\ Begins(name, c.name)
          \/ /\ mode = "data"
             /\ p = 6 + Len(digits) + Len(c.name) + Len(data)
             /\ count = Len(c.data) /\ name = c.name /\ Begins(data, c.data)
             /\ left = Len(c.data) - Len(data) /\ left > 0
             /\ files # <<>> /\ files[Len(files)] = [name |-> c.name, data |-> <<>>]

InHex0(c, p) ==
    /\ c.op = "hex0"
    /\ \/ mode = "in" /\ p = 5 + Len(name) /\ Begins(name, c.name) /\ out = <<>>
       \/ mode = "out" /\ name = c.name /\ p = 6 + Len(name) + Len(out) /\ Begins(out, c.arg)

InRun(c, p) ==
    /\ c.op = "run"
    /\ \/ mode = "command" /\ p = Len(name) /\ p > 0 /\ Begins(name, c.name) /\ out = <<>>
       \/ mode = "arg" /\ name = c.name /\ p = 1 + Len(name) + Len(out) /\ Begins(out, c.arg)
       \/ /\ mode = "program"
          /\ name = c.name /\ out = c.arg /\ p = 2 + Len(name) + Len(out) + Len(data)
          /\ Begins(data, c.data) /\ left = Len(c.data) - Len(data)
          /\ Exists(files, name)

Under(c, p) ==
    /\ p \in 1 .. Len(Render(c))
    /\ InWord(c, p) \/ InComment(c, p) \/ InSrc(c, p) \/ InHex0(c, p) \/ InRun(c, p)

NamesOf(fs) == {fs[i].name : i \in 1 .. Len(fs)}

\* The first k commands are behind the shell.
Reached(k) ==
    LET cs == input.commands
    IN /\ NamesOf(Stored) = Known(cs)[k]
       /\ \/ mode = "loop" /\ pos = End(cs, k)
          \/ mode = "halted" /\ k = Len(cs) /\ pos = End(cs, k) + 1
          \/ k < Len(cs) /\ Under(cs[k + 1], pos - End(cs, k))

FileRecords == [name : Seq(Bytes), data : Seq(Bytes)]

Types ==
    /\ input \in Inputs
    /\ pos \in 0 .. Limit
    /\ left \in Nat /\ count \in Nat
    /\ {name, out, data, disk} \subseteq Seq(Bytes)
    /\ files \in Seq(FileRecords)
    /\ enable_flush \in BOOLEAN

IInv == Types /\ \E k \in 0 .. Len(input.commands) : Reached(k)
-----------------------------------------------------------------------------
(* Induction *)

\* What holds of 0, and of n + 1 whenever of n, holds of every number.
LEMMA Upwards ==
    ASSUME NEW S, 0 \in S, \A n \in Nat : n \in S => n + 1 \in S
    PROVE  \A n \in Nat : n \in S
  <1> DEFINE Smaller == OpToRel(<, Nat)
             T == Nat \ S
  <1>1. IsWellFoundedOn(Smaller, Nat)
    BY NatLessThanWellFounded
  <1> SUFFICES ASSUME T # {} PROVE FALSE
    OBVIOUS
  <1>0. \A x, y \in Nat : x < y => <<x, y>> \in Smaller
    BY DEF OpToRel
  <1> HIDE DEF Smaller
  <1>2. PICK x \in T : \A y \in T : ~(<<y, x>> \in Smaller)
    <2>1. T \subseteq Nat
      OBVIOUS
    <2> HIDE DEF T
    <2> QED
      BY <1>1, <2>1, WFMin
  <1>3. x \in Nat /\ x # 0 /\ x \notin S
    OBVIOUS
  <1>4. x - 1 \in Nat /\ <<x - 1, x>> \in Smaller
    BY <1>0, <1>3
  <1>5. x - 1 \in S
    BY <1>2, <1>4
  <1> QED
    BY <1>3, <1>4, <1>5

\* A step for each number up to n, from a value each to the next: there is a
\* function that takes them.
Stepwise(f, n, s, G) == f = [i \in 0 .. n |-> IF i = 0 THEN s ELSE G[<<f[i - 1], i>>]]

LEMMA StepsExist ==
    ASSUME NEW S, NEW s \in S, NEW m \in Nat, NEW G \in [S \X (1 .. m) -> S]
    PROVE  \E f \in [0 .. m -> S] : Stepwise(f, m, s, G)
  <1> DEFINE Good == {n \in Nat : n <= m => \E f \in [0 .. n -> S] : Stepwise(f, n, s, G)}
  <1>1. 0 \in Good
    <2> DEFINE f == [i \in 0 .. 0 |-> s]
    <2>1. f \in [0 .. 0 -> S] /\ Stepwise(f, 0, s, G)
      BY DEF Stepwise
    <2> QED
      BY <2>1
  <1>2. ASSUME NEW n \in Nat, n \in Good PROVE n + 1 \in Good
    <2> SUFFICES ASSUME n + 1 <= m PROVE \E f \in [0 .. n + 1 -> S] : Stepwise(f, n + 1, s, G)
      OBVIOUS
    <2>1. PICK f \in [0 .. n -> S] : Stepwise(f, n, s, G)
      BY <1>2
    <2> DEFINE v == G[<<f[n], n + 1>>]
               g == [i \in 0 .. n + 1 |-> IF i = n + 1 THEN v ELSE f[i]]
    <2>2. v \in S
      <3>1. f[n] \in S /\ n + 1 \in 1 .. m
        OBVIOUS
      <3> QED
        BY <3>1
    <2>3. g \in [0 .. n + 1 -> S]
      BY <2>2
    <2>4. ASSUME NEW i \in 0 .. n + 1 PROVE g[i] = IF i = 0 THEN s ELSE G[<<g[i - 1], i>>]
      <3>1. CASE i = n + 1
        <4>1. g[n + 1] = v /\ n + 1 # 0 /\ i - 1 = n /\ n # n + 1
          BY <3>1
        <4>2. g[n] = f[n]
          OBVIOUS
        <4> QED
          BY <3>1, <4>1, <4>2
      <3>2. CASE i \in 0 .. n
        <4>1. g[i] = f[i] /\ (i # 0 => i - 1 \in 0 .. n /\ g[i - 1] = f[i - 1])
          BY <3>2
        <4>2. f[i] = IF i = 0 THEN s ELSE G[<<f[i - 1], i>>]
          BY <2>1, <3>2 DEF Stepwise
        <4> QED
          BY <4>1, <4>2
      <3> QED
        BY <3>1, <3>2
    <2> HIDE DEF g
    <2>5. Stepwise(g, n + 1, s, G)
      <3>1. g = [i \in 0 .. n + 1 |-> g[i]]
        BY <2>3
      <3> QED
        BY <2>4, <3>1 DEF Stepwise
    <2> QED
      BY <2>3, <2>5
  <1> HIDE DEF Good
  <1>3. m \in Good
    BY <1>1, <1>2, Upwards
  <1> QED
    BY <1>3 DEF Good

\* FlattenSeq puts one sequence behind what it has of those before.
InSteps(seqs, T) ==
    \E f \in [0 .. Len(seqs) -> Seq(T)] :
      /\ f[0] = <<>> /\ f[Len(seqs)] = FlattenSeq(seqs)
      /\ \A i \in 1 .. Len(seqs) : f[i] = f[i - 1] \o seqs[i]

LEMMA FlattenSteps ==
    ASSUME NEW T, NEW seqs \in Seq(Seq(T))
    PROVE  InSteps(seqs, T)
  <1> DEFINE n == Len(seqs)
             S == Seq(T)
             G == [x \in S \X (1 .. n) |-> x[1] \o seqs[x[2]]]
  <1>1. n \in Nat /\ \A i \in 1 .. n : seqs[i] \in S
    OBVIOUS
  <1>2. <<>> \in S
    OBVIOUS
  <1>3. G \in [S \X (1 .. n) -> S]
    <2>1. ASSUME NEW x \in S \X (1 .. n) PROVE x[1] \o seqs[x[2]] \in S
      <3>1. x[1] \in S /\ seqs[x[2]] \in S
        BY <1>1
      <3> QED
        BY <3>1
    <2> HIDE DEF S
    <2> QED
      BY <2>1
  <1>4. \A y \in S, i \in 1 .. n : G[<<y, i>>] = y \o seqs[i]
    <2> HIDE DEF S
    <2> QED
      OBVIOUS
  <1> HIDE DEF G, S
  <1>5. PICK f \in [0 .. n -> S] : Stepwise(f, n, <<>>, G)
    BY <1>1, <1>2, <1>3, StepsExist
  <1>6. f[0] = <<>> /\ \A i \in 1 .. n : f[i] = G[<<f[i - 1], i>>]
    <2> HIDE DEF n
    <2>1. \A i \in 0 .. n : f[i] = IF i = 0 THEN <<>> ELSE G[<<f[i - 1], i>>]
      BY <1>5 DEF Stepwise
    <2>2. n \in Nat /\ 0 \in 0 .. n /\ \A i \in 1 .. n : i \in 0 .. n /\ i # 0
      BY <1>1
    <2> QED
      BY <2>1, <2>2, Zenon
  <1>7. \A i \in 1 .. n : f[i - 1] \in S /\ f[i] = f[i - 1] \o seqs[i]
    <2> SUFFICES ASSUME NEW i \in 1 .. n PROVE f[i - 1] \in S /\ f[i] = f[i - 1] \o seqs[i]
      OBVIOUS
    <2>1. i - 1 \in 0 .. n
      BY <1>1
    <2>2. f[i - 1] \in S
      BY <2>1
    <2> QED
      BY <1>4, <1>6, <2>2
  <1>9. n # 0 => 1 \in 1 .. n /\ f[1] = <<>> \o seqs[1] /\ seqs[1] \in Seq(T)
    <2> SUFFICES ASSUME n # 0 PROVE 1 \in 1 .. n /\ f[1] = <<>> \o seqs[1] /\ seqs[1] \in Seq(T)
      OBVIOUS
    <2>1. 1 \in 1 .. n /\ 1 - 1 = 0
      BY <1>1
    <2>2. f[1] = f[1 - 1] \o seqs[1]
      BY <1>7, <2>1, Zenon
    <2> QED
      BY <1>1, <1>6, <2>1, <2>2 DEF S
  <1>8. f[n] = FlattenSeq(seqs)
    <2>1. CASE n = 0
      <3>1. seqs = <<>>
        BY <2>1
      <3> QED
        BY <1>6, <2>1, <3>1 DEF FlattenSeq
    <2>2. CASE n # 0
      <3> DEFINE Step(g, i) == IF i = 1 THEN seqs[i] ELSE g[i - 1] \o seqs[i]
                 Rule(g) == g = [i \in 1 .. n |-> Step(g, i)]
                 it == CHOOSE g : Rule(g)
                 h  == [i \in 1 .. n |-> f[i]]
      <3>1. FlattenSeq(seqs) = it[n]
        BY <2>2 DEF FlattenSeq
      <3>2. Rule(h)
        <4>1. ASSUME NEW i \in 1 .. n PROVE f[i] = Step(h, i)
          <5>1. CASE i = 1
            <6>1. f[1] = <<>> \o seqs[1] /\ seqs[1] \in Seq(T)
              BY <1>9, <5>1
            <6> QED
              BY <5>1, <6>1
          <5>2. CASE i # 1
            <6>1. i - 1 \in 1 .. n
              BY <1>1, <5>2
            <6>2. h[i - 1] = f[i - 1]
              BY <6>1
            <6> QED
              BY <1>7, <5>2, <6>2
          <5> QED
            BY <5>1, <5>2
        <4> HIDE DEF Step
        <4> QED
          BY <4>1
      <3>3. Rule(it)
        <4> HIDE DEF Rule, h
        <4> QED
          BY <3>2
      <3>4. \A i \in 1 .. n : it[i] = Step(it, i)
        <4> HIDE DEF it, Step
        <4> QED
          BY <3>3
      <3> HIDE DEF it, h, Rule
      <3> DEFINE Good == {k \in Nat : k \in 1 .. n => it[k] = f[k]}
      <3>5. 0 \in Good
        OBVIOUS
      <3>6. ASSUME NEW k \in Nat, k \in Good PROVE k + 1 \in Good
        <4> SUFFICES ASSUME k + 1 \in 1 .. n PROVE it[k + 1] = f[k + 1]
          OBVIOUS
        <4>1. CASE k = 0
          <5>1. it[1] = seqs[1] /\ f[1] = <<>> \o seqs[1] /\ seqs[1] \in Seq(T)
            BY <1>9, <3>4, <4>1
          <5> QED
            BY <4>1, <5>1
        <4>2. CASE k # 0
          <5>1. k \in 1 .. n /\ k + 1 # 1 /\ (k + 1) - 1 = k
            BY <1>1, <4>2
          <5>2. it[k] = f[k]
            BY <3>6, <5>1
          <5>3. it[k + 1] = it[k] \o seqs[k + 1] /\ f[k + 1] = f[k] \o seqs[k + 1]
            BY <1>7, <3>4, <5>1
          <5> QED
            BY <5>2, <5>3
        <4> QED
          BY <4>1, <4>2
      <3> HIDE DEF Good
      <3>7. n \in Good
        BY <1>1, <3>5, <3>6, Upwards
      <3>8. n \in 1 .. n
        BY <1>1, <2>2
      <3> QED
        BY <3>1, <3>7, <3>8 DEF Good
    <2> QED
      BY <2>1, <2>2
  <1> QED
    BY <1>6, <1>7, <1>8 DEF S, InSteps

\* Each of them is in the whole, from where those before end.
LaidOut(seqs, whole, ends) ==
    /\ ends[0] = 0 /\ ends[Len(seqs)] = Len(whole)
    /\ \A i \in 1 .. Len(seqs) : /\ ends[i] = ends[i - 1] + Len(seqs[i]) /\ ends[i] <= Len(whole)
                                  /\ \A k \in 1 .. Len(seqs[i]) : whole[ends[i - 1] + k] = seqs[i][k]

LEMMA FlattenPlaces ==
    ASSUME NEW T, NEW seqs \in Seq(Seq(T))
    PROVE  /\ FlattenSeq(seqs) \in Seq(T)
           /\ \E ends \in [0 .. Len(seqs) -> Nat] : LaidOut(seqs, FlattenSeq(seqs), ends)
  <1> DEFINE n == Len(seqs)
  <1>1. n \in Nat /\ \A i \in 1 .. n : seqs[i] \in Seq(T) /\ Len(seqs[i]) \in Nat
    OBVIOUS
  <1>2. PICK f \in [0 .. n -> Seq(T)] : /\ f[0] = <<>> /\ f[n] = FlattenSeq(seqs)
                                        /\ \A i \in 1 .. n : f[i] = f[i - 1] \o seqs[i]
    <2>1. InSteps(seqs, T)
      BY FlattenSteps
    <2> QED
      BY <2>1, Zenon DEF InSteps
  <1> DEFINE ends == [i \in 0 .. n |-> Len(f[i])]
  <1>3. ends \in [0 .. n -> Nat] /\ n \in 0 .. n /\ 0 \in 0 .. n
    BY <1>1, <1>2
  <1>4. ends[0] = 0 /\ ends[n] = Len(FlattenSeq(seqs)) /\ FlattenSeq(seqs) \in Seq(T)
    BY <1>2, <1>3
  <1>5. ASSUME NEW i \in 1 .. n
        PROVE  /\ f[i - 1] \in Seq(T) /\ f[i] \in Seq(T) /\ ends[i] = Len(f[i]) /\ ends[i - 1] = Len(f[i - 1])
               /\ ends[i] = ends[i - 1] + Len(seqs[i])
               /\ \A k \in 1 .. Len(f[i - 1]) : f[i][k] = f[i - 1][k]
               /\ \A k \in 1 .. Len(seqs[i]) : f[i][ends[i - 1] + k] = seqs[i][k]
    <2>1. i - 1 \in 0 .. n /\ i \in 0 .. n
      BY <1>1
    <2>2. f[i - 1] \in Seq(T) /\ f[i] \in Seq(T) /\ ends[i] = Len(f[i]) /\ ends[i - 1] = Len(f[i - 1])
      BY <1>2, <2>1
    <2>3. f[i] = f[i - 1] \o seqs[i] /\ seqs[i] \in Seq(T)
      BY <1>1, <1>2
    <2> DEFINE a == f[i - 1]
               b == seqs[i]
    <2>4. a \in Seq(T) /\ b \in Seq(T) /\ f[i] = a \o b /\ Len(a) \in Nat /\ Len(b) \in Nat
      BY <2>2, <2>3
    <2> HIDE DEF a, b
    <2>5. /\ Len(a \o b) = Len(a) + Len(b)
          /\ \A k \in 1 .. Len(a) : (a \o b)[k] = a[k]
          /\ \A k \in 1 .. Len(b) : (a \o b)[Len(a) + k] = b[k]
      BY <2>4
    <2> QED
      BY <2>2, <2>4, <2>5 DEF a, b
  <1> HIDE DEF ends
  <1> DEFINE Within(m) == \A i \in 1 .. m : /\ ends[i] <= ends[m]
                                         /\ \A k \in 1 .. Len(seqs[i]) : f[m][ends[i - 1] + k] = seqs[i][k]
             Good == {m \in Nat : m <= n => Within(m)}
  <1>6. 0 \in Good
    OBVIOUS
  <1>7. ASSUME NEW m \in Nat, m \in Good PROVE m + 1 \in Good
    <2> SUFFICES ASSUME m + 1 <= n, NEW i \in 1 .. m + 1
                 PROVE  /\ ends[i] <= ends[m + 1]
                        /\ \A k \in 1 .. Len(seqs[i]) : f[m + 1][ends[i - 1] + k] = seqs[i][k]
      OBVIOUS
    <2>1. m + 1 \in 1 .. n /\ (m + 1) - 1 = m /\ i \in 1 .. n /\ m \in 0 .. n /\ i - 1 \in 0 .. n
      BY <1>1
    <2>2. /\ ends[m + 1] = ends[m] + Len(seqs[m + 1]) /\ ends[m] = Len(f[m]) /\ Len(seqs[m + 1]) \in Nat
          /\ ends[m] \in Nat /\ ends[m + 1] \in Nat /\ ends[i] \in Nat /\ ends[i - 1] \in Nat
          /\ \A k \in 1 .. Len(f[m]) : f[m + 1][k] = f[m][k]
          /\ \A k \in 1 .. Len(seqs[m + 1]) : f[m + 1][ends[m] + k] = seqs[m + 1][k]
      <3>1. i \in 0 .. n /\ m + 1 \in 0 .. n
        BY <2>1
      <3>2. ends[m + 1] = ends[(m + 1) - 1] + Len(seqs[m + 1]) /\ ends[(m + 1) - 1] = Len(f[(m + 1) - 1])
        BY <1>5, <2>1, Zenon
      <3>3. /\ \A k \in 1 .. Len(f[(m + 1) - 1]) : f[m + 1][k] = f[(m + 1) - 1][k]
            /\ \A k \in 1 .. Len(seqs[m + 1]) : f[m + 1][ends[(m + 1) - 1] + k] = seqs[m + 1][k]
        BY <1>5, <2>1, Zenon
      <3>4. ends[m] \in Nat /\ ends[m + 1] \in Nat /\ ends[i] \in Nat /\ ends[i - 1] \in Nat
        BY <1>3, <2>1, <3>1
      <3> QED
        BY <1>1, <2>1, <3>2, <3>3, <3>4
    <2>3. CASE i = m + 1
      <3>1. i - 1 = m
        BY <2>3
      <3>2. \A k \in 1 .. Len(seqs[i]) : f[m + 1][ends[i - 1] + k] = seqs[i][k]
        BY <2>2, <2>3, <3>1, Zenon
      <3>3. ends[i] <= ends[m + 1]
        <4>1. ends[i] = ends[m + 1] /\ ends[m + 1] \in Nat
          BY <2>2, <2>3
        <4> QED
          BY <4>1
      <3> QED
        BY <3>2, <3>3
    <2>4. CASE i \in 1 .. m
      <3>1. ends[i] <= ends[m] /\ \A k \in 1 .. Len(seqs[i]) : f[m][ends[i - 1] + k] = seqs[i][k]
        BY <1>7, <2>1, <2>4
      <3>2. ends[i] = ends[i - 1] + Len(seqs[i]) /\ Len(seqs[i]) \in Nat
        BY <1>1, <1>5, <2>1
      <3>3. ends[i] <= ends[m + 1]
        <4> DEFINE l == Len(seqs[m + 1])
        <4>1. ends[m + 1] = ends[m] + l /\ l \in Nat
          BY <2>2
        <4> HIDE DEF l
        <4>2. ends[i] <= ends[m] /\ ends[m] \in Nat /\ ends[m + 1] \in Nat /\ ends[i] \in Nat
          BY <2>2, <3>1
        <4> DEFINE a == ends[i]
                   b == ends[m]
                   c == ends[m + 1]
        <4>3. a <= b /\ b \in Nat /\ c \in Nat /\ a \in Nat /\ c = b + l
          BY <4>1, <4>2
        <4> HIDE DEF a, b, c
        <4>4. a <= c
          BY <4>1, <4>3
        <4> QED
          BY <4>4 DEF a, c
      <3>4. ASSUME NEW k \in 1 .. Len(seqs[i]) PROVE f[m + 1][ends[i - 1] + k] = seqs[i][k]
        <4> DEFINE l == Len(seqs[i])
        <4>1. ends[i - 1] + k \in 1 .. Len(f[m])
          <5>1. ends[i] = ends[i - 1] + l /\ l \in Nat /\ k \in 1 .. l /\ ends[m] = Len(f[m]) /\ ends[i] <= ends[m]
            BY <2>2, <3>1, <3>2
          <5>2. ends[i - 1] \in Nat /\ ends[i] \in Nat /\ ends[m] \in Nat
            BY <2>2
          <5> DEFINE x == ends[i - 1]
                     y == ends[i]
                     z == ends[m]
          <5>3. y = x + l /\ l \in Nat /\ k \in 1 .. l /\ y <= z /\ x \in Nat /\ y \in Nat /\ z \in Nat /\ z = Len(f[m])
            BY <5>1, <5>2
          <5> HIDE DEF l, x, y, z
          <5>4. x + k \in 1 .. z
            BY <5>3
          <5> QED
            BY <5>3, <5>4 DEF x
        <4> QED
          BY <2>2, <3>1, <4>1
      <3> QED
        BY <3>3, <3>4
    <2> QED
      BY <2>3, <2>4
  <1> HIDE DEF Good
  <1>8. n \in Good
    BY <1>1, <1>6, <1>7, Upwards
  <1>9. Within(n)
    <2>1. n <= n => Within(n)
      BY <1>8, Zenon DEF Good
    <2>2. n <= n
      BY <1>1
    <2> HIDE DEF Within
    <2> QED
      BY <2>1, <2>2
  <1>10. \A i \in 1 .. n : /\ ends[i] = ends[i - 1] + Len(seqs[i]) /\ ends[i] <= Len(FlattenSeq(seqs))
                           /\ \A k \in 1 .. Len(seqs[i]) : FlattenSeq(seqs)[ends[i - 1] + k] = seqs[i][k]
    BY <1>2, <1>4, <1>5, <1>9
  <1>11. LaidOut(seqs, FlattenSeq(seqs), ends)
    BY <1>4, <1>10 DEF LaidOut
  <1> QED
    BY <1>3, <1>4, <1>11

-----------------------------------------------------------------------------
(* The functions the text of a script is described with *)

\* The names after each command.
LEMMA KnownSteps ==
    ASSUME NEW cs \in Seq(CommandRecords)
    PROVE  /\ Known(cs)[0] = {}
           /\ \A k \in 1 .. Len(cs) : Known(cs)[k] = NamesAfter(cs[k], Known(cs)[k - 1])
  <1> DEFINE n == Len(cs)
             S == SUBSET Seq(Bytes)
             G == [x \in S \X (1 .. n) |-> NamesAfter(cs[x[2]], x[1])]
  <1>1. n \in Nat /\ {} \in S
    OBVIOUS
  <1>2. ASSUME NEW y \in S, NEW k \in 1 .. n PROVE NamesAfter(cs[k], y) \in S
    <2>1. cs[k] \in CommandRecords
      OBVIOUS
    <2>2. cs[k].name \in Seq(Bytes) /\ cs[k].arg \in Seq(Bytes)
      BY <2>1 DEF CommandRecords
    <2> QED
      BY <2>2 DEF NamesAfter
  <1>3. G \in [S \X (1 .. n) -> S]
    <2>1. ASSUME NEW x \in S \X (1 .. n) PROVE NamesAfter(cs[x[2]], x[1]) \in S
      <3>1. x[1] \in S /\ x[2] \in 1 .. n
        OBVIOUS
      <3> HIDE DEF S, n
      <3> QED
        BY <1>2, <3>1
    <2> HIDE DEF S
    <2> QED
      BY <2>1
  <1>4. \A y \in S, i \in 1 .. n : G[<<y, i>>] = NamesAfter(cs[i], y)
    <2> HIDE DEF S, n
    <2> QED
      OBVIOUS
  <1> HIDE DEF G, S, n
  <1>5. PICK f \in [0 .. n -> S] : Stepwise(f, n, {}, G)
    BY <1>1, <1>3, StepsExist
  <1> DEFINE Step(g, k) == IF k = 0 THEN {} ELSE NamesAfter(cs[k], g[k - 1])
             Rule(g) == g = [k \in 0 .. n |-> Step(g, k)]
             it == CHOOSE g : Rule(g)
  <1>6. Known(cs) = it
    BY DEF Known, n
  <1>7. Rule(f)
    <2>1. ASSUME NEW i \in 0 .. n PROVE f[i] = Step(f, i)
      <3>1. f[i] = IF i = 0 THEN {} ELSE G[<<f[i - 1], i>>]
        BY <1>5 DEF Stepwise
      <3>2. i # 0 => i - 1 \in 0 .. n /\ i \in 1 .. n
        BY <1>1
      <3>3. i # 0 => G[<<f[i - 1], i>>] = NamesAfter(cs[i], f[i - 1])
        BY <1>4, <3>2
      <3> QED
        BY <3>1, <3>3
    <2> HIDE DEF Step
    <2> QED
      BY <2>1
  <1>8. Rule(it)
    <2> HIDE DEF Rule
    <2> QED
      BY <1>7
  <1>9. \A k \in 0 .. n : it[k] = Step(it, k)
    <2> HIDE DEF it, Step
    <2> QED
      BY <1>8
  <1> HIDE DEF it
  <1>10. 0 \in 0 .. n /\ \A k \in 1 .. n : k \in 0 .. n /\ k # 0
    BY <1>1
  <1>11. it[0] = {} /\ \A k \in 1 .. n : it[k] = NamesAfter(cs[k], it[k - 1])
    BY <1>9, <1>10
  <1> QED
    BY <1>6, <1>11 DEF n

\* The value of digits, after each.
LEMMA ValueSteps ==
    ASSUME NEW ds \in Seq(Bytes)
    PROVE  /\ Value(ds) \in [0 .. Len(ds) -> Int]
           /\ Value(ds)[0] = 0
           /\ \A k \in 1 .. Len(ds) : Value(ds)[k] = 10 * Value(ds)[k - 1] + (ds[k] - Zero)
  <1> DEFINE n == Len(ds)
             G == [x \in Int \X (1 .. n) |-> 10 * x[1] + (ds[x[2]] - Zero)]
  <1>1. n \in Nat
    OBVIOUS
  <1>2. ASSUME NEW k \in 1 .. n PROVE ds[k] - Zero \in Int
    <2> HIDE DEF G
    <2>1. ds[k] \in Bytes
      OBVIOUS
    <2>2. \A b \in Bytes : b \in Int
      BY DEF Bytes
    <2>3. ds[k] \in Int
      BY <2>1, <2>2
    <2> QED
      BY <2>3 DEF Zero
  <1>3. G \in [Int \X (1 .. n) -> Int]
    <2>1. ASSUME NEW x \in Int \X (1 .. n) PROVE 10 * x[1] + (ds[x[2]] - Zero) \in Int
      BY <1>2
    <2> QED
      BY <2>1
  <1>4. \A y \in Int, i \in 1 .. n : G[<<y, i>>] = 10 * y + (ds[i] - Zero)
    <2> HIDE DEF n
    <2> QED
      OBVIOUS
  <1> HIDE DEF G, n
  <1>5. PICK f \in [0 .. n -> Int] : Stepwise(f, n, 0, G)
    <2>1. 0 \in Int
      OBVIOUS
    <2> QED
      BY <1>1, <1>3, <2>1, StepsExist
  <1> DEFINE Step(g, k) == IF k = 0 THEN 0 ELSE 10 * g[k - 1] + (ds[k] - Zero)
             Rule(g) == g = [k \in 0 .. n |-> Step(g, k)]
             it == CHOOSE g : Rule(g)
  <1>6. Value(ds) = it
    BY DEF Value, n
  <1>7. Rule(f)
    <2>1. ASSUME NEW i \in 0 .. n PROVE f[i] = Step(f, i)
      <3>1. f[i] = IF i = 0 THEN 0 ELSE G[<<f[i - 1], i>>]
        BY <1>5 DEF Stepwise
      <3>2. i # 0 => i - 1 \in 0 .. n /\ i \in 1 .. n
        BY <1>1
      <3>3. i # 0 => G[<<f[i - 1], i>>] = 10 * f[i - 1] + (ds[i] - Zero)
        BY <1>4, <3>2
      <3> QED
        BY <3>1, <3>3
    <2> HIDE DEF Step
    <2> QED
      BY <2>1
  <1>8. Rule(it)
    <2> HIDE DEF Rule
    <2> QED
      BY <1>7
  <1>9. \A k \in 0 .. n : it[k] = Step(it, k)
    <2> HIDE DEF it, Step
    <2> QED
      BY <1>8
  <1>10. it = [k \in 0 .. n |-> Step(it, k)]
    BY <1>8
  <1> HIDE DEF it
  <1>11. 0 \in 0 .. n /\ \A k \in 1 .. n : k \in 0 .. n /\ k # 0
    BY <1>1
  <1>12. it[0] = 0 /\ \A k \in 1 .. n : it[k] = 10 * it[k - 1] + (ds[k] - Zero)
    BY <1>9, <1>11
  <1>13. it \in [0 .. n -> Int]
    <2> DEFINE Good == {k \in Nat : k <= n => it[k] \in Int}
    <2>1. 0 \in Good
      BY <1>12
    <2>2. ASSUME NEW k \in Nat, k \in Good PROVE k + 1 \in Good
      <3> SUFFICES ASSUME k + 1 <= n PROVE it[k + 1] \in Int
        OBVIOUS
      <3>1. k + 1 \in 1 .. n /\ (k + 1) - 1 = k /\ it[k] \in Int
        BY <1>1, <2>2
      <3>2. it[k + 1] = 10 * it[k] + (ds[k + 1] - Zero)
        BY <1>12, <3>1
      <3> QED
        BY <1>2, <3>1, <3>2
    <2> HIDE DEF Good
    <2>3. \A k \in Nat : k \in Good
      BY <2>1, <2>2, Upwards
    <2>4. \A k \in 0 .. n : it[k] \in Int
      BY <1>1, <2>3 DEF Good
    <2> HIDE DEF Step
    <2> QED
      BY <1>10, <2>4
  <1> QED
    BY <1>6, <1>12, <1>13 DEF n

\* What a digit more adds.
LEMMA ValueOfMore ==
    ASSUME NEW ds \in Seq(Bytes), NEW b \in Bytes
    PROVE  /\ \A k \in 0 .. Len(ds) : Value(Append(ds, b))[k] = Value(ds)[k]
           /\ Value(Append(ds, b))[Len(ds) + 1] = 10 * Value(ds)[Len(ds)] + (b - Zero)
  <1> DEFINE n == Len(ds)
             more == Append(ds, b)
             u == Value(ds)
             v == Value(more)
  <1>1. /\ n \in Nat /\ more \in Seq(Bytes) /\ Len(more) = n + 1
        /\ more[n + 1] = b /\ \A k \in 1 .. n : more[k] = ds[k]
    OBVIOUS
  <1>2. u[0] = 0 /\ \A k \in 1 .. n : u[k] = 10 * u[k - 1] + (ds[k] - Zero)
    BY ValueSteps
  <1>3. v[0] = 0 /\ \A k \in 1 .. n + 1 : v[k] = 10 * v[k - 1] + (more[k] - Zero)
    <2> HIDE DEF more, n
    <2>1. v[0] = 0 /\ \A k \in 1 .. Len(more) : v[k] = 10 * v[k - 1] + (more[k] - Zero)
      BY <1>1, ValueSteps
    <2> QED
      BY <1>1, <2>1
  <1> HIDE DEF n, more, u, v
  <1> DEFINE Good == {k \in Nat : k <= n => v[k] = u[k]}
  <1>4. 0 \in Good
    BY <1>2, <1>3
  <1>5. ASSUME NEW k \in Nat, k \in Good PROVE k + 1 \in Good
    <2> SUFFICES ASSUME k + 1 <= n PROVE v[k + 1] = u[k + 1]
      OBVIOUS
    <2>1. k + 1 \in 1 .. n /\ k + 1 \in 1 .. n + 1 /\ (k + 1) - 1 = k /\ v[k] = u[k]
      BY <1>1, <1>5
    <2>2. v[k + 1] = 10 * v[k] + (more[k + 1] - Zero) /\ u[k + 1] = 10 * u[k] + (ds[k + 1] - Zero)
      BY <1>2, <1>3, <2>1
    <2> QED
      BY <1>1, <2>1, <2>2
  <1> HIDE DEF Good
  <1>6. \A k \in Nat : k \in Good
    BY <1>4, <1>5, Upwards
  <1>7. \A k \in 0 .. n : v[k] = u[k]
    BY <1>1, <1>6 DEF Good
  <1>8. v[n + 1] = 10 * u[n] + (b - Zero)
    <2>1. n + 1 \in 1 .. n + 1 /\ (n + 1) - 1 = n /\ n \in 0 .. n
      BY <1>1
    <2>2. v[n + 1] = 10 * v[n] + (more[n + 1] - Zero)
      BY <1>3, <2>1
    <2> QED
      BY <1>1, <1>7, <2>1, <2>2
  <1> QED
    BY <1>7, <1>8 DEF n, more, u, v

\* The digits of numbers up to n, by their rule.
LEMMA DecimalSteps ==
    ASSUME NEW n \in Nat
    PROVE  \E f \in [0 .. n -> Seq(Bytes)] :
             /\ Decimal(n) = f[n]
             /\ \A k \in 0 .. n : f[k] = IF k < 10 THEN <<48 + k>> ELSE Append(f[k \div 10], 48 + (k % 10))
  <1> DEFINE S == [0 .. n -> Seq(Bytes)]
             s == [k \in 0 .. n |-> <<48>>]
             New(t, i) == IF i < 10 THEN <<48 + i>> ELSE Append(t[i \div 10], 48 + (i % 10))
             G == [x \in S \X (1 .. n) |-> [x[1] EXCEPT ![x[2]] = New(x[1], x[2])]]
  <1>1. s \in S
    BY DEF Bytes
  <1>2. ASSUME NEW t \in S, NEW i \in 1 .. n PROVE New(t, i) \in Seq(Bytes)
    <2>1. CASE i < 10
      BY <2>1 DEF Bytes
    <2>2. CASE ~ i < 10
      <3>1. i \div 10 \in 0 .. n /\ 48 + (i % 10) \in Bytes
        BY <2>2 DEF Bytes
      <3>2. t[i \div 10] \in Seq(Bytes)
        BY <3>1
      <3> QED
        BY <2>2, <3>1, <3>2
    <2> QED
      BY <2>1, <2>2
  <1> HIDE DEF New
  <1>3. G \in [S \X (1 .. n) -> S]
    <2>1. ASSUME NEW x \in S \X (1 .. n) PROVE [x[1] EXCEPT ![x[2]] = New(x[1], x[2])] \in S
      <3>1. x[1] \in S /\ x[2] \in 1 .. n
        OBVIOUS
      <3>2. New(x[1], x[2]) \in Seq(Bytes)
        BY <1>2, <3>1
      <3> QED
        BY <3>1, <3>2
    <2> HIDE DEF S
    <2> QED
      BY <2>1
  <1>4. \A t \in S, i \in 1 .. n : G[<<t, i>>] = [t EXCEPT ![i] = New(t, i)]
    <2> HIDE DEF S
    <2> QED
      OBVIOUS
  <1> HIDE DEF G, s
  <1>5. PICK f \in [0 .. n -> S] : Stepwise(f, n, s, G)
    <2> HIDE DEF S
    <2> QED
      BY <1>1, <1>3, StepsExist
  <1>6. f[0] = s
    <2>1. 0 \in 0 .. n
      OBVIOUS
    <2> QED
      BY <1>5, <2>1 DEF Stepwise
  <1>7. ASSUME NEW i \in 1 .. n
        PROVE  /\ i - 1 \in 0 .. n /\ i \in 0 .. n
               /\ f[i] = [f[i - 1] EXCEPT ![i] = New(f[i - 1], i)]
    <2>1. i - 1 \in 0 .. n /\ i \in 0 .. n /\ i # 0
      OBVIOUS
    <2>2. f[i] = G[<<f[i - 1], i>>]
      BY <1>5, <2>1 DEF Stepwise
    <2>3. f[i - 1] \in S
      BY <1>5, <2>1
    <2> HIDE DEF S
    <2> QED
      BY <1>4, <2>1, <2>2, <2>3
  <1> DEFINE h == [k \in 0 .. n |-> f[k][k]]
             Good == {i \in Nat : i <= n => \A k \in 0 .. i : f[i][k] = f[k][k]}
  <1>8. 0 \in Good
    OBVIOUS
  <1>9. ASSUME NEW i \in Nat, i \in Good PROVE i + 1 \in Good
    <2> SUFFICES ASSUME i + 1 <= n, NEW k \in 0 .. i + 1 PROVE f[i + 1][k] = f[k][k]
      OBVIOUS
    <2>1. i + 1 \in 1 .. n /\ (i + 1) - 1 = i /\ i \in 0 .. n
      OBVIOUS
    <2>2. f[i + 1] = [f[i] EXCEPT ![i + 1] = New(f[i], i + 1)] /\ f[i] \in S
      BY <1>5, <1>7, <2>1
    <2>3. CASE k = i + 1
      BY <2>3
    <2>4. CASE k \in 0 .. i
      <3>1. f[i][k] = f[k][k] /\ k # i + 1 /\ k \in 0 .. n
        BY <1>9, <2>1, <2>4
      <3> QED
        BY <2>2, <3>1
    <2> QED
      BY <2>3, <2>4
  <1> HIDE DEF Good
  <1>10. \A i \in Nat : i \in Good
    BY <1>8, <1>9, Upwards
  <1>11. ASSUME NEW i \in 0 .. n, NEW k \in 0 .. i PROVE f[i][k] = f[k][k] /\ h[k] = f[k][k]
    BY <1>10 DEF Good
  <1>12. h \in [0 .. n -> Seq(Bytes)]
    <2>1. ASSUME NEW k \in 0 .. n PROVE f[k][k] \in Seq(Bytes)
      BY <1>5
    <2> QED
      BY <2>1
  <1>13. ASSUME NEW k \in 0 .. n PROVE h[k] = New(h, k)
    <2>1. CASE k = 0
      <3>1. h[0] = f[0][0] /\ 0 \in 0 .. n
        BY <1>11, <2>1
      <3> QED
        BY <1>6, <2>1, <3>1 DEF s, New
    <2>2. CASE k # 0
      <3>1. k \in 1 .. n
        BY <2>2
      <3>2. f[k] = [f[k - 1] EXCEPT ![k] = New(f[k - 1], k)] /\ k - 1 \in 0 .. n /\ f[k - 1] \in S
        BY <1>5, <1>7, <3>1
      <3>3. f[k][k] = New(f[k - 1], k)
        BY <3>2
      <3>4. k >= 10 => f[k - 1][k \div 10] = h[k \div 10]
        <4> SUFFICES ASSUME k >= 10 PROVE f[k - 1][k \div 10] = h[k \div 10]
          OBVIOUS
        <4>1. k - 1 \in 0 .. n /\ k \div 10 \in 0 .. k - 1
          BY <3>1
        <4> HIDE DEF h
        <4> QED
          BY <1>11, <4>1
      <3>5. h[k] = f[k][k]
        OBVIOUS
      <3> HIDE DEF h, S
      <3> QED
        BY <3>1, <3>3, <3>4, <3>5 DEF New
    <2> QED
      BY <2>1, <2>2
  <1> HIDE DEF h
  <1> DEFINE Rule(g) == g = [k \in 0 .. n |-> IF k < 10 THEN <<48 + k>> ELSE Append(g[k \div 10], 48 + (k % 10))]
             it == CHOOSE g : Rule(g)
  <1>14. Decimal(n) = it[n]
    BY DEF Decimal
  <1>15. Rule(h)
    BY <1>12, <1>13 DEF New
  <1>16. Rule(it)
    <2> HIDE DEF Rule
    <2> QED
      BY <1>15
  <1> HIDE DEF it
  <1>17. \A k \in 0 .. n : it[k] = IF k < 10 THEN <<48 + k>> ELSE Append(it[k \div 10], 48 + (k % 10))
    BY <1>16
  <1> DEFINE Typed == {i \in Nat : i <= n => \A k \in 0 .. i : it[k] \in Seq(Bytes)}
  <1>18. 0 \in Typed
    <2>1. 0 \in 0 .. n /\ 0 < 10 /\ <<48 + 0>> \in Seq(Bytes)
      BY DEF Bytes
    <2>2. it[0] = <<48 + 0>>
      BY <1>17, <2>1
    <2>3. \A k \in 0 .. 0 : k = 0
      OBVIOUS
    <2> QED
      BY <2>1, <2>2, <2>3
  <1>19. ASSUME NEW i \in Nat, i \in Typed PROVE i + 1 \in Typed
    <2> SUFFICES ASSUME i + 1 <= n PROVE it[i + 1] \in Seq(Bytes)
      BY <1>19
    <2> DEFINE k == i + 1
    <2>1. k \in 0 .. n /\ k = i + 1
      OBVIOUS
    <2> HIDE DEF k
    <2>2. it[k] = IF k < 10 THEN <<48 + k>> ELSE Append(it[k \div 10], 48 + (k % 10))
      BY <1>17, <2>1
    <2>3. CASE k < 10
      <3>1. it[k] = <<48 + k>> /\ 48 + k \in Bytes
        BY <2>1, <2>2, <2>3 DEF Bytes
      <3> QED
        BY <2>1, <3>1
    <2>4. CASE ~ k < 10
      <3>1. it[k] = Append(it[k \div 10], 48 + (k % 10))
        BY <2>2, <2>4
      <3>2. k \div 10 \in 0 .. i /\ 48 + (k % 10) \in Bytes
        <4>1. k \in Nat /\ k >= 10
          BY <2>1, <2>4
        <4>2. k \div 10 \in 0 .. i /\ k % 10 \in 0 .. 9
          BY <2>1, <4>1
        <4>3. \A d \in 0 .. 9 : 48 + d \in Bytes
          BY DEF Bytes
        <4> QED
          BY <4>2, <4>3
      <3>3. it[k \div 10] \in Seq(Bytes)
        BY <1>19, <3>2
      <3> QED
        BY <2>1, <3>1, <3>2, <3>3
    <2> QED
      BY <2>3, <2>4
  <1> HIDE DEF Typed
  <1>20. n \in Typed
    BY <1>18, <1>19, Upwards
  <1>21. \A k \in 0 .. n : it[k] \in Seq(Bytes)
    BY <1>20 DEF Typed
  <1>22. it \in [0 .. n -> Seq(Bytes)]
    BY <1>16, <1>21
  <1> QED
    BY <1>14, <1>17, <1>22

\* The digits of a number are digits, and worth that number.
LEMMA DecimalValue ==
    ASSUME NEW n \in Nat
    PROVE  /\ Decimal(n) \in Seq(48 .. 57) /\ Decimal(n) \in Seq(Bytes)
           /\ Value(Decimal(n))[Len(Decimal(n))] = n
  <1>1. PICK f \in [0 .. n -> Seq(Bytes)] :
             /\ Decimal(n) = f[n]
             /\ \A k \in 0 .. n : f[k] = IF k < 10 THEN <<48 + k>> ELSE Append(f[k \div 10], 48 + (k % 10))
    BY DecimalSteps
  <1> DEFINE Fine(ds, k) == ds \in Seq(48 .. 57) /\ ds \in Seq(Bytes) /\ Value(ds)[Len(ds)] = k
             Good == {m \in Nat : m <= n => \A k \in 0 .. m : Fine(f[k], k)}
  <1>2. ASSUME NEW ds \in Seq(48 .. 57), NEW v \in Nat, NEW d \in 0 .. 9, Fine(ds, v)
        PROVE  Fine(Append(ds, 48 + d), 10 * v + d)
    <2>1. ds \in Seq(Bytes) /\ Value(ds)[Len(ds)] = v
      BY <1>2
    <2> DEFINE b == 48 + d
               more == Append(ds, b)
    <2>2. b \in 48 .. 57 /\ b \in Bytes /\ b - Zero = d
      BY DEF Bytes, Zero
    <2> HIDE DEF b
    <2>3. more \in Seq(48 .. 57) /\ more \in Seq(Bytes) /\ Len(more) = Len(ds) + 1
      BY <2>1, <2>2
    <2>4. Value(more)[Len(ds) + 1] = 10 * Value(ds)[Len(ds)] + (b - Zero)
      BY <2>1, <2>2, ValueOfMore
    <2>5. Value(more)[Len(more)] = 10 * v + d
      BY <2>1, <2>2, <2>3, <2>4
    <2> QED
      BY <2>3, <2>5 DEF b
  <1>3. Fine(<<>>, 0)
    <2>1. <<>> \in Seq(48 .. 57) /\ <<>> \in Seq(Bytes) /\ Len(<<>>) = 0
      OBVIOUS
    <2>2. Value(<<>>)[0] = 0
      BY <2>1, ValueSteps
    <2> QED
      BY <2>1, <2>2
  <1> HIDE DEF Fine
  <1>4. ASSUME NEW k \in 0 .. n, k < 10 PROVE Fine(f[k], k)
    <2>1. f[k] = <<48 + k>>
      BY <1>1, <1>4
    <2>2. <<48 + k>> = Append(<<>>, 48 + k) /\ k \in 0 .. 9 /\ <<>> \in Seq(48 .. 57) /\ 10 * 0 + k = k
      BY <1>4
    <2>3. Fine(Append(<<>>, 48 + k), 10 * 0 + k)
      BY <1>2, <1>3, <2>2
    <2> QED
      BY <2>1, <2>2, <2>3
  <1>5. 0 \in Good
    <2>1. 0 \in 0 .. n /\ 0 < 10 /\ \A k \in 0 .. 0 : k = 0
      OBVIOUS
    <2>2. Fine(f[0], 0)
      BY <1>4, <2>1
    <2> QED
      BY <2>1, <2>2
  <1>6. ASSUME NEW m \in Nat, m \in Good PROVE m + 1 \in Good
    <2> SUFFICES ASSUME m + 1 <= n, NEW k \in 0 .. m + 1 PROVE Fine(f[k], k)
      OBVIOUS
    <2>1. k \in 0 .. n /\ m <= n
      OBVIOUS
    <2>2. CASE k < 10
      BY <1>4, <2>1, <2>2
    <2>3. CASE k \in 0 .. m
      BY <1>6, <2>1, <2>3
    <2>4. CASE k = m + 1 /\ ~ k < 10
      <3>1. f[k] = Append(f[k \div 10], 48 + (k % 10))
        BY <1>1, <2>1, <2>4
      <3>2. k \div 10 \in 0 .. m /\ k \div 10 \in Nat /\ k % 10 \in 0 .. 9 /\ 10 * (k \div 10) + (k % 10) = k
        BY <2>4
      <3>3. Fine(f[k \div 10], k \div 10)
        BY <1>6, <2>1, <3>2
      <3>4. f[k \div 10] \in Seq(48 .. 57)
        BY <3>3 DEF Fine
      <3>5. Fine(Append(f[k \div 10], 48 + (k % 10)), 10 * (k \div 10) + (k % 10))
        BY <1>2, <3>2, <3>3, <3>4
      <3> QED
        BY <3>1, <3>2, <3>5
    <2> QED
      BY <2>2, <2>3, <2>4
  <1> HIDE DEF Good
  <1>7. n \in Good
    BY <1>5, <1>6, Upwards
  <1>8. Fine(f[n], n)
    BY <1>7 DEF Good
  <1> QED
    BY <1>1, <1>8 DEF Fine
-----------------------------------------------------------------------------
(* What the text of a command is made of *)

LEMMA Joined ==
    ASSUME NEW a \in Seq(Bytes), NEW b \in Seq(Bytes)
    PROVE  /\ a \o b \in Seq(Bytes) /\ Len(a \o b) = Len(a) + Len(b)
           /\ \A i \in 1 .. Len(a) : (a \o b)[i] = a[i]
           /\ \A i \in 1 .. Len(b) : (a \o b)[Len(a) + i] = b[i]
  OBVIOUS

\* One byte behind others, and then more of them.
Parted(t, a, b, c) ==
    /\ t \in Seq(Bytes) /\ Len(t) = Len(a) + 1 + Len(c)
    /\ \A i \in 1 .. Len(a) : t[i] = a[i]
    /\ t[Len(a) + 1] = b
    /\ \A i \in 1 .. Len(c) : t[Len(a) + 1 + i] = c[i]

LEMMA JoinedBy ==
    ASSUME NEW a \in Seq(Bytes), NEW b \in Bytes, NEW c \in Seq(Bytes)
    PROVE  Parted(a \o <<b>> \o c, a, b, c)
  <1> DEFINE m == a \o <<b>>
  <1>1. <<b>> \in Seq(Bytes) /\ Len(<<b>>) = 1 /\ <<b>>[1] = b /\ Len(a) \in Nat /\ Len(c) \in Nat
    OBVIOUS
  <1>2. m \in Seq(Bytes) /\ Len(m) = Len(a) + 1 /\ (\A i \in 1 .. Len(a) : m[i] = a[i]) /\ m[Len(a) + 1] = b
    <2>1. 1 \in 1 .. Len(<<b>>)
      BY <1>1
    <2> QED
      BY <1>1, <2>1, Joined
  <1> HIDE DEF m
  <1>3. /\ m \o c \in Seq(Bytes) /\ Len(m \o c) = Len(m) + Len(c)
        /\ \A i \in 1 .. Len(m) : (m \o c)[i] = m[i]
        /\ \A i \in 1 .. Len(c) : (m \o c)[Len(m) + i] = c[i]
    BY <1>2, Joined
  <1>4. /\ Len(m) = Len(a) + 1 /\ Len(a) + 1 \in 1 .. Len(m)
        /\ \A i \in 1 .. Len(a) : i \in 1 .. Len(m)
    BY <1>1, <1>2
  <1>5. /\ Len(m \o c) = Len(a) + 1 + Len(c)
        /\ \A i \in 1 .. Len(a) : (m \o c)[i] = a[i]
        /\ (m \o c)[Len(a) + 1] = b
        /\ \A i \in 1 .. Len(c) : (m \o c)[Len(a) + 1 + i] = c[i]
    BY <1>1, <1>2, <1>3, <1>4
  <1> QED
    BY <1>3, <1>5 DEF m, Parted

LEMMA Letters ==
    /\ {NUL, NL, CR, SP, Hash, LetterF, LetterH, LetterS} \subseteq Bytes
    /\ SrcWord \in Seq(Bytes) /\ Len(SrcWord) = 3 /\ SrcWord[1] = LetterS
    /\ Hex0Word \in Seq(Bytes) /\ Len(Hex0Word) = 4 /\ Hex0Word[1] = LetterH
    /\ FWord \in Seq(Bytes) /\ Len(FWord) = 1 /\ FWord[1] = LetterF
    /\ NewLine = <<NL>> /\ Space = <<SP>>
  BY DEF NUL, NL, CR, SP, Hash, LetterF, LetterH, LetterS, Bytes, SrcWord, Hex0Word, FWord, NewLine, Space

LEMMA LineEnded ==
    ASSUME NEW a \in Seq(Bytes)
    PROVE  /\ a \o NewLine \in Seq(Bytes) /\ Len(a \o NewLine) = Len(a) + 1
           /\ \A i \in 1 .. Len(a) : (a \o NewLine)[i] = a[i]
           /\ (a \o NewLine)[Len(a) + 1] = NL
  <1>1. NL \in Bytes /\ NewLine = <<NL>>
    BY Letters
  <1>2. a \o <<NL>> = Append(a, NL)
    BY <1>1
  <1> QED
    BY <1>1, <1>2

\* "src", the count, the name on its line, and the data.
SrcText(t, digits, n, d) ==
    /\ t \in Seq(Bytes) /\ Len(t) = 6 + Len(digits) + Len(n) + Len(d)
    /\ t[1] = LetterS
    /\ \A i \in 1 .. Len(digits) : t[4 + i] = digits[i]
    /\ t[5 + Len(digits)] = SP
    /\ \A i \in 1 .. Len(n) : t[5 + Len(digits) + i] = n[i]
    /\ t[6 + Len(digits) + Len(n)] = NL
    /\ \A i \in 1 .. Len(d) : t[6 + Len(digits) + Len(n) + i] = d[i]

LEMMA SrcTextIs ==
    ASSUME NEW c \in CommandRecords, c.op = "src"
    PROVE  SrcText(Render(c), Decimal(Len(c.data)), c.name, c.data)
  <1> DEFINE digits == Decimal(Len(c.data))
             n == c.name
             d == c.data
             t1 == SrcWord \o Space \o digits
             t2 == t1 \o Space \o n
             t  == t2 \o NewLine \o d
  <1>1. n \in Seq(Bytes) /\ d \in Seq(Bytes) /\ Len(n) \in Nat /\ Len(d) \in Nat
    BY DEF CommandRecords
  <1>2. digits \in Seq(Bytes) /\ Len(digits) \in Nat
    <2>1. digits \in Seq(Bytes)
      BY <1>1, DecimalValue, Zenon
    <2> HIDE DEF digits
    <2> QED
      BY <2>1
  <1>3. Render(c) = t
    BY DEF Render
  <1> HIDE DEF digits, n, d
  <1>4. /\ t1 \in Seq(Bytes) /\ Len(t1) = 4 + Len(digits) /\ t1[1] = LetterS
        /\ \A i \in 1 .. Len(digits) : t1[4 + i] = digits[i]
    <2>1. /\ t1 \in Seq(Bytes) /\ Len(t1) = Len(SrcWord) + 1 + Len(digits)
          /\ \A i \in 1 .. Len(SrcWord) : t1[i] = SrcWord[i]
          /\ \A i \in 1 .. Len(digits) : t1[Len(SrcWord) + 1 + i] = digits[i]
      <3>1. Parted(SrcWord \o <<SP>> \o digits, SrcWord, SP, digits)
        BY <1>2, JoinedBy, Letters
      <3>2. t1 = SrcWord \o <<SP>> \o digits
        BY Letters
      <3> HIDE DEF t1
      <3>3. Parted(t1, SrcWord, SP, digits)
        BY <3>1, <3>2
      <3> QED
        BY <3>3 DEF Parted
    <2> HIDE DEF t1
    <2> QED
      BY <1>2, <2>1, Letters
  <1> HIDE DEF t1
  <1>5. /\ t2 \in Seq(Bytes) /\ Len(t2) = Len(t1) + 1 + Len(n)
        /\ \A i \in 1 .. Len(t1) : t2[i] = t1[i]
        /\ t2[Len(t1) + 1] = SP
        /\ \A i \in 1 .. Len(n) : t2[Len(t1) + 1 + i] = n[i]
    <2>1. Parted(t1 \o <<SP>> \o n, t1, SP, n)
      BY <1>1, <1>4, JoinedBy, Letters
    <2>2. t2 = t1 \o <<SP>> \o n
      BY Letters
    <2> HIDE DEF t2
    <2>3. Parted(t2, t1, SP, n)
      BY <2>1, <2>2
    <2> QED
      BY <2>3 DEF Parted
  <1> HIDE DEF t2
  <1>6. /\ t \in Seq(Bytes) /\ Len(t) = Len(t2) + 1 + Len(d)
        /\ \A i \in 1 .. Len(t2) : t[i] = t2[i]
        /\ t[Len(t2) + 1] = NL
        /\ \A i \in 1 .. Len(d) : t[Len(t2) + 1 + i] = d[i]
    <2>1. Parted(t2 \o <<NL>> \o d, t2, NL, d)
      BY <1>1, <1>5, JoinedBy, Letters
    <2>2. t = t2 \o <<NL>> \o d
      BY Letters
    <2> HIDE DEF t
    <2>3. Parted(t, t2, NL, d)
      BY <2>1, <2>2
    <2> QED
      BY <2>3 DEF Parted
  <1> HIDE DEF t
  <1>7. Len(t2) = 5 + Len(digits) + Len(n) /\ Len(t) = 6 + Len(digits) + Len(n) + Len(d)
    BY <1>1, <1>2, <1>4, <1>5, <1>6
  <1>8. \A i \in 1 .. Len(t1) : t[i] = t1[i]
    <2>1. \A i \in 1 .. Len(t1) : i \in 1 .. Len(t2)
      BY <1>1, <1>2, <1>4, <1>5
    <2> QED
      BY <1>5, <1>6, <2>1
  <1>9. t[1] = LetterS /\ \A i \in 1 .. Len(digits) : t[4 + i] = digits[i]
    <2>1. 1 \in 1 .. Len(t1) /\ \A i \in 1 .. Len(digits) : 4 + i \in 1 .. Len(t1)
      BY <1>2, <1>4
    <2> QED
      BY <1>4, <1>8, <2>1
  <1>10. t[5 + Len(digits)] = SP /\ \A i \in 1 .. Len(n) : t[5 + Len(digits) + i] = n[i]
    <2>1. Len(t1) + 1 \in 1 .. Len(t2) /\ \A i \in 1 .. Len(n) : Len(t1) + 1 + i \in 1 .. Len(t2)
      BY <1>1, <1>2, <1>4, <1>5
    <2>2. t[Len(t1) + 1] = SP /\ \A i \in 1 .. Len(n) : t[Len(t1) + 1 + i] = n[i]
      BY <1>5, <1>6, <2>1
    <2>3. Len(t1) + 1 = 5 + Len(digits) /\ \A i \in 1 .. Len(n) : Len(t1) + 1 + i = 5 + Len(digits) + i
      BY <1>2, <1>4
    <2> QED
      BY <2>2, <2>3
  <1>11. t[6 + Len(digits) + Len(n)] = NL /\ \A i \in 1 .. Len(d) : t[6 + Len(digits) + Len(n) + i] = d[i]
    <2>1. Len(t2) + 1 = 6 + Len(digits) + Len(n)
          /\ \A i \in 1 .. Len(d) : Len(t2) + 1 + i = 6 + Len(digits) + Len(n) + i
      BY <1>1, <1>2, <1>7
    <2> QED
      BY <1>6, <2>1
  <1> QED
    BY <1>3, <1>6, <1>7, <1>9, <1>10, <1>11 DEF SrcText, digits, n, d

\* "hex0" and two names.
Hex0Text(t, n, a) ==
    /\ t \in Seq(Bytes) /\ Len(t) = 7 + Len(n) + Len(a)
    /\ t[1] = LetterH
    /\ \A i \in 1 .. Len(n) : t[5 + i] = n[i]
    /\ t[6 + Len(n)] = SP
    /\ \A i \in 1 .. Len(a) : t[6 + Len(n) + i] = a[i]
    /\ t[7 + Len(n) + Len(a)] = NL

LEMMA Hex0TextIs ==
    ASSUME NEW c \in CommandRecords, c.op = "hex0"
    PROVE  Hex0Text(Render(c), c.name, c.arg)
  <1> DEFINE n == c.name
             a == c.arg
             t1 == Hex0Word \o Space \o n
             t2 == t1 \o Space \o a
             t  == t2 \o NewLine
  <1>1. n \in Seq(Bytes) /\ a \in Seq(Bytes) /\ Len(n) \in Nat /\ Len(a) \in Nat
    BY DEF CommandRecords
  <1>3. Render(c) = t
    BY DEF Render
  <1> HIDE DEF n, a
  <1>4. /\ t1 \in Seq(Bytes) /\ Len(t1) = 5 + Len(n) /\ t1[1] = LetterH
        /\ \A i \in 1 .. Len(n) : t1[5 + i] = n[i]
    <2>1. /\ t1 \in Seq(Bytes) /\ Len(t1) = Len(Hex0Word) + 1 + Len(n)
          /\ \A i \in 1 .. Len(Hex0Word) : t1[i] = Hex0Word[i]
          /\ \A i \in 1 .. Len(n) : t1[Len(Hex0Word) + 1 + i] = n[i]
      <3>1. Parted(Hex0Word \o <<SP>> \o n, Hex0Word, SP, n)
        BY <1>1, JoinedBy, Letters
      <3>2. t1 = Hex0Word \o <<SP>> \o n
        BY Letters
      <3> HIDE DEF t1
      <3>3. Parted(t1, Hex0Word, SP, n)
        BY <3>1, <3>2
      <3> QED
        BY <3>3 DEF Parted
    <2> HIDE DEF t1
    <2> QED
      BY <1>1, <2>1, Letters
  <1> HIDE DEF t1
  <1>5. /\ t2 \in Seq(Bytes) /\ Len(t2) = Len(t1) + 1 + Len(a)
        /\ \A i \in 1 .. Len(t1) : t2[i] = t1[i]
        /\ t2[Len(t1) + 1] = SP
        /\ \A i \in 1 .. Len(a) : t2[Len(t1) + 1 + i] = a[i]
    <2>1. Parted(t1 \o <<SP>> \o a, t1, SP, a)
      BY <1>1, <1>4, JoinedBy, Letters
    <2>2. t2 = t1 \o <<SP>> \o a
      BY Letters
    <2> HIDE DEF t2
    <2>3. Parted(t2, t1, SP, a)
      BY <2>1, <2>2
    <2> QED
      BY <2>3 DEF Parted
  <1> HIDE DEF t2
  <1>6. /\ t \in Seq(Bytes) /\ Len(t) = Len(t2) + 1
        /\ \A i \in 1 .. Len(t2) : t[i] = t2[i]
        /\ t[Len(t2) + 1] = NL
    BY <1>5, LineEnded
  <1> HIDE DEF t
  <1>7. Len(t2) = 6 + Len(n) + Len(a) /\ Len(t) = 7 + Len(n) + Len(a)
    BY <1>1, <1>4, <1>5, <1>6
  <1>8. \A i \in 1 .. Len(t1) : t[i] = t1[i]
    <2>1. \A i \in 1 .. Len(t1) : i \in 1 .. Len(t2)
      BY <1>1, <1>4, <1>5
    <2> QED
      BY <1>5, <1>6, <2>1
  <1>9. t[1] = LetterH /\ \A i \in 1 .. Len(n) : t[5 + i] = n[i]
    <2>1. 1 \in 1 .. Len(t1) /\ \A i \in 1 .. Len(n) : 5 + i \in 1 .. Len(t1)
      BY <1>1, <1>4
    <2> QED
      BY <1>4, <1>8, <2>1
  <1>10. t[6 + Len(n)] = SP /\ \A i \in 1 .. Len(a) : t[6 + Len(n) + i] = a[i]
    <2>1. Len(t1) + 1 \in 1 .. Len(t2) /\ \A i \in 1 .. Len(a) : Len(t1) + 1 + i \in 1 .. Len(t2)
      BY <1>1, <1>4, <1>5
    <2>2. t[Len(t1) + 1] = SP /\ \A i \in 1 .. Len(a) : t[Len(t1) + 1 + i] = a[i]
      BY <1>5, <1>6, <2>1
    <2>3. Len(t1) + 1 = 6 + Len(n) /\ \A i \in 1 .. Len(a) : Len(t1) + 1 + i = 6 + Len(n) + i
      BY <1>1, <1>4
    <2> QED
      BY <2>2, <2>3
  <1>11. t[7 + Len(n) + Len(a)] = NL
    <2>1. Len(t2) + 1 = 7 + Len(n) + Len(a)
      BY <1>1, <1>7
    <2> QED
      BY <1>6, <2>1
  <1> QED
    BY <1>3, <1>6, <1>7, <1>9, <1>10, <1>11 DEF Hex0Text, n, a

\* A program, its argument and its input.
RunText(t, n, a, d) ==
    /\ t \in Seq(Bytes) /\ Len(t) = 2 + Len(n) + Len(a) + Len(d)
    /\ \A i \in 1 .. Len(n) : t[i] = n[i]
    /\ t[1 + Len(n)] = SP
    /\ \A i \in 1 .. Len(a) : t[1 + Len(n) + i] = a[i]
    /\ t[2 + Len(n) + Len(a)] = NL
    /\ \A i \in 1 .. Len(d) : t[2 + Len(n) + Len(a) + i] = d[i]

LEMMA RunTextIs ==
    ASSUME NEW c \in CommandRecords, c.op = "run"
    PROVE  RunText(Render(c), c.name, c.arg, c.data)
  <1> DEFINE n == c.name
             a == c.arg
             d == c.data
             t1 == n \o Space \o a
             t  == t1 \o NewLine \o d
  <1>1. /\ n \in Seq(Bytes) /\ a \in Seq(Bytes) /\ d \in Seq(Bytes)
        /\ Len(n) \in Nat /\ Len(a) \in Nat /\ Len(d) \in Nat
    BY DEF CommandRecords
  <1>3. Render(c) = t
    BY DEF Render
  <1> HIDE DEF n, a, d
  <1>4. /\ t1 \in Seq(Bytes) /\ Len(t1) = Len(n) + 1 + Len(a)
        /\ \A i \in 1 .. Len(n) : t1[i] = n[i]
        /\ t1[Len(n) + 1] = SP
        /\ \A i \in 1 .. Len(a) : t1[Len(n) + 1 + i] = a[i]
    <2>1. Parted(n \o <<SP>> \o a, n, SP, a)
      BY <1>1, JoinedBy, Letters
    <2>2. t1 = n \o <<SP>> \o a
      BY Letters
    <2> HIDE DEF t1
    <2>3. Parted(t1, n, SP, a)
      BY <2>1, <2>2
    <2> QED
      BY <2>3 DEF Parted
  <1> HIDE DEF t1
  <1>5. /\ t \in Seq(Bytes) /\ Len(t) = Len(t1) + 1 + Len(d)
        /\ \A i \in 1 .. Len(t1) : t[i] = t1[i]
        /\ t[Len(t1) + 1] = NL
        /\ \A i \in 1 .. Len(d) : t[Len(t1) + 1 + i] = d[i]
    <2>1. Parted(t1 \o <<NL>> \o d, t1, NL, d)
      BY <1>1, <1>4, JoinedBy, Letters
    <2>2. t = t1 \o <<NL>> \o d
      BY Letters
    <2> HIDE DEF t
    <2>3. Parted(t, t1, NL, d)
      BY <2>1, <2>2
    <2> QED
      BY <2>3 DEF Parted
  <1> HIDE DEF t
  <1>6. /\ Len(t) = 2 + Len(n) + Len(a) + Len(d)
        /\ Len(n) + 1 = 1 + Len(n) /\ Len(t1) + 1 = 2 + Len(n) + Len(a)
        /\ \A i \in 1 .. Len(n) : i \in 1 .. Len(t1)
        /\ Len(n) + 1 \in 1 .. Len(t1)
        /\ \A i \in 1 .. Len(a) : Len(n) + 1 + i \in 1 .. Len(t1) /\ Len(n) + 1 + i = 1 + Len(n) + i
        /\ \A i \in 1 .. Len(d) : Len(t1) + 1 + i = 2 + Len(n) + Len(a) + i
    BY <1>1, <1>4, <1>5
  <1>7. \A i \in 1 .. Len(n) : t[i] = n[i]
    BY <1>4, <1>5, <1>6
  <1>8. t[1 + Len(n)] = SP /\ t[2 + Len(n) + Len(a)] = NL
    BY <1>4, <1>5, <1>6
  <1>9. \A i \in 1 .. Len(a) : t[1 + Len(n) + i] = a[i]
    BY <1>4, <1>5, <1>6
  <1>10. \A i \in 1 .. Len(d) : t[2 + Len(n) + Len(a) + i] = d[i]
    BY <1>5, <1>6
  <1> QED
    BY <1>3, <1>5, <1>6, <1>7, <1>8, <1>9, <1>10 DEF RunText, n, a, d

\* A comment up to the end of its line.
CommentText(t, d) ==
    /\ t \in Seq(Bytes) /\ Len(t) = 2 + Len(d)
    /\ t[1] = Hash /\ t[2 + Len(d)] = NL
    /\ \A i \in 1 .. Len(d) : t[1 + i] = d[i]

LEMMA CommentTextIs ==
    ASSUME NEW c \in CommandRecords, c.op = "comment"
    PROVE  CommentText(Render(c), c.data)
  <1> DEFINE d == c.data
             t1 == <<35>> \o d
             t  == t1 \o NewLine
  <1>1. d \in Seq(Bytes) /\ Len(d) \in Nat
    BY DEF CommandRecords
  <1>2. Render(c) = t
    BY DEF Render
  <1>3. <<35>> \in Seq(Bytes) /\ Len(<<35>>) = 1 /\ <<35>>[1] = Hash /\ NewLine \in Seq(Bytes) /\ NewLine[1] = NL
        /\ Len(NewLine) = 1
    BY DEF Bytes, Hash, NL, NewLine
  <1> HIDE DEF d
  <1>4. /\ t1 \in Seq(Bytes) /\ Len(t1) = 1 + Len(d) /\ t1[1] = Hash
        /\ \A i \in 1 .. Len(d) : t1[1 + i] = d[i]
    <2>1. 1 \in 1 .. Len(<<35>>)
      BY <1>3
    <2> QED
      BY <1>1, <1>3, <2>1, Joined
  <1> HIDE DEF t1
  <1>5. /\ t \in Seq(Bytes) /\ Len(t) = Len(t1) + 1
        /\ \A i \in 1 .. Len(t1) : t[i] = t1[i]
        /\ t[Len(t1) + 1] = NL
    BY <1>4, LineEnded
  <1> HIDE DEF t
  <1>6. /\ Len(t) = 2 + Len(d) /\ Len(t1) + 1 = 2 + Len(d) /\ 1 \in 1 .. Len(t1)
        /\ \A i \in 1 .. Len(d) : 1 + i \in 1 .. Len(t1)
    BY <1>1, <1>4, <1>5
  <1> QED
    BY <1>2, <1>4, <1>5, <1>6 DEF CommentText, d

LEMMA ShortTextsAre ==
    ASSUME NEW c \in CommandRecords
    PROVE  /\ c.op = "f" => Render(c) \in Seq(Bytes) /\ Len(Render(c)) = 2 /\ Render(c)[1] = LetterF
           /\ c.op = "blank" => Render(c) \in Seq(Bytes) /\ Len(Render(c)) = 1 /\ Render(c)[1] = NL
  <1>1. CASE c.op = "f"
    <2>1. Render(c) = FWord \o NewLine
      BY <1>1 DEF Render
    <2>2. FWord \in Seq(Bytes) /\ Len(FWord) = 1 /\ FWord[1] = LetterF /\ 1 \in 1 .. Len(FWord)
      BY Letters
    <2>3. /\ FWord \o NewLine \in Seq(Bytes) /\ Len(FWord \o NewLine) = Len(FWord) + 1
          /\ \A i \in 1 .. Len(FWord) : (FWord \o NewLine)[i] = FWord[i]
      BY <2>2, LineEnded
    <2> QED
      BY <1>1, <2>1, <2>2, <2>3
  <1>2. CASE c.op = "blank"
    <2>1. Render(c) = <<NL>> /\ NL \in Bytes
      BY <1>2, Letters DEF Render
    <2> QED
      BY <1>2, <2>1
  <1> QED
    BY <1>1, <1>2

LEMMA Positive ==
    /\ \A i, j, k \in Nat : 6 + i + j + k \in Nat \ {0} /\ 2 + i + j + k \in Nat \ {0}
    /\ \A i, j \in Nat : 7 + i + j \in Nat \ {0}
  OBVIOUS

LEMMA TextTyped ==
    ASSUME NEW c \in CommandRecords
    PROVE  Render(c) \in Seq(Bytes) /\ Len(Render(c)) \in Nat \ {0}
  <1>1. c.op \in {"src", "hex0", "f", "run", "comment", "blank"} /\ c.name \in Seq(Bytes) /\ c.arg \in Seq(Bytes) /\ c.data \in Seq(Bytes)
    BY DEF CommandRecords
  <1>2. Len(c.name) \in Nat /\ Len(c.arg) \in Nat /\ Len(c.data) \in Nat
    BY <1>1
  <1>3. CASE c.op = "src"
    <2>1. Len(Decimal(Len(c.data))) \in Nat
      BY <1>2, DecimalValue
    <2>2. SrcText(Render(c), Decimal(Len(c.data)), c.name, c.data)
      BY <1>3, SrcTextIs
    <2>3. Render(c) \in Seq(Bytes) /\ Len(Render(c)) = 6 + Len(Decimal(Len(c.data))) + Len(c.name) + Len(c.data)
      BY <2>2, Zenon DEF SrcText
    <2>4. Len(Render(c)) \in Nat \ {0}
      BY <1>2, <2>1, <2>3, Positive
    <2> QED
      BY <2>3, <2>4
  <1>4. CASE c.op = "hex0"
    <2>1. Hex0Text(Render(c), c.name, c.arg)
      BY <1>4, Hex0TextIs
    <2>3. Render(c) \in Seq(Bytes) /\ Len(Render(c)) = 7 + Len(c.name) + Len(c.arg)
      BY <2>1, Zenon DEF Hex0Text
    <2>4. Len(Render(c)) \in Nat \ {0}
      BY <1>2, <2>3, Positive
    <2> QED
      BY <2>3, <2>4
  <1>5. CASE c.op = "run"
    <2>1. RunText(Render(c), c.name, c.arg, c.data)
      BY <1>5, RunTextIs
    <2>3. Render(c) \in Seq(Bytes) /\ Len(Render(c)) = 2 + Len(c.name) + Len(c.arg) + Len(c.data)
      BY <2>1, Zenon DEF RunText
    <2>4. Len(Render(c)) \in Nat \ {0}
      BY <1>2, <2>3, Positive
    <2> QED
      BY <2>3, <2>4
  <1>6. CASE c.op = "comment"
    <2>1. CommentText(Render(c), c.data)
      BY <1>6, CommentTextIs
    <2> QED
      BY <1>2, <2>1 DEF CommentText
  <1>7. CASE c.op \in {"f", "blank"}
    BY <1>7, ShortTextsAre
  <1> QED
    BY <1>1, <1>3, <1>4, <1>5, <1>6, <1>7

-----------------------------------------------------------------------------
(* Where the commands are in a script *)

Texts(cs) == [i \in 1 .. Len(cs) |-> Render(cs[i])]

EndsAre(cs) ==
    /\ RenderAll(cs) \in Seq(Bytes)
    /\ \A k \in 0 .. Len(cs) : End(cs, k) \in Nat
    /\ End(cs, 0) = 0 /\ End(cs, Len(cs)) = Len(RenderAll(cs))
    /\ \A k \in 1 .. Len(cs) :
         /\ End(cs, k) = End(cs, k - 1) + Len(Render(cs[k])) /\ End(cs, k) <= Len(RenderAll(cs))
         /\ \A i \in 1 .. Len(Render(cs[k])) : RenderAll(cs)[End(cs, k - 1) + i] = Render(cs[k])[i]

LEMMA TextsTyped ==
    ASSUME NEW cs \in Seq(CommandRecords)
    PROVE  /\ Texts(cs) \in Seq(Seq(Bytes)) /\ Len(Texts(cs)) = Len(cs)
           /\ RenderAll(cs) = FlattenSeq(Texts(cs))
           /\ \A i \in 1 .. Len(cs) : Texts(cs)[i] = Render(cs[i])
  <1> DEFINE n == Len(cs)
             seqs == [i \in 1 .. n |-> Render(cs[i])]
  <1>1. n \in Nat /\ \A i \in 1 .. n : cs[i] \in CommandRecords
    OBVIOUS
  <1>2. \A i \in 1 .. n : Render(cs[i]) \in Seq(Bytes)
    BY <1>1, TextTyped
  <1>3. RenderAll(cs) = FlattenSeq(seqs) /\ Texts(cs) = seqs
    BY DEF RenderAll, Texts
  <1> HIDE DEF n
  <1>4. seqs \in Seq(Seq(Bytes)) /\ Len(seqs) = n /\ \A i \in 1 .. n : seqs[i] = Render(cs[i])
    BY <1>1, <1>2
  <1> QED
    BY <1>3, <1>4 DEF n

LEMMA EndsPlaced ==
    ASSUME NEW cs \in Seq(CommandRecords)
    PROVE  EndsAre(cs)
  <1> DEFINE n == Len(cs)
             whole == RenderAll(cs)
  <1>1. /\ n \in Nat /\ Texts(cs) \in Seq(Seq(Bytes)) /\ Len(Texts(cs)) = n
        /\ whole = FlattenSeq(Texts(cs)) /\ \A i \in 1 .. n : Texts(cs)[i] = Render(cs[i])
    BY TextsTyped
  <1>2. PICK ends \in [0 .. Len(Texts(cs)) -> Nat] : LaidOut(Texts(cs), FlattenSeq(Texts(cs)), ends)
    BY <1>1, FlattenPlaces
  <1>3. FlattenSeq(Texts(cs)) \in Seq(Bytes)
    BY <1>1, FlattenPlaces
  <1>4. /\ ends \in [0 .. n -> Nat]
        /\ ends[0] = 0 /\ ends[n] = Len(whole) /\ whole \in Seq(Bytes)
        /\ \A i \in 1 .. n : /\ ends[i] = ends[i - 1] + Len(Render(cs[i])) /\ ends[i] <= Len(whole)
                              /\ \A k \in 1 .. Len(Render(cs[i])) : whole[ends[i - 1] + k] = Render(cs[i])[k]
    <2> DEFINE seqs == Texts(cs)
    <2>1. LaidOut(seqs, whole, ends) /\ Len(seqs) = n /\ whole \in Seq(Bytes)
      BY <1>1, <1>2, <1>3
    <2>2. ends \in [0 .. n -> Nat]
      BY <1>2, <2>1
    <2>3. \A i \in 1 .. n : seqs[i] = Render(cs[i])
      BY <1>1
    <2> HIDE DEF seqs, whole, n
    <2>4. ends[0] = 0 /\ ends[n] = Len(whole)
      BY <2>1 DEF LaidOut
    <2>5. ASSUME NEW i \in 1 .. n
          PROVE  /\ ends[i] = ends[i - 1] + Len(Render(cs[i])) /\ ends[i] <= Len(whole)
                 /\ \A k \in 1 .. Len(Render(cs[i])) : whole[ends[i - 1] + k] = Render(cs[i])[k]
      <3>1. seqs[i] = Render(cs[i])
        BY <2>3
      <3>2. /\ ends[i] = ends[i - 1] + Len(seqs[i]) /\ ends[i] <= Len(whole)
            /\ \A k \in 1 .. Len(seqs[i]) : whole[ends[i - 1] + k] = seqs[i][k]
        BY <2>1, Zenon DEF LaidOut
      <3> QED
        BY <3>1, <3>2
    <2> QED
      BY <2>1, <2>2, <2>4, <2>5
  <1> HIDE DEF whole
  <1>5. ASSUME NEW k \in 0 .. n PROVE End(cs, k) = ends[k]
    <2> DEFINE some == SubSeq(cs, 1, k)
    <2>1. some \in Seq(CommandRecords) /\ Len(some) = k /\ \A i \in 1 .. k : some[i] = cs[i]
      <3>1. k = 0 \/ (1 \in 1 .. n /\ k \in 1 .. n)
        BY <1>1
      <3> QED
        BY <1>1, <3>1
    <2>2. End(cs, k) = Len(RenderAll(some))
      BY DEF End
    <2> HIDE DEF some, n
    <2>3. /\ Texts(some) \in Seq(Seq(Bytes)) /\ Len(Texts(some)) = k
          /\ RenderAll(some) = FlattenSeq(Texts(some)) /\ \A i \in 1 .. k : Texts(some)[i] = Render(some[i])
      BY <2>1, TextsTyped
    <2>4. PICK short \in [0 .. Len(Texts(some)) -> Nat] : LaidOut(Texts(some), FlattenSeq(Texts(some)), short)
      BY <2>3, FlattenPlaces
    <2>5. /\ short \in [0 .. k -> Nat] /\ short[0] = 0 /\ short[k] = Len(RenderAll(some))
          /\ \A i \in 1 .. k : short[i] = short[i - 1] + Len(Texts(some)[i])
      BY <2>3, <2>4 DEF LaidOut
    <2>6. \A i \in 1 .. k : short[i] = short[i - 1] + Len(Render(cs[i]))
      BY <2>1, <2>3, <2>5
    <2> DEFINE Good == {i \in Nat : i <= k => short[i] = ends[i]}
    <2>7. 0 \in Good
      BY <1>4, <2>5
    <2>8. ASSUME NEW i \in Nat, i \in Good PROVE i + 1 \in Good
      <3> SUFFICES ASSUME i + 1 <= k PROVE short[i + 1] = ends[i + 1]
        OBVIOUS
      <3>1. i + 1 \in 1 .. k /\ i + 1 \in 1 .. n /\ (i + 1) - 1 = i /\ short[i] = ends[i]
        BY <1>1, <2>8
      <3> QED
        BY <1>4, <2>6, <3>1
    <2> HIDE DEF Good
    <2>9. k \in Good
      BY <2>7, <2>8, Upwards
    <2>10. short[k] = ends[k]
      BY <2>9 DEF Good
    <2> QED
      BY <2>2, <2>5, <2>10
  <1> HIDE DEF n
  <1>6. 0 \in 0 .. n /\ n \in 0 .. n /\ \A k \in 1 .. n : k \in 0 .. n /\ k - 1 \in 0 .. n
    BY <1>1
  <1>7. \A k \in 0 .. n : End(cs, k) \in Nat
    BY <1>4, <1>5
  <1>8. End(cs, 0) = 0 /\ End(cs, n) = Len(whole)
    BY <1>4, <1>5, <1>6
  <1>9. ASSUME NEW k \in 1 .. n
        PROVE  /\ End(cs, k) = End(cs, k - 1) + Len(Render(cs[k])) /\ End(cs, k) <= Len(whole)
               /\ \A i \in 1 .. Len(Render(cs[k])) : whole[End(cs, k - 1) + i] = Render(cs[k])[i]
    <2>1. End(cs, k) = ends[k] /\ End(cs, k - 1) = ends[k - 1]
      BY <1>5, <1>6
    <2> QED
      BY <1>4, <2>1
  <1> QED
    BY <1>4, <1>7, <1>8, <1>9 DEF EndsAre, n, whole

\* What is behind a shell that is in or at the end of a command.
LEMMA BehindIs ==
    ASSUME NEW cs \in Seq(CommandRecords), NEW k \in 0 .. Len(cs), NEW ahead \in BOOLEAN, NEW p \in Nat,
           IF ahead THEN k < Len(cs) /\ End(cs, k) < p /\ p <= End(cs, k + 1)
           ELSE End(cs, k) <= p /\ (k < Len(cs) => p < End(cs, k + 1))
    PROVE  Behind(cs, ahead, p) = k
  <1> DEFINE n == Len(cs)
             e(i) == End(cs, i)
  <1>1. n \in Nat /\ EndsAre(cs) /\ k \in 0 .. n
    BY EndsPlaced
  <1>2. /\ \A i \in 0 .. n : e(i) \in Nat
        /\ \A i \in 1 .. n : e(i) = e(i - 1) + Len(Render(cs[i])) /\ Len(Render(cs[i])) \in Nat \ {0}
    <2>1. \A i \in 1 .. n : Len(Render(cs[i])) \in Nat \ {0}
      <3>1. \A i \in 1 .. n : cs[i] \in CommandRecords
        OBVIOUS
      <3> QED
        BY <3>1, TextTyped
    <2> QED
      BY <1>1, <2>1 DEF EndsAre
  <1> HIDE DEF n, e
  <1> DEFINE Good == {j \in Nat : j <= n => \A i \in 0 .. j : e(i) <= e(j)}
  <1>3. 0 \in Good
    <2>1. \A i \in 0 .. 0 : i = 0
      OBVIOUS
    <2>2. 0 \in 0 .. n
      BY <1>1
    <2>3. e(0) <= e(0)
      BY <1>2, <2>2
    <2> QED
      BY <2>1, <2>3
  <1>4. ASSUME NEW j \in Nat, j \in Good PROVE j + 1 \in Good
    <2> SUFFICES ASSUME j + 1 <= n, NEW i \in 0 .. j + 1 PROVE e(i) <= e(j + 1)
      OBVIOUS
    <2>1. j + 1 \in 1 .. n /\ (j + 1) - 1 = j /\ j \in 0 .. n /\ i \in 0 .. n /\ j + 1 \in 0 .. n
      BY <1>1
    <2>2. e(j + 1) = e(j) + Len(Render(cs[j + 1])) /\ Len(Render(cs[j + 1])) \in Nat \ {0}
      BY <1>2, <2>1
    <2>3. e(i) \in Nat /\ e(j) \in Nat /\ e(j + 1) \in Nat
      BY <1>2, <2>1
    <2>4. i # j + 1 => e(i) <= e(j)
      BY <1>4, <2>1
    <2> QED
      BY <2>2, <2>3, <2>4
  <1> HIDE DEF Good
  <1>5. ASSUME NEW j \in 0 .. n, NEW i \in 0 .. j PROVE e(i) <= e(j)
    <2>1. \A m \in Nat : m \in Good
      BY <1>3, <1>4, Upwards
    <2>2. j \in Nat /\ j <= n
      BY <1>1
    <2> QED
      BY <2>1, <2>2 DEF Good
  <1>6. ASSUME NEW i \in 1 .. n PROVE (IF ahead THEN e(i) < p ELSE e(i) <= p) <=> i <= k
    <2>1. i \in 0 .. n /\ k \in 0 .. n
      BY <1>1
    <2>2. e(i) \in Nat /\ e(k) \in Nat
      BY <1>2, <2>1
    <2>3. CASE i <= k
      <3>1. e(i) <= e(k)
        BY <1>5, <2>1, <2>3
      <3> QED
        BY <2>2, <2>3, <3>1 DEF e, n
    <2>4. CASE i > k
      <3>1. k + 1 \in 0 .. i /\ k < n /\ k + 1 \in 0 .. n
        BY <1>1, <2>1, <2>4
      <3>2. e(k + 1) <= e(i) /\ e(k + 1) \in Nat
        BY <1>2, <1>5, <2>1, <3>1
      <3> QED
        BY <2>1, <2>2, <2>4, <3>1, <3>2 DEF e, n
    <2> QED
      BY <1>1, <2>1, <2>3, <2>4
  <1>7. {i \in 1 .. n : IF ahead THEN e(i) < p ELSE e(i) <= p} = 1 .. k
    BY <1>1, <1>6
  <1>8. Cardinality(1 .. k) = k
    <2>1. 0 \in Int /\ 1 \in Int /\ k \in Nat /\ k \in Int
      BY <1>1
    <2> QED
      BY <2>1, FS_Interval
  <1> QED
    BY <1>7, <1>8 DEF Behind, e, n

-----------------------------------------------------------------------------
(* Names and files *)

LEMMA BeginsNone == \A t \in Seq(Bytes) : Begins(<<>>, t) /\ Len(<<>>) = 0
  BY DEF Begins

LEMMA BeginsMore ==
    ASSUME NEW s \in Seq(Bytes), NEW t \in Seq(Bytes), Begins(s, t), Len(s) < Len(t)
    PROVE  /\ t[Len(s) + 1] \in Bytes
           /\ Append(s, t[Len(s) + 1]) \in Seq(Bytes) /\ Len(Append(s, t[Len(s) + 1])) = Len(s) + 1
           /\ Begins(Append(s, t[Len(s) + 1]), t)
  <1> DEFINE b == t[Len(s) + 1]
             more == Append(s, b)
  <1>1. Len(s) \in Nat /\ Len(t) \in Nat /\ Len(s) + 1 \in 1 .. Len(t)
    OBVIOUS
  <1>2. b \in Bytes /\ b = t[Len(s) + 1]
    BY <1>1
  <1> HIDE DEF b
  <1>3. /\ more \in Seq(Bytes) /\ Len(more) = Len(s) + 1 /\ more[Len(s) + 1] = b
        /\ \A i \in 1 .. Len(s) : more[i] = s[i]
    BY <1>2
  <1>4. \A i \in 1 .. Len(s) : s[i] = t[i]
    BY DEF Begins
  <1> HIDE DEF more
  <1>5. \A i \in 1 .. Len(more) : more[i] = t[i]
    <2> SUFFICES ASSUME NEW i \in 1 .. Len(more) PROVE more[i] = t[i]
      OBVIOUS
    <2>1. i \in 1 .. Len(s) \/ i = Len(s) + 1
      BY <1>1, <1>3
    <2> QED
      BY <1>2, <1>3, <1>4, <2>1
  <1>6. Begins(more, t)
    BY <1>1, <1>3, <1>5 DEF Begins
  <1> QED
    BY <1>2, <1>3, <1>6 DEF more, b

LEMMA BeginsAll ==
    ASSUME NEW s \in Seq(Bytes), NEW t \in Seq(Bytes), Begins(s, t), Len(s) >= Len(t)
    PROVE  s = t
  <1>1. Len(s) = Len(t) /\ \A i \in 1 .. Len(s) : s[i] = t[i]
    <2>1. Len(s) \in Nat /\ Len(t) \in Nat
      OBVIOUS
    <2> QED
      BY <2>1 DEF Begins
  <1> QED
    BY <1>1, SeqEqual

\* There is a newest file of each name.
LEMMA NewestTyped ==
    ASSUME NEW fs \in Seq(FileRecords), NEW n, Exists(fs, n)
    PROVE  Newest(fs, n) \in Seq(Bytes)
  <1> DEFINE m == Len(fs)
             Final(i) == fs[i].name = n /\ \A j \in i + 1 .. m : fs[j].name # n
             Good == {j \in Nat : (\E i \in 1 .. m : fs[i].name = n /\ m <= i + j) => \E i \in 1 .. m : Final(i)}
  <1>1. m \in Nat
    OBVIOUS
  <1>2. 0 \in Good
    <2> SUFFICES ASSUME NEW i \in 1 .. m, fs[i].name = n, m <= i PROVE Final(i)
      OBVIOUS
    <2> QED
      BY <1>1
  <1>3. ASSUME NEW j \in Nat, j \in Good PROVE j + 1 \in Good
    <2> SUFFICES ASSUME NEW i \in 1 .. m, fs[i].name = n, m <= i + (j + 1) PROVE \E l \in 1 .. m : Final(l)
      OBVIOUS
    <2>1. CASE Final(i)
      BY <2>1
    <2>2. CASE ~ Final(i)
      <3>1. PICK l \in i + 1 .. m : fs[l].name = n
        BY <2>2
      <3>2. l \in 1 .. m /\ m <= l + j
        BY <1>1
      <3> QED
        BY <1>3, <3>1, <3>2
    <2> QED
      BY <2>1, <2>2
  <1> HIDE DEF Good
  <1>4. m \in Good
    BY <1>1, <1>2, <1>3, Upwards
  <1>5. PICK i \in 1 .. m : fs[i].name = n
    BY DEF Exists
  <1>6. m <= i + m
    BY <1>1
  <1>7. \E l \in 1 .. m : Final(l)
    BY <1>4, <1>5, <1>6 DEF Good
  <1> DEFINE it == CHOOSE l \in 1 .. m : Final(l)
  <1>8. it \in 1 .. m
    <2> HIDE DEF Final
    <2> QED
      BY <1>7
  <1>9. Newest(fs, n) = fs[it].data
    BY DEF Newest
  <1> HIDE DEF it
  <1>10. fs[it] \in FileRecords
    BY <1>8
  <1> QED
    BY <1>9, <1>10 DEF FileRecords

LEMMA ExistsIs ==
    ASSUME NEW fs \in Seq(FileRecords), NEW n
    PROVE  Exists(fs, n) <=> n \in NamesOf(fs)
  BY DEF Exists, NamesOf

\* One file more.
Extends(more, fs, n, d) ==
    /\ more \in Seq(FileRecords)
    /\ Len(more) = Len(fs) + 1 /\ more[Len(fs) + 1] = [name |-> n, data |-> d] /\ more # <<>>
    /\ SubSeq(more, 1, Len(more) - 1) = fs
    /\ NamesOf(more) = NamesOf(fs) \cup {n}

LEMMA OneMoreFile ==
    ASSUME NEW fs \in Seq(FileRecords), NEW n \in Seq(Bytes), NEW d \in Seq(Bytes)
    PROVE  Extends(Append(fs, [name |-> n, data |-> d]), fs, n, d)
  <1> DEFINE f == [name |-> n, data |-> d]
             more == Append(fs, f)
  <1>1. f \in FileRecords /\ f.name = n
    BY DEF FileRecords
  <1> HIDE DEF f
  <1>2. /\ more \in Seq(FileRecords) /\ Len(more) = Len(fs) + 1 /\ more[Len(fs) + 1] = f
        /\ \A i \in 1 .. Len(fs) : more[i] = fs[i]
        /\ Len(fs) \in Nat
    BY <1>1
  <1> HIDE DEF more
  <1>3. more # <<>>
    BY <1>2
  <1>4. SubSeq(more, 1, Len(more) - 1) = fs
    <2> DEFINE l == Len(fs)
               short == SubSeq(more, 1, l)
    <2>1. Len(more) - 1 = l /\ l \in Nat /\ l <= Len(more)
      BY <1>2
    <2>2. short \in Seq(FileRecords) /\ Len(short) = l /\ \A i \in 1 .. l : short[i] = more[i]
      <3>1. l = 0 \/ (1 \in 1 .. Len(more) /\ l \in 1 .. Len(more))
        BY <1>2, <2>1
      <3> HIDE DEF l
      <3> QED
        BY <1>2, <2>1, <3>1
    <2>3. Len(short) = Len(fs) /\ \A i \in 1 .. Len(short) : short[i] = fs[i]
      BY <1>2, <2>2
    <2> HIDE DEF short
    <2>4. short = fs
      BY <2>2, <2>3, SeqEqual
    <2> QED
      BY <2>1, <2>4 DEF short
  <1>5. NamesOf(more) = NamesOf(fs) \cup {n}
    <2>1. ASSUME NEW i \in 1 .. Len(more) PROVE more[i].name \in NamesOf(fs) \cup {n}
      <3>1. i \in 1 .. Len(fs) \/ i = Len(fs) + 1
        BY <1>2
      <3> QED
        BY <1>1, <1>2, <3>1 DEF NamesOf
    <2>2. ASSUME NEW i \in 1 .. Len(fs) PROVE fs[i].name \in NamesOf(more)
      <3>1. i \in 1 .. Len(more) /\ more[i] = fs[i]
        BY <1>2
      <3> QED
        BY <3>1 DEF NamesOf
    <2>3. n \in NamesOf(more)
      <3>1. Len(fs) + 1 \in 1 .. Len(more) /\ more[Len(fs) + 1].name = n
        BY <1>1, <1>2
      <3> QED
        BY <3>1 DEF NamesOf
    <2> QED
      BY <2>1, <2>2, <2>3 DEF NamesOf
  <1> QED
    BY <1>2, <1>3, <1>4, <1>5 DEF more, f, Extends

-----------------------------------------------------------------------------
(* One step within a command *)

\* The shell is in a command of a script that is meant; names are the files'.
Here(c, p) ==
    /\ Types
    /\ c \in CommandRecords /\ Clear(c, NamesOf(Stored))
    /\ Under(c, p)
    /\ p < Len(Render(c)) => Byte = Render(c)[p + 1]

\* The command goes on, or is at its end and takes effect.
GoesOn(c, q) == Under(c, q)' /\ Busy' /\ UNCHANGED <<Stored, enable_flush, disk>>
Ends(c, q) == q = Len(Render(c)) /\ mode' = "loop" /\ Promise!Effect(c) /\ UNCHANGED disk

LEMMA RestIs ==
    /\ DOMAIN Rest = {"src", "hex0", "f"}
    /\ Rest["src"] = 3 /\ Rest["hex0"] = 4 /\ Rest["f"] = 1
  BY DEF Rest

LEMMA FieldsTyped ==
    ASSUME NEW c \in CommandRecords
    PROVE  /\ c.op \in {"src", "hex0", "f", "run", "comment", "blank"}
           /\ c.name \in Seq(Bytes) /\ c.arg \in Seq(Bytes) /\ c.data \in Seq(Bytes)
           /\ Len(c.name) \in Nat /\ Len(c.arg) \in Nat /\ Len(c.data) \in Nat
           /\ Decimal(Len(c.data)) \in Seq(Bytes) /\ Len(Decimal(Len(c.data))) \in Nat
           /\ Len(Render(c)) \in Nat
  <1>1. /\ c.op \in {"src", "hex0", "f", "run", "comment", "blank"}
        /\ c.name \in Seq(Bytes) /\ c.arg \in Seq(Bytes) /\ c.data \in Seq(Bytes)
    BY DEF CommandRecords
  <1>2. Len(c.name) \in Nat /\ Len(c.arg) \in Nat /\ Len(c.data) \in Nat
    BY <1>1
  <1>3. Decimal(Len(c.data)) \in Seq(Bytes)
    BY <1>2, DecimalValue, Zenon
  <1>4. Len(Decimal(Len(c.data))) \in Nat
    BY <1>3
  <1> QED
    BY <1>1, <1>2, <1>3, <1>4, TextTyped

LEMMA ReadOne ==
    ASSUME Types, Read
    PROVE  input' \in Inputs /\ pos' \in 0 .. Limit
  BY ShellAssumption DEF Types, Read

\* The mode says which part of which command it is.
LEMMA Where ==
    ASSUME NEW c, NEW p, Under(c, p)
    PROVE  /\ mode \in DOMAIN Rest => InWord(c, p)
           /\ mode = "comment" => InComment(c, p)
           /\ mode \in {"count", "name", "data"} => InSrc(c, p)
           /\ mode \in {"in", "out"} => InHex0(c, p)
           /\ mode \in {"command", "arg", "program"} => InRun(c, p)
           /\ mode \notin {"loop", "halted"}
           /\ mode \in {"src", "hex0", "f", "comment", "count", "name", "data", "in", "out", "command", "arg", "program"}
  BY RestIs DEF Under, InWord, InComment, InSrc, InHex0, InRun

LEMMA CommentStep ==
    ASSUME NEW c, NEW p, Here(c, p), SkipComment
    PROVE  Types' /\ (GoesOn(c, p + 1) \/ Ends(c, p + 1))
  <1>1. /\ mode = "comment" /\ Read /\ mode' = (IF LineEnds THEN "loop" ELSE mode)
        /\ UNCHANGED <<left, count, name, out, data, files, enable_flush, disk>>
    BY DEF SkipComment, parsed, stored
  <1>2. c.op = "comment" /\ p \in 1 .. Len(c.data) + 1 /\ c \in CommandRecords
    BY <1>1, Where DEF Here, InComment
  <1>3. CommentText(Render(c), c.data) /\ Len(c.data) \in Nat /\ Len(Render(c)) = 2 + Len(c.data)
    BY <1>2, CommentTextIs, FieldsTyped DEF CommentText
  <1>4. Byte = Render(c)[p + 1] /\ p + 1 \in 1 .. Len(Render(c)) /\ p \in Nat
    BY <1>2, <1>3 DEF Here
  <1>5. Types'
    BY <1>1, ReadOne DEF Here, Types
  <1>6. CASE p = Len(c.data) + 1
    <2>1. Byte = NL /\ p + 1 = Len(Render(c))
      BY <1>3, <1>4, <1>6 DEF CommentText
    <2>2. mode' = "loop" /\ Stored' = Stored
      BY <1>1, <2>1 DEF LineEnds, Stored
    <2>3. Promise!Effect(c)
      BY <1>1, <1>2, <2>2 DEF Promise!Effect
    <2> QED
      BY <1>1, <1>5, <2>1, <2>2, <2>3 DEF Ends
  <1>7. CASE p \in 1 .. Len(c.data)
    <2>1. Byte = c.data[p]
      <3>1. Render(c)[1 + p] = c.data[p]
        BY <1>3, <1>7 DEF CommentText
      <3> QED
        BY <1>4, <3>1
    <2>2. Byte # NL
      BY <1>2, <1>7, <2>1 DEF Here, Clear, Free
    <2>3. mode' = "comment" /\ Stored' = Stored
      BY <1>1, <2>2 DEF LineEnds, Stored
    <2>4. Under(c, p + 1)'
      BY <1>2, <1>3, <1>4, <1>7, <2>3 DEF Under, InComment
    <2> QED
      BY <1>1, <1>5, <2>3, <2>4 DEF GoesOn, Busy
  <1> QED
    BY <1>2, <1>3, <1>5, <1>6, <1>7

LEMMA WordStep ==
    ASSUME NEW c, NEW p, Here(c, p), SkipWord
    PROVE  Types' /\ (GoesOn(c, p + 1) \/ Ends(c, p + 1))
  <1>1. /\ mode \in DOMAIN Rest /\ Read /\ left' = left - 1 /\ count' = 0
        /\ mode' = (IF left > 1 THEN mode ELSE [src |-> "count", hex0 |-> "in", f |-> "loop"][mode])
        /\ enable_flush' = (enable_flush \/ mode = "f")
        /\ UNCHANGED <<name, out, data, files, disk>>
    BY DEF SkipWord
  <1>2. /\ InWord(c, p) /\ c \in CommandRecords /\ p \in 1 .. Len(Render(c)) /\ enable_flush \in BOOLEAN
        /\ left \in Nat /\ p < Len(Render(c)) => Byte = Render(c)[p + 1]
    BY <1>1, Where DEF Here, Under, Types
  <1>3. c.op \in {"src", "hex0", "f"} /\ mode = c.op /\ left \in 1 .. Rest[c.op] /\ p = Rest[c.op] + 1 - left
    BY <1>2, RestIs DEF InWord
  <1>4. Len(Render(c)) >= Rest[c.op] + 1 /\ Len(Render(c)) \in Nat
    <2> DEFINE x == Len(Render(c))
               i == Len(c.name)
               j == Len(c.data)
               k == Len(Decimal(Len(c.data)))
               l == Len(c.arg)
    <2>0. i \in Nat /\ j \in Nat /\ k \in Nat /\ l \in Nat
      BY <1>2, FieldsTyped
    <2>1. CASE c.op = "src"
      <3>1. SrcText(Render(c), Decimal(Len(c.data)), c.name, c.data)
        BY <1>2, <2>1, SrcTextIs
      <3>2. x = 6 + k + i + j
        BY <3>1 DEF SrcText
      <3> HIDE DEF x, i, j, k, l
      <3>3. x >= 4 /\ x \in Nat
        BY <2>0, <3>2
      <3> QED
        BY <2>1, <3>3, RestIs DEF x
    <2>2. CASE c.op = "hex0"
      <3>1. Hex0Text(Render(c), c.name, c.arg)
        BY <1>2, <2>2, Hex0TextIs
      <3>2. x = 7 + i + l
        BY <3>1 DEF Hex0Text
      <3> HIDE DEF x, i, j, k, l
      <3>3. x >= 5 /\ x \in Nat
        BY <2>0, <3>2
      <3> QED
        BY <2>2, <3>3, RestIs DEF x
    <2>3. CASE c.op = "f"
      BY <1>2, <2>3, ShortTextsAre, RestIs
    <2> QED
      BY <1>3, <2>1, <2>2, <2>3
  <1>5. Rest[c.op] \in Nat /\ p + 1 \in 1 .. Len(Render(c)) /\ p \in Nat
    BY <1>3, <1>4, RestIs
  <1>6. Types'
    <2>1. left' \in Nat /\ count' \in Nat /\ enable_flush' \in BOOLEAN
      BY <1>1, <1>2, <1>3, <1>5
    <2> QED
      BY <1>1, <2>1, ReadOne DEF Here, Types
  <1>7. CASE left > 1
    <2>1. mode' = c.op /\ mode' # "loop" /\ Stored' = Stored /\ (c.op # "f")
      BY <1>1, <1>3, <1>7, RestIs DEF Stored
    <2>2. left' \in 1 .. Rest[c.op] /\ p + 1 = Rest[c.op] + 1 - left'
      BY <1>1, <1>3, <1>5, <1>7
    <2>3. Under(c, p + 1)'
      BY <1>1, <1>2, <1>5, <2>1, <2>2 DEF Under, InWord
    <2>4. enable_flush' = enable_flush
      BY <1>1, <1>2, <1>3, <2>1
    <2> QED
      BY <1>1, <1>3, <1>6, <2>1, <2>3, <2>4 DEF GoesOn, Busy
  <1>8. CASE left = 1
    <2>1. p = Rest[c.op]
      BY <1>3, <1>5, <1>8
    <2>2. CASE c.op = "src"
      <3>1. mode' = "count" /\ p + 1 = 4 /\ Stored' = Stored /\ enable_flush' = enable_flush
        BY <1>1, <1>2, <1>3, <1>8, <2>1, <2>2, RestIs DEF Stored
      <3>2. Value(Decimal(Len(c.data)))[0] = 0 /\ Len(Decimal(Len(c.data))) \in Nat
        BY <1>2, FieldsTyped, ValueSteps
      <3>3. (p + 1) - 4 = 0 /\ (p + 1) - 4 \in 0 .. Len(Decimal(Len(c.data)))
        BY <3>1, <3>2
      <3>4. InSrc(c, p + 1)'
        BY <1>1, <1>2, <2>2, <3>1, <3>2, <3>3 DEF InSrc, InWord
      <3>5. Under(c, p + 1)'
        BY <1>5, <3>4 DEF Under
      <3> QED
        BY <1>1, <1>6, <3>1, <3>5 DEF GoesOn, Busy
    <2>3. CASE c.op = "hex0"
      <3>1. mode' = "in" /\ p + 1 = 5 /\ Stored' = Stored /\ enable_flush' = enable_flush
        BY <1>1, <1>2, <1>3, <1>8, <2>1, <2>3, RestIs DEF Stored
      <3>2. name' = <<>> /\ out' = <<>> /\ Begins(<<>>, c.name) /\ Len(<<>>) = 0
        BY <1>1, <1>2, FieldsTyped, BeginsNone DEF InWord
      <3>3. InHex0(c, p + 1)'
        BY <2>3, <3>1, <3>2 DEF InHex0
      <3>4. Under(c, p + 1)'
        BY <1>5, <3>3 DEF Under
      <3> QED
        BY <1>1, <1>6, <3>1, <3>4 DEF GoesOn, Busy
    <2>4. CASE c.op = "f"
      <3>1. mode' = "loop" /\ p + 1 = 2 /\ Stored' = Stored /\ enable_flush' = TRUE
        <4>1. mode = "f" /\ p = 1 /\ ~ left > 1
          BY <1>3, <1>8, <2>1, <2>4, RestIs
        <4>2. mode' = "loop" /\ enable_flush' = TRUE
          BY <1>1, <4>1
        <4> QED
          BY <1>1, <4>1, <4>2 DEF Stored
      <3>2. p + 1 = Len(Render(c))
        BY <1>2, <2>4, <3>1, ShortTextsAre
      <3>3. Promise!Effect(c)
        BY <2>4, <3>1 DEF Promise!Effect
      <3> QED
        BY <1>1, <1>6, <3>1, <3>2, <3>3 DEF Ends
    <2> QED
      BY <1>3, <2>2, <2>3, <2>4
  <1> QED
    BY <1>3, <1>5, <1>7, <1>8

LEMMA CountStep ==
    ASSUME NEW c, NEW p, Here(c, p), ParseCount
    PROVE  Types' /\ GoesOn(c, p + 1)
  <1> DEFINE digits == Decimal(Len(c.data))
             l == Len(digits)
  <1>1. /\ mode = "count" /\ Read
        /\ IF Byte = SP THEN mode' = "name" /\ UNCHANGED count
                        ELSE count' = 10 * count + Digit /\ UNCHANGED mode
        /\ UNCHANGED <<left, name, out, data, files, enable_flush, disk>>
    BY DEF ParseCount, stored
  <1>2. /\ InSrc(c, p) /\ c \in CommandRecords /\ p \in 1 .. Len(Render(c))
        /\ p < Len(Render(c)) => Byte = Render(c)[p + 1]
    BY <1>1, Where DEF Here, Under
  <1>3. c.op = "src" /\ p - 4 \in 0 .. l /\ count = Value(digits)[p - 4] /\ name = <<>> /\ l \in Nat
    BY <1>1, <1>2, FieldsTyped DEF InSrc
  <1>4. /\ Len(c.name) \in Nat /\ Len(c.data) \in Nat /\ c.name \in Seq(Bytes) /\ digits \in Seq(48 .. 57)
        /\ digits \in Seq(Bytes) /\ Value(digits)[l] = Len(c.data)
    <2>1. Len(c.name) \in Nat /\ Len(c.data) \in Nat /\ c.name \in Seq(Bytes)
      BY <1>2, FieldsTyped
    <2> QED
      BY <2>1, DecimalValue, Zenon
  <1>5. SrcText(Render(c), digits, c.name, c.data)
    BY <1>2, <1>3, SrcTextIs
  <1>6. /\ Value(digits) \in [0 .. l -> Int]
        /\ \A k \in 1 .. l : Value(digits)[k] = 10 * Value(digits)[k - 1] + (digits[k] - Zero)
    BY <1>4, ValueSteps
  <1> HIDE DEF digits
  <1>7. /\ Len(Render(c)) = 6 + l + Len(c.name) + Len(c.data)
        /\ Render(c)[5 + l] = SP /\ \A i \in 1 .. l : Render(c)[4 + i] = digits[i]
    BY <1>5 DEF SrcText
  <1>8. p + 1 \in 1 .. Len(Render(c)) /\ Byte = Render(c)[p + 1] /\ p \in Nat
    <2>1. p \in Nat /\ p <= 4 + l
      BY <1>2, <1>3
    <2>2. p < Len(Render(c)) /\ Len(Render(c)) \in Nat
      <3> DEFINE x == Len(Render(c))
                 i == Len(c.name)
                 j == Len(c.data)
      <3>1. x = 6 + l + i + j /\ i \in Nat /\ j \in Nat /\ l \in Nat
        BY <1>3, <1>4, <1>7
      <3> HIDE DEF x, i, j, l
      <3>2. p < x /\ x \in Nat
        BY <2>1, <3>1
      <3> QED
        BY <3>2 DEF x
    <2> QED
      BY <1>2, <2>1, <2>2
  <1>9. CASE p = 4 + l
    <2>1. Byte = SP
      <3>1. p + 1 = 5 + l
        BY <1>3, <1>9
      <3> QED
        BY <1>7, <1>8, <3>1
    <2>2. mode' = "name" /\ count' = count /\ Stored' = Stored
      BY <1>1, <2>1 DEF Stored
    <2>3. count = Len(c.data)
      <3>1. p - 4 = l
        BY <1>3, <1>9
      <3> QED
        BY <1>3, <1>4, <3>1
    <2>4. name' = <<>> /\ Begins(<<>>, c.name) /\ Len(<<>>) = 0
      BY <1>1, <1>3, <1>4, BeginsNone
    <2>5. p + 1 = 5 + l + Len(name')
      BY <1>3, <1>9, <2>4
    <2>6. InSrc(c, p + 1)'
      BY <1>3, <2>2, <2>3, <2>4, <2>5 DEF InSrc, digits
    <2>7. Under(c, p + 1)'
      BY <1>8, <2>6 DEF Under
    <2>8. Types'
      BY <1>1, <2>2, ReadOne DEF Here, Types
    <2> QED
      BY <1>1, <2>2, <2>7, <2>8 DEF GoesOn, Busy
  <1>10. CASE p < 4 + l
    <2> DEFINE k == (p - 4) + 1
    <2>1. k \in 1 .. l /\ p + 1 = 4 + k /\ k - 1 = p - 4 /\ (p + 1) - 4 = k
      BY <1>3, <1>8, <1>10
    <2> HIDE DEF k
    <2>2. Byte = digits[k] /\ digits[k] \in 48 .. 57
      <3>1. Render(c)[4 + k] = digits[k]
        BY <1>7, <2>1
      <3>2. digits[k] \in 48 .. 57
        BY <1>4, <2>1
      <3> QED
        BY <1>8, <2>1, <3>1, <3>2
    <2>3. Byte # SP
      BY <2>2 DEF SP
    <2>4. count' = 10 * count + (digits[k] - Zero) /\ mode' = "count" /\ Stored' = Stored
      BY <1>1, <2>2, <2>3 DEF Digit, Stored
    <2>5. count' = Value(digits)[k]
      <3>1. Value(digits)[k] = 10 * Value(digits)[k - 1] + (digits[k] - Zero)
        BY <1>6, <2>1
      <3> QED
        BY <1>3, <2>1, <2>4, <3>1
    <2>6. count' \in Nat
      <3>1. digits[k] - Zero \in Nat
        BY <2>2 DEF Zero
      <3>2. count \in Nat
        BY DEF Here, Types
      <3> QED
        BY <2>4, <3>1, <3>2
    <2>7. InSrc(c, p + 1)'
      <3>1. (p + 1) - 4 \in 0 .. l /\ count' = Value(digits)[(p + 1) - 4] /\ name' = <<>>
        BY <1>1, <1>3, <2>1, <2>5
      <3> QED
        BY <1>3, <2>4, <3>1 DEF InSrc, digits
    <2>8. Under(c, p + 1)'
      BY <1>8, <2>7 DEF Under
    <2>9. Types'
      BY <1>1, <2>6, ReadOne DEF Here, Types
    <2> QED
      BY <1>1, <2>4, <2>8, <2>9 DEF GoesOn, Busy
  <1> QED
    BY <1>2, <1>3, <1>9, <1>10

LEMMA NameStep ==
    ASSUME NEW c, NEW p, Here(c, p), ReadName
    PROVE  Types' /\ (GoesOn(c, p + 1) \/ Ends(c, p + 1))
  <1> DEFINE digits == Decimal(Len(c.data))
             l == Len(digits)
             m == Len(name)
             n == Len(c.name)
             d == Len(c.data)
             x == Len(Render(c))
  <1>1. /\ mode = "name" /\ Read /\ data' = <<>>
        /\ IF Byte = NL
           THEN /\ files' = Entry(name, <<>>)
                /\ mode' = IF count = 0 THEN "loop" ELSE "data"
                /\ left' = count
                /\ UNCHANGED name
           ELSE name' = Append(name, Byte) /\ UNCHANGED <<files, mode, left>>
        /\ UNCHANGED <<count, out, enable_flush, disk>>
    BY DEF ReadName
  <1>2. /\ InSrc(c, p) /\ c \in CommandRecords /\ p \in 1 .. x
        /\ p < x => Byte = Render(c)[p + 1]
    BY <1>1, Where DEF Here, Under
  <1>3. c.op = "src" /\ p = 5 + l + m /\ count = d /\ Begins(name, c.name)
    BY <1>1, <1>2 DEF InSrc
  <1>4. /\ c.name \in Seq(Bytes) /\ c.data \in Seq(Bytes) /\ name \in Seq(Bytes) /\ files \in Seq(FileRecords)
        /\ l \in Nat /\ n \in Nat /\ d \in Nat
    BY <1>2, FieldsTyped DEF Here, Types
  <1>5. m \in Nat /\ m <= n
    BY <1>3, <1>4 DEF Begins
  <1>6. SrcText(Render(c), digits, c.name, c.data)
    BY <1>2, <1>3, SrcTextIs
  <1>7. /\ x = 6 + l + n + d
        /\ Render(c)[6 + l + n] = NL /\ \A i \in 1 .. n : Render(c)[5 + l + i] = c.name[i]
    BY <1>6 DEF SrcText
  <1>8. p + 1 \in 1 .. x /\ Byte = Render(c)[p + 1] /\ p \in Nat
    <2> HIDE DEF x, l, m, n, d
    <2>1. p \in Nat /\ p < x /\ x \in Nat
      BY <1>3, <1>4, <1>5, <1>7
    <2> QED
      BY <1>2, <2>1
  <1>9. Stored = files
    BY <1>1 DEF Stored
  <1>10. CASE m < n
    <2>1. Byte = c.name[m + 1] /\ m + 1 \in 1 .. n
      <3> HIDE DEF x, l, m, n, d
      <3>1. m + 1 \in 1 .. n /\ p + 1 = 5 + l + (m + 1)
        BY <1>3, <1>4, <1>5, <1>10
      <3> QED
        BY <1>7, <1>8, <3>1
    <2>2. Byte # NL
      BY <1>3, <2>1 DEF Here, Clear, Free
    <2>3. name' = Append(name, Byte) /\ UNCHANGED <<files, mode, left, count, out, enable_flush, disk>>
      BY <1>1, <2>2
    <2>4. name' \in Seq(Bytes) /\ Len(name') = m + 1 /\ Begins(name', c.name)
      BY <1>3, <1>4, <1>10, <2>1, <2>3, BeginsMore
    <2>5. Stored' = Stored /\ mode' = "name"
      BY <1>1, <2>3 DEF Stored
    <2>6. InSrc(c, p + 1)'
      <3>1. p + 1 = 5 + l + Len(name')
        <4> HIDE DEF l
        <4> QED
          BY <1>3, <1>4, <1>5, <2>4
      <3> QED
        BY <1>3, <2>3, <2>4, <2>5, <3>1 DEF InSrc
    <2>7. Under(c, p + 1)'
      BY <1>8, <2>6 DEF Under
    <2>8. Types'
      BY <1>1, <2>3, <2>4, ReadOne DEF Here, Types
    <2> QED
      BY <2>3, <2>5, <2>7, <2>8 DEF GoesOn, Busy
  <1>11. CASE m = n
    <2>1. name = c.name
      BY <1>3, <1>4, <1>5, <1>11, BeginsAll
    <2>2. Byte = NL
      <3> HIDE DEF x, l, m, n, d
      <3>1. p + 1 = 6 + l + n
        BY <1>3, <1>4, <1>5, <1>11
      <3> QED
        BY <1>7, <1>8, <3>1
    <2>3. /\ files' = Entry(name, <<>>) /\ left' = count /\ name' = name
          /\ mode' = IF count = 0 THEN "loop" ELSE "data"
          /\ UNCHANGED <<count, out, enable_flush, disk>>
      BY <1>1, <2>2
    <2>4. /\ files' \in Seq(FileRecords) /\ files' # <<>>
          /\ files'[Len(files')] = [name |-> c.name, data |-> <<>>]
          /\ SubSeq(files', 1, Len(files') - 1) = files
      <3> DEFINE more == Append(files, [name |-> c.name, data |-> <<>>])
      <3>1. <<>> \in Seq(Bytes) /\ files' = more
        BY <2>1, <2>3 DEF Entry
      <3>2. Extends(more, files, c.name, <<>>)
        BY <1>4, <3>1, OneMoreFile
      <3> HIDE DEF more
      <3> QED
        BY <3>1, <3>2 DEF Extends
    <2>5. Types'
      <3>1. left' \in Nat /\ data' \in Seq(Bytes)
        BY <1>1, <1>3, <1>4, <2>3
      <3> QED
        BY <1>1, <2>3, <2>4, <3>1, ReadOne DEF Here, Types
    <2>6. CASE d = 0
      <3>1. mode' = "loop" /\ Stored' = files'
        BY <1>3, <2>3, <2>6 DEF Stored
      <3>2. c.data = <<>>
        BY <1>4, <2>6
      <3>3. Stored' = Append(Stored, [name |-> c.name, data |-> c.data])
        BY <1>9, <2>1, <2>3, <3>1, <3>2 DEF Entry
      <3>4. Promise!Effect(c)
        BY <1>3, <2>3, <3>3 DEF Promise!Effect, Promise!Store
      <3>5. p + 1 = x
        <4> HIDE DEF x, l, m, n, d
        <4> QED
          BY <1>3, <1>4, <1>5, <1>7, <1>11, <2>6
      <3> QED
        BY <2>3, <2>5, <3>1, <3>4, <3>5 DEF Ends
    <2>7. CASE d # 0
      <3>1. mode' = "data" /\ Stored' = Stored
        BY <1>3, <1>9, <2>3, <2>4, <2>7 DEF Stored
      <3>2. data' = <<>> /\ Len(<<>>) = 0 /\ Begins(<<>>, c.data)
        BY <1>1, <1>4, BeginsNone
      <3>3. p + 1 = 6 + l + n + 0 /\ d - 0 = d /\ d > 0
        <4> HIDE DEF l, m, n, d
        <4> QED
          BY <1>3, <1>4, <1>5, <1>11, <2>7
      <3>4. InSrc(c, p + 1)'
        <4>1. p + 1 = 6 + l + n + Len(data') /\ left' = d - Len(data') /\ left' > 0
          BY <1>3, <2>3, <3>2, <3>3
        <4> QED
          BY <1>3, <2>1, <2>3, <2>4, <3>1, <3>2, <4>1 DEF InSrc
      <3>5. Under(c, p + 1)'
        BY <1>8, <3>4 DEF Under
      <3> QED
        BY <2>3, <2>5, <3>1, <3>5 DEF GoesOn, Busy
    <2> QED
      BY <2>6, <2>7
  <1> QED
    BY <1>4, <1>5, <1>10, <1>11

LEMMA DataStep ==
    ASSUME NEW c, NEW p, Here(c, p), ReadData
    PROVE  Types' /\ (GoesOn(c, p + 1) \/ Ends(c, p + 1))
  <1> DEFINE digits == Decimal(Len(c.data))
             l == Len(digits)
             m == Len(data)
             n == Len(c.name)
             d == Len(c.data)
             x == Len(Render(c))
  <1>1. /\ mode = "data" /\ Read /\ left' = left - 1 /\ data' = Append(data, Byte)
        /\ IF LastByte
           THEN mode' = "loop" /\ files' = [files EXCEPT ![Len(files)].data = data']
           ELSE UNCHANGED <<mode, files>>
        /\ UNCHANGED <<count, name, out, enable_flush, disk>>
    BY DEF ReadData
  <1>2. /\ InSrc(c, p) /\ c \in CommandRecords /\ p \in 1 .. x
        /\ p < x => Byte = Render(c)[p + 1]
    BY <1>1, Where DEF Here, Under
  <1>3. /\ c.op = "src" /\ p = 6 + l + n + m /\ count = d /\ name = c.name /\ Begins(data, c.data)
        /\ left = d - m /\ left > 0 /\ files # <<>> /\ files[Len(files)] = [name |-> c.name, data |-> <<>>]
    BY <1>1, <1>2 DEF InSrc
  <1>4. /\ c.name \in Seq(Bytes) /\ c.data \in Seq(Bytes) /\ data \in Seq(Bytes) /\ files \in Seq(FileRecords)
        /\ l \in Nat /\ n \in Nat /\ d \in Nat
    BY <1>2, FieldsTyped DEF Here, Types
  <1>5. m \in Nat /\ m < d /\ left \in Nat
    <2>1. m \in Nat /\ left \in Nat
      BY <1>4 DEF Here, Types
    <2> HIDE DEF m, d
    <2> QED
      BY <1>3, <1>4, <2>1
  <1>6. SrcText(Render(c), digits, c.name, c.data)
    BY <1>2, <1>3, SrcTextIs
  <1>7. x = 6 + l + n + d /\ \A i \in 1 .. d : Render(c)[6 + l + n + i] = c.data[i]
    BY <1>6 DEF SrcText
  <1>8. p + 1 \in 1 .. x /\ Byte = Render(c)[p + 1] /\ p \in Nat
    <2> HIDE DEF x, l, m, n, d
    <2>1. p \in Nat /\ p < x /\ x \in Nat
      BY <1>3, <1>4, <1>5, <1>7
    <2> QED
      BY <1>2, <2>1
  <1>9. Byte = c.data[m + 1] /\ m + 1 \in 1 .. d
    <2> HIDE DEF x, l, m, n, d
    <2>1. m + 1 \in 1 .. d /\ p + 1 = 6 + l + n + (m + 1)
      BY <1>3, <1>4, <1>5
    <2> QED
      BY <1>7, <1>8, <2>1
  <1>10. data' \in Seq(Bytes) /\ Len(data') = m + 1 /\ Begins(data', c.data)
    BY <1>1, <1>3, <1>4, <1>5, <1>9, BeginsMore
  <1>11. left' \in Nat /\ left' = d - (m + 1)
    <2> HIDE DEF m, d
    <2> QED
      BY <1>1, <1>3, <1>4, <1>5
  <1>12. CASE left = 1
    <2> DEFINE z == Len(files)
               short == SubSeq(files, 1, z - 1)
               f == [name |-> c.name, data |-> c.data]
    <2>1. z \in Nat \ {0}
      BY <1>3, <1>4
    <2>2. data' = c.data
      <3>1. Len(data') >= d
        <4> HIDE DEF m, d
        <4> QED
          BY <1>3, <1>4, <1>5, <1>10, <1>12
      <3> QED
        BY <1>4, <1>10, <3>1, BeginsAll
    <2>3. /\ files' = [files EXCEPT ![z].data = data'] /\ mode' = "loop" /\ files[z] \in FileRecords
          /\ Stored = short
      BY <1>1, <1>4, <1>12, <2>1 DEF LastByte, Stored
    <2>4. f \in FileRecords /\ [files[z] EXCEPT !.data = data'] = f
      BY <1>3, <1>4, <2>2 DEF FileRecords
    <2>5. files' = [files EXCEPT ![z] = f]
      <3>1. files' = [files EXCEPT ![z] = [files[z] EXCEPT !.data = data']]
        BY <2>3
      <3> QED
        BY <2>4, <3>1
    <2> HIDE DEF f, z
    <2>6. /\ files' \in Seq(FileRecords) /\ Len(files') = z /\ files'[z] = f
          /\ \A i \in 1 .. z - 1 : files'[i] = files[i]
      BY <1>4, <2>1, <2>4, <2>5 DEF z
    <2>7. short \in Seq(FileRecords) /\ Len(short) = z - 1 /\ \A i \in 1 .. z - 1 : short[i] = files[i]
      <3>1. z = Len(files)
        BY DEF z
      <3>2. z - 1 \in Nat /\ (z - 1 = 0 \/ (1 \in 1 .. z /\ z - 1 \in 1 .. z))
        BY <2>1
      <3> QED
        BY <1>4, <3>1, <3>2
    <2> HIDE DEF short
    <2>8. files' = Append(short, f)
      <3> DEFINE other == Append(short, f)
      <3>1. /\ other \in Seq(FileRecords) /\ Len(other) = z /\ other[z] = f
            /\ \A i \in 1 .. z - 1 : other[i] = short[i]
        BY <2>1, <2>4, <2>7
      <3> HIDE DEF other
      <3>2. \A i \in 1 .. z : files'[i] = other[i]
        <4> SUFFICES ASSUME NEW i \in 1 .. z PROVE files'[i] = other[i]
          OBVIOUS
        <4>1. i = z \/ i \in 1 .. z - 1
          BY <2>1
        <4> QED
          BY <2>6, <2>7, <3>1, <4>1
      <3>3. files' = other
        BY <2>6, <3>1, <3>2, SeqEqual
      <3> QED
        BY <3>3 DEF other
    <2>9. Stored' = Append(Stored, [name |-> c.name, data |-> c.data])
      BY <2>3, <2>8 DEF Stored, f
    <2>10. Promise!Effect(c)
      BY <1>1, <1>3, <2>9 DEF Promise!Effect, Promise!Store
    <2>11. p + 1 = x
      <3> HIDE DEF x, l, m, n, d
      <3> QED
        BY <1>3, <1>4, <1>5, <1>7, <1>12
    <2>12. Types'
      BY <1>1, <1>10, <1>11, <2>6, ReadOne DEF Here, Types
    <2> QED
      BY <1>1, <2>3, <2>10, <2>11, <2>12 DEF Ends
  <1>13. CASE left > 1
    <2>1. UNCHANGED <<mode, files>>
      BY <1>1, <1>13 DEF LastByte
    <2>2. Stored' = Stored /\ mode' = "data"
      BY <1>1, <2>1 DEF Stored
    <2>3. InSrc(c, p + 1)'
      <3>1. p + 1 = 6 + l + n + Len(data') /\ left' = d - Len(data') /\ left' > 0
        <4> HIDE DEF l, m, n, d
        <4>1. p + 1 = 6 + l + n + (m + 1)
          BY <1>3, <1>4, <1>5
        <4>2. left - 1 > 0
          BY <1>5, <1>13
        <4> QED
          BY <1>1, <1>10, <1>11, <4>1, <4>2
      <3> QED
        BY <1>1, <1>3, <1>10, <2>1, <2>2, <3>1 DEF InSrc
    <2>4. Under(c, p + 1)'
      BY <1>8, <2>3 DEF Under
    <2>5. Types'
      BY <1>1, <1>10, <1>11, <2>1, ReadOne DEF Here, Types
    <2> QED
      BY <1>1, <2>2, <2>4, <2>5 DEF GoesOn, Busy
  <1>14. left \in Nat /\ left > 0
    BY <1>3, <1>5, Zenon
  <1>15. left = 1 \/ left > 1
    BY <1>14
  <1> QED
    BY <1>12, <1>13, <1>15

LEMMA InputNameStep ==
    ASSUME NEW c, NEW p, Here(c, p), ReadInputName
    PROVE  Types' /\ GoesOn(c, p + 1)
  <1> DEFINE m == Len(name)
             n == Len(c.name)
             a == Len(c.arg)
             x == Len(Render(c))
  <1>1. /\ mode = "in" /\ Read
        /\ IF Byte = SP THEN mode' = "out" /\ UNCHANGED name
                        ELSE name' = Append(name, Byte) /\ UNCHANGED mode
        /\ UNCHANGED <<left, count, out, data, files, enable_flush, disk>>
    BY DEF ReadInputName, stored
  <1>2. /\ InHex0(c, p) /\ c \in CommandRecords /\ p \in 1 .. x
        /\ p < x => Byte = Render(c)[p + 1]
    BY <1>1, Where DEF Here, Under
  <1>3. c.op = "hex0" /\ p = 5 + m /\ Begins(name, c.name) /\ out = <<>>
    BY <1>1, <1>2 DEF InHex0
  <1>4. /\ c.name \in Seq(Bytes) /\ c.arg \in Seq(Bytes) /\ name \in Seq(Bytes) /\ n \in Nat /\ a \in Nat
    BY <1>2, FieldsTyped DEF Here, Types
  <1>5. m \in Nat /\ m <= n
    BY <1>3, <1>4 DEF Begins
  <1>6. Hex0Text(Render(c), c.name, c.arg)
    BY <1>2, <1>3, Hex0TextIs
  <1>7. x = 7 + n + a /\ Render(c)[6 + n] = SP /\ \A i \in 1 .. n : Render(c)[5 + i] = c.name[i]
    BY <1>6 DEF Hex0Text
  <1>8. p + 1 \in 1 .. x /\ Byte = Render(c)[p + 1] /\ p \in Nat
    <2> HIDE DEF x, m, n, a
    <2>1. p \in Nat /\ p < x /\ x \in Nat
      BY <1>3, <1>4, <1>5, <1>7
    <2> QED
      BY <1>2, <2>1
  <1>9. CASE m < n
    <2>1. Byte = c.name[m + 1] /\ m + 1 \in 1 .. n
      <3> HIDE DEF x, m, n, a
      <3>1. m + 1 \in 1 .. n /\ p + 1 = 5 + (m + 1)
        BY <1>3, <1>4, <1>5, <1>9
      <3> QED
        BY <1>7, <1>8, <3>1
    <2>2. Byte # SP
      BY <1>3, <2>1 DEF Here, Clear, Free
    <2>3. name' = Append(name, Byte) /\ UNCHANGED <<mode, left, count, out, data, files, enable_flush, disk>>
      BY <1>1, <2>2
    <2>4. name' \in Seq(Bytes) /\ Len(name') = m + 1 /\ Begins(name', c.name)
      BY <1>3, <1>4, <1>9, <2>1, <2>3, BeginsMore
    <2>5. Stored' = Stored /\ mode' = "in" /\ out' = <<>>
      BY <1>1, <1>3, <2>3 DEF Stored
    <2>6. InHex0(c, p + 1)'
      <3>1. p + 1 = 5 + Len(name')
        <4> HIDE DEF m
        <4> QED
          BY <1>3, <1>5, <2>4
      <3> QED
        BY <1>3, <2>4, <2>5, <3>1 DEF InHex0
    <2>7. Under(c, p + 1)'
      BY <1>8, <2>6 DEF Under
    <2>8. Types'
      BY <1>1, <2>3, <2>4, ReadOne DEF Here, Types
    <2> QED
      BY <2>3, <2>5, <2>7, <2>8 DEF GoesOn, Busy
  <1>10. CASE m = n
    <2>1. name = c.name
      BY <1>3, <1>4, <1>5, <1>10, BeginsAll
    <2>2. Byte = SP
      <3> HIDE DEF x, m, n, a
      <3>1. p + 1 = 6 + n
        BY <1>3, <1>4, <1>10
      <3> QED
        BY <1>7, <1>8, <3>1
    <2>3. mode' = "out" /\ UNCHANGED <<name, left, count, out, data, files, enable_flush, disk>> /\ Stored' = Stored
      BY <1>1, <2>2 DEF Stored
    <2>4. out' = <<>> /\ Len(<<>>) = 0 /\ Begins(<<>>, c.arg)
      BY <1>3, <1>4, <2>3, BeginsNone
    <2>5. InHex0(c, p + 1)'
      <3>1. p + 1 = 6 + Len(name') + Len(out')
        <4>1. p + 1 = 6 + m + 0
          <5> HIDE DEF m
          <5> QED
            BY <1>3, <1>5
        <4> QED
          BY <2>3, <2>4, <4>1
      <3> QED
        BY <1>3, <2>1, <2>3, <2>4, <3>1 DEF InHex0
    <2>6. Under(c, p + 1)'
      BY <1>8, <2>5 DEF Under
    <2>7. Types'
      BY <1>1, <2>3, ReadOne DEF Here, Types
    <2> QED
      BY <2>3, <2>6, <2>7 DEF GoesOn, Busy
  <1> QED
    BY <1>4, <1>5, <1>9, <1>10

LEMMA OutputNameStep ==
    ASSUME NEW c, NEW p, Here(c, p), ReadOutputName, Meant
    PROVE  Types' /\ (GoesOn(c, p + 1) \/ Ends(c, p + 1))
  <1> DEFINE m == Len(out)
             n == Len(c.name)
             a == Len(c.arg)
             x == Len(Render(c))
  <1>1. /\ mode = "out" /\ Read
        /\ IF Byte # NL
           THEN out' = Append(out, Byte) /\ UNCHANGED <<mode, files>>
           ELSE /\ mode' = "loop"
                /\ files' = IF Exists(files, name) THEN Entry(out, Compiled(Newest(files, name))) ELSE files
                /\ UNCHANGED out
        /\ UNCHANGED <<left, count, name, data, enable_flush, disk>>
    BY DEF ReadOutputName
  <1>2. /\ InHex0(c, p) /\ c \in CommandRecords /\ p \in 1 .. x
        /\ p < x => Byte = Render(c)[p + 1]
    BY <1>1, Where DEF Here, Under
  <1>3. c.op = "hex0" /\ name = c.name /\ p = 6 + n + m /\ Begins(out, c.arg)
    BY <1>1, <1>2 DEF InHex0
  <1>4. /\ c.name \in Seq(Bytes) /\ c.arg \in Seq(Bytes) /\ out \in Seq(Bytes) /\ n \in Nat /\ a \in Nat
        /\ files \in Seq(FileRecords)
    BY <1>2, FieldsTyped DEF Here, Types
  <1>5. m \in Nat /\ m <= a
    BY <1>3, <1>4 DEF Begins
  <1>6. Hex0Text(Render(c), c.name, c.arg)
    BY <1>2, <1>3, Hex0TextIs
  <1>7. x = 7 + n + a /\ Render(c)[7 + n + a] = NL /\ \A i \in 1 .. a : Render(c)[6 + n + i] = c.arg[i]
    BY <1>6 DEF Hex0Text
  <1>8. p + 1 \in 1 .. x /\ Byte = Render(c)[p + 1] /\ p \in Nat
    <2> HIDE DEF x, m, n, a
    <2>1. p \in Nat /\ p < x /\ x \in Nat
      BY <1>3, <1>4, <1>5, <1>7
    <2> QED
      BY <1>2, <2>1
  <1>9. CASE m < a
    <2>1. Byte = c.arg[m + 1] /\ m + 1 \in 1 .. a
      <3> HIDE DEF x, m, n, a
      <3>1. m + 1 \in 1 .. a /\ p + 1 = 6 + n + (m + 1)
        BY <1>3, <1>4, <1>5, <1>9
      <3> QED
        BY <1>7, <1>8, <3>1
    <2>2. Byte # NL
      BY <1>3, <2>1 DEF Here, Clear, Free
    <2>3. out' = Append(out, Byte) /\ UNCHANGED <<mode, left, count, name, data, files, enable_flush, disk>>
      BY <1>1, <2>2
    <2>4. out' \in Seq(Bytes) /\ Len(out') = m + 1 /\ Begins(out', c.arg)
      BY <1>3, <1>4, <1>9, <2>1, <2>3, BeginsMore
    <2>5. Stored' = Stored /\ mode' = "out" /\ name' = c.name
      BY <1>1, <1>3, <2>3 DEF Stored
    <2>6. InHex0(c, p + 1)'
      <3>1. p + 1 = 6 + n + Len(out')
        <4> HIDE DEF m, n
        <4> QED
          BY <1>3, <1>4, <1>5, <2>4
      <3> QED
        BY <1>3, <2>4, <2>5, <3>1 DEF InHex0
    <2>7. Under(c, p + 1)'
      BY <1>8, <2>6 DEF Under
    <2>8. Types'
      BY <1>1, <2>3, <2>4, ReadOne DEF Here, Types
    <2> QED
      BY <2>3, <2>5, <2>7, <2>8 DEF GoesOn, Busy
  <1>10. CASE m = a
    <2>1. out = c.arg
      BY <1>3, <1>4, <1>5, <1>10, BeginsAll
    <2>2. Byte = NL /\ p + 1 = x
      <3> HIDE DEF x, m, n, a
      <3>1. p + 1 = 7 + n + a
        BY <1>3, <1>4, <1>10
      <3> QED
        BY <1>7, <1>8, <3>1
    <2>3. /\ mode' = "loop"
          /\ files' = IF Exists(files, name) THEN Entry(out, Compiled(Newest(files, name))) ELSE files
          /\ UNCHANGED <<out, left, count, name, data, enable_flush, disk>>
          /\ Stored = files /\ Stored' = files'
      BY <1>1, <2>2 DEF Stored
    <2>4. Promise!Exists(Stored, c.name) <=> Exists(files, name)
      BY <1>3, <2>3 DEF Exists, Promise!Exists
    <2>5. Promise!Newest(Stored, c.name) = Newest(files, name)
      <3>1. Stored = files /\ name = c.name
        BY <1>3, <2>3
      <3>2. Promise!Newest(files, name) = Newest(files, name)
        BY DEF Newest, Promise!Newest
      <3> QED
        BY <3>1, <3>2
    <2>6. Promise!Effect(c)
      <3>1. CASE Exists(files, name)
        <4>1. Stored' = Append(Stored, [name |-> c.arg, data |-> Compiled(Promise!Newest(Stored, c.name))])
          BY <2>1, <2>3, <2>5, <3>1 DEF Entry
        <4> QED
          BY <1>3, <2>3, <2>4, <3>1, <4>1 DEF Promise!Effect, Promise!Store
      <3>2. CASE ~Exists(files, name)
        BY <1>3, <2>3, <2>4, <3>2 DEF Promise!Effect
      <3> QED
        BY <3>1, <3>2
    <2>7. files' \in Seq(FileRecords)
      <3>1. CASE Exists(files, name)
        <4> DEFINE d == Compiled(Newest(files, name))
        <4>1. d \in Seq(Bytes)
          BY <1>4, <3>1, NewestTyped DEF Meant
        <4> HIDE DEF d
        <4>2. Extends(Append(files, [name |-> out, data |-> d]), files, out, d)
          BY <1>4, <4>1, OneMoreFile
        <4>3. files' = Append(files, [name |-> out, data |-> d])
          BY <2>3, <3>1 DEF Entry, d
        <4> QED
          BY <4>2, <4>3 DEF Extends
      <3>2. CASE ~Exists(files, name)
        BY <1>4, <2>3, <3>2
      <3> QED
        BY <3>1, <3>2
    <2>8. Types'
      BY <1>1, <2>3, <2>7, ReadOne DEF Here, Types
    <2> QED
      BY <2>2, <2>3, <2>6, <2>8 DEF Ends
  <1> QED
    BY <1>4, <1>5, <1>9, <1>10

LEMMA CommandStep ==
    ASSUME NEW c, NEW p, Here(c, p), ReadCommandName
    PROVE  Types' /\ GoesOn(c, p + 1)
  <1> DEFINE m == Len(name)
             n == Len(c.name)
             a == Len(c.arg)
             d == Len(c.data)
             x == Len(Render(c))
  <1>1. /\ mode = "command" /\ Read
        /\ IF Byte = SP THEN mode' = "arg" /\ UNCHANGED name
                        ELSE name' = Append(name, Byte) /\ UNCHANGED mode
        /\ UNCHANGED <<left, count, out, data, files, enable_flush, disk>>
    BY DEF ReadCommandName, stored
  <1>2. /\ InRun(c, p) /\ c \in CommandRecords /\ p \in 1 .. x
        /\ p < x => Byte = Render(c)[p + 1]
    BY <1>1, Where DEF Here, Under
  <1>3. c.op = "run" /\ p = m /\ Begins(name, c.name) /\ out = <<>>
    BY <1>1, <1>2 DEF InRun
  <1>4. /\ c.name \in Seq(Bytes) /\ c.arg \in Seq(Bytes) /\ name \in Seq(Bytes) /\ n \in Nat /\ a \in Nat /\ d \in Nat
    BY <1>2, FieldsTyped DEF Here, Types
  <1>5. m \in Nat /\ m <= n
    BY <1>3, <1>4 DEF Begins
  <1>6. RunText(Render(c), c.name, c.arg, c.data)
    BY <1>2, <1>3, RunTextIs
  <1>7. x = 2 + n + a + d /\ Render(c)[1 + n] = SP /\ \A i \in 1 .. n : Render(c)[i] = c.name[i]
    BY <1>6 DEF RunText
  <1>8. p + 1 \in 1 .. x /\ Byte = Render(c)[p + 1] /\ p \in Nat
    <2> HIDE DEF x, m, n, a, d
    <2>1. p \in Nat /\ p < x /\ x \in Nat
      BY <1>3, <1>4, <1>5, <1>7
    <2> QED
      BY <1>2, <2>1
  <1>9. CASE m < n
    <2>1. Byte = c.name[m + 1] /\ m + 1 \in 1 .. n
      <3> HIDE DEF x, m, n, a, d
      <3>1. m + 1 \in 1 .. n /\ p + 1 = m + 1
        BY <1>3, <1>4, <1>5, <1>9
      <3> QED
        BY <1>7, <1>8, <3>1
    <2>2. Byte # SP
      BY <1>3, <2>1 DEF Here, Clear, Free
    <2>3. name' = Append(name, Byte) /\ UNCHANGED <<mode, left, count, out, data, files, enable_flush, disk>>
      BY <1>1, <2>2
    <2>4. name' \in Seq(Bytes) /\ Len(name') = m + 1 /\ Begins(name', c.name)
      BY <1>3, <1>4, <1>9, <2>1, <2>3, BeginsMore
    <2>5. Stored' = Stored /\ mode' = "command" /\ out' = <<>>
      BY <1>1, <1>3, <2>3 DEF Stored
    <2>6. InRun(c, p + 1)'
      <3>1. p + 1 = Len(name') /\ p + 1 > 0
        <4> HIDE DEF m
        <4> QED
          BY <1>3, <1>5, <2>4
      <3> QED
        BY <1>3, <2>4, <2>5, <3>1 DEF InRun
    <2>7. Under(c, p + 1)'
      BY <1>8, <2>6 DEF Under
    <2>8. Types'
      BY <1>1, <2>3, <2>4, ReadOne DEF Here, Types
    <2> QED
      BY <2>3, <2>5, <2>7, <2>8 DEF GoesOn, Busy
  <1>10. CASE m = n
    <2>1. name = c.name
      BY <1>3, <1>4, <1>5, <1>10, BeginsAll
    <2>2. Byte = SP
      <3> HIDE DEF x, m, n, a, d
      <3>1. p + 1 = 1 + n
        BY <1>3, <1>4, <1>10
      <3> QED
        BY <1>7, <1>8, <3>1
    <2>3. mode' = "arg" /\ UNCHANGED <<name, left, count, out, data, files, enable_flush, disk>> /\ Stored' = Stored
      BY <1>1, <2>2 DEF Stored
    <2>4. out' = <<>> /\ Len(<<>>) = 0 /\ Begins(<<>>, c.arg)
      BY <1>3, <1>4, <2>3, BeginsNone
    <2>5. InRun(c, p + 1)'
      <3>1. p + 1 = 1 + Len(name') + Len(out')
        <4>1. p + 1 = 1 + m + 0
          <5> HIDE DEF m
          <5> QED
            BY <1>3, <1>5
        <4> QED
          BY <2>3, <2>4, <4>1
      <3> QED
        BY <1>3, <2>1, <2>3, <2>4, <3>1 DEF InRun
    <2>6. Under(c, p + 1)'
      BY <1>8, <2>5 DEF Under
    <2>7. Types'
      BY <1>1, <2>3, ReadOne DEF Here, Types
    <2> QED
      BY <2>3, <2>6, <2>7 DEF GoesOn, Busy
  <1> QED
    BY <1>4, <1>5, <1>9, <1>10

LEMMA ArgumentStep ==
    ASSUME NEW c, NEW p, Here(c, p), ReadArgument, Meant
    PROVE  Types' /\ (GoesOn(c, p + 1) \/ Ends(c, p + 1))
  <1> DEFINE m == Len(out)
             n == Len(c.name)
             a == Len(c.arg)
             d == Len(c.data)
             x == Len(Render(c))
  <1>1. /\ mode = "arg" /\ Read
        /\ IF Byte # NL
           THEN out' = Append(out, Byte) /\ UNCHANGED mode
           ELSE mode' = (IF Exists(files, name) THEN "program" ELSE "loop") /\ UNCHANGED out
        /\ left' = IF Byte = NL THEN Wants(out) ELSE 0
        /\ data' = <<>>
        /\ UNCHANGED <<count, name, files, enable_flush, disk>>
    BY DEF ReadArgument, stored
  <1>2. /\ InRun(c, p) /\ c \in CommandRecords /\ p \in 1 .. x
        /\ p < x => Byte = Render(c)[p + 1]
    BY <1>1, Where DEF Here, Under
  <1>3. c.op = "run" /\ name = c.name /\ p = 1 + n + m /\ Begins(out, c.arg)
    BY <1>1, <1>2 DEF InRun
  <1>4. /\ c.name \in Seq(Bytes) /\ c.arg \in Seq(Bytes) /\ c.data \in Seq(Bytes) /\ out \in Seq(Bytes)
        /\ n \in Nat /\ a \in Nat /\ d \in Nat /\ files \in Seq(FileRecords)
    BY <1>2, FieldsTyped DEF Here, Types
  <1>5. m \in Nat /\ m <= a
    BY <1>3, <1>4 DEF Begins
  <1>6. RunText(Render(c), c.name, c.arg, c.data)
    BY <1>2, <1>3, RunTextIs
  <1>7. x = 2 + n + a + d /\ Render(c)[2 + n + a] = NL /\ \A i \in 1 .. a : Render(c)[1 + n + i] = c.arg[i]
    BY <1>6 DEF RunText
  <1>8. p + 1 \in 1 .. x /\ Byte = Render(c)[p + 1] /\ p \in Nat
    <2> HIDE DEF x, m, n, a, d
    <2>1. p \in Nat /\ p < x /\ x \in Nat
      BY <1>3, <1>4, <1>5, <1>7
    <2> QED
      BY <1>2, <2>1
  <1>9. CASE m < a
    <2>1. Byte = c.arg[m + 1] /\ m + 1 \in 1 .. a
      <3> HIDE DEF x, m, n, a, d
      <3>1. m + 1 \in 1 .. a /\ p + 1 = 1 + n + (m + 1)
        BY <1>3, <1>4, <1>5, <1>9
      <3> QED
        BY <1>7, <1>8, <3>1
    <2>2. Byte # NL
      BY <1>3, <2>1 DEF Here, Clear, Free
    <2>3. /\ out' = Append(out, Byte) /\ left' = 0 /\ data' = <<>>
          /\ UNCHANGED <<mode, count, name, files, enable_flush, disk>>
      BY <1>1, <2>2
    <2>4. out' \in Seq(Bytes) /\ Len(out') = m + 1 /\ Begins(out', c.arg)
      BY <1>3, <1>4, <1>9, <2>1, <2>3, BeginsMore
    <2>5. Stored' = Stored /\ mode' = "arg" /\ name' = c.name
      BY <1>1, <1>3, <2>3 DEF Stored
    <2>6. InRun(c, p + 1)'
      <3>1. p + 1 = 1 + n + Len(out')
        <4> HIDE DEF m, n
        <4> QED
          BY <1>3, <1>4, <1>5, <2>4
      <3> QED
        BY <1>3, <2>4, <2>5, <3>1 DEF InRun
    <2>7. Under(c, p + 1)'
      BY <1>8, <2>6 DEF Under
    <2>8. Types'
      <3>1. <<>> \in Seq(Bytes) /\ 0 \in Nat
        OBVIOUS
      <3> QED
        BY <1>1, <2>3, <2>4, <3>1, ReadOne DEF Here, Types
    <2> QED
      BY <2>3, <2>5, <2>7, <2>8 DEF GoesOn, Busy
  <1>10. CASE m = a
    <2>1. out = c.arg
      BY <1>3, <1>4, <1>5, <1>10, BeginsAll
    <2>2. Byte = NL /\ p + 1 = 2 + n + a
      <3> HIDE DEF x, m, n, a, d
      <3>1. p + 1 = 2 + n + a
        BY <1>3, <1>4, <1>10
      <3> QED
        BY <1>7, <1>8, <3>1
    <2>3. /\ mode' = (IF Exists(files, name) THEN "program" ELSE "loop")
          /\ left' = Wants(out) /\ data' = <<>>
          /\ UNCHANGED <<out, count, name, files, enable_flush, disk>>
          /\ Stored = files /\ Stored' = files'
      BY <1>1, <2>2 DEF Stored
    <2>4. Exists(files, name) <=> c.name \in NamesOf(Stored)
      BY <1>3, <1>4, <2>3, ExistsIs
    <2>5. d = ToBeRead(c, NamesOf(Stored))
      BY <1>3 DEF Here, Clear
    <2>6. Types'
      <3>1. <<>> \in Seq(Bytes) /\ left' \in Nat
        BY <1>4, <2>3 DEF Meant
      <3> QED
        BY <1>1, <2>3, <3>1, ReadOne DEF Here, Types
    <2>7. CASE Exists(files, name)
      <3>1. d = left' /\ mode' = "program"
        BY <2>1, <2>3, <2>4, <2>5, <2>7 DEF ToBeRead
      <3>2. data' = <<>> /\ Len(<<>>) = 0 /\ Begins(<<>>, c.data)
        BY <1>4, <2>3, BeginsNone
      <3>3. left' = d - 0 /\ p + 1 = 2 + n + a + 0
        <4> HIDE DEF x, m, n, a, d
        <4>1. d - 0 = d /\ 2 + n + a + 0 = 2 + n + a
          BY <1>4
        <4> QED
          BY <2>2, <3>1, <4>1
      <3>4. Exists(files, name)'
        BY <2>3, <2>7 DEF Exists
      <3>5. InRun(c, p + 1)'
        BY <1>3, <2>1, <2>3, <3>1, <3>2, <3>3, <3>4 DEF InRun
      <3>6. Under(c, p + 1)'
        BY <1>8, <3>5 DEF Under
      <3> QED
        BY <2>3, <2>6, <3>1, <3>6 DEF GoesOn, Busy
    <2>8. CASE ~Exists(files, name)
      <3>1. d = 0 /\ mode' = "loop"
        BY <2>3, <2>4, <2>5, <2>8 DEF ToBeRead
      <3>2. p + 1 = x
        <4> HIDE DEF x, n, a, d
        <4> QED
          BY <1>4, <1>7, <2>2, <3>1
      <3>3. ~Promise!Exists(Stored, c.name)
        BY <1>3, <2>3, <2>8 DEF Exists, Promise!Exists
      <3>4. Promise!Effect(c)
        BY <1>3, <2>3, <3>3 DEF Promise!Effect
      <3> QED
        BY <2>3, <2>6, <3>1, <3>2, <3>4 DEF Ends
    <2> QED
      BY <2>7, <2>8
  <1> QED
    BY <1>4, <1>5, <1>9, <1>10

LEMMA ReadsStep ==
    ASSUME NEW c, NEW p, Here(c, p), ProgramReads
    PROVE  Types' /\ GoesOn(c, p + 1)
  <1> DEFINE m == Len(data)
             n == Len(c.name)
             a == Len(c.arg)
             d == Len(c.data)
             x == Len(Render(c))
  <1>1. /\ mode = "program" /\ left > 0 /\ Read /\ left' = left - 1 /\ data' = Append(data, Byte)
        /\ UNCHANGED <<mode, count, name, out, files, enable_flush, disk>>
    BY DEF ProgramReads, stored
  <1>2. /\ InRun(c, p) /\ c \in CommandRecords /\ p \in 1 .. x
        /\ p < x => Byte = Render(c)[p + 1]
    BY <1>1, Where DEF Here, Under
  <1>3. /\ c.op = "run" /\ name = c.name /\ out = c.arg /\ p = 2 + n + a + m
        /\ Begins(data, c.data) /\ left = d - m /\ Exists(files, name)
    BY <1>1, <1>2 DEF InRun
  <1>4. /\ c.data \in Seq(Bytes) /\ data \in Seq(Bytes) /\ n \in Nat /\ a \in Nat /\ d \in Nat
    BY <1>2, FieldsTyped DEF Here, Types
  <1>5. m \in Nat /\ m < d /\ left \in Nat
    <2>1. m \in Nat /\ left \in Nat
      BY <1>4 DEF Here, Types
    <2> HIDE DEF m, d
    <2> QED
      BY <1>1, <1>3, <1>4, <2>1
  <1>6. RunText(Render(c), c.name, c.arg, c.data)
    BY <1>2, <1>3, RunTextIs
  <1>7. x = 2 + n + a + d /\ \A i \in 1 .. d : Render(c)[2 + n + a + i] = c.data[i]
    BY <1>6 DEF RunText
  <1>8. p + 1 \in 1 .. x /\ Byte = Render(c)[p + 1] /\ p \in Nat
    <2> HIDE DEF x, m, n, a, d
    <2>1. p \in Nat /\ p < x /\ x \in Nat
      BY <1>3, <1>4, <1>5, <1>7
    <2> QED
      BY <1>2, <2>1
  <1>9. Byte = c.data[m + 1] /\ m + 1 \in 1 .. d
    <2> HIDE DEF x, m, n, a, d
    <2>1. m + 1 \in 1 .. d /\ p + 1 = 2 + n + a + (m + 1)
      BY <1>3, <1>4, <1>5
    <2> QED
      BY <1>7, <1>8, <2>1
  <1>10. data' \in Seq(Bytes) /\ Len(data') = m + 1 /\ Begins(data', c.data)
    BY <1>1, <1>3, <1>4, <1>5, <1>9, BeginsMore
  <1>11. left' \in Nat /\ left' = d - (m + 1) /\ p + 1 = 2 + n + a + (m + 1)
    <2> HIDE DEF m, n, a, d
    <2> QED
      BY <1>1, <1>3, <1>4, <1>5
  <1>12. Exists(files, name)'
    BY <1>1, <1>3 DEF Exists
  <1>13. InRun(c, p + 1)'
    <2>1. p + 1 = 2 + n + a + Len(data') /\ left' = d - Len(data')
      BY <1>10, <1>11
    <2> QED
      BY <1>1, <1>3, <1>10, <1>12, <2>1 DEF InRun
  <1>14. Under(c, p + 1)'
    BY <1>8, <1>13 DEF Under
  <1>15. Stored' = Stored
    BY <1>1 DEF Stored
  <1>16. Types'
    BY <1>1, <1>10, <1>11, ReadOne DEF Here, Types
  <1> QED
    BY <1>1, <1>14, <1>15, <1>16 DEF GoesOn, Busy

LEMMA ExitsStep ==
    ASSUME NEW c, NEW p, Here(c, p), ProgramExits
    PROVE  Types' /\ Ends(c, p)
  <1> DEFINE m == Len(data)
             n == Len(c.name)
             a == Len(c.arg)
             d == Len(c.data)
             x == Len(Render(c))
  <1>1. /\ mode = "program" /\ left = 0 /\ files' = Entry(out, data) /\ mode' = "loop"
        /\ UNCHANGED <<input, pos, left, count, name, out, data, enable_flush, disk>>
    BY DEF ProgramExits, parsed
  <1>2. InRun(c, p) /\ c \in CommandRecords
    BY <1>1, Where DEF Here
  <1>3. /\ c.op = "run" /\ name = c.name /\ out = c.arg /\ p = 2 + n + a + m
        /\ Begins(data, c.data) /\ left = d - m /\ Exists(files, name)
    BY <1>1, <1>2 DEF InRun
  <1>4. /\ c.data \in Seq(Bytes) /\ data \in Seq(Bytes) /\ out \in Seq(Bytes) /\ files \in Seq(FileRecords)
        /\ n \in Nat /\ a \in Nat /\ d \in Nat
    BY <1>2, FieldsTyped DEF Here, Types
  <1>5. m = d
    <2>1. m \in Nat
      BY <1>4
    <2> HIDE DEF m, d
    <2> QED
      BY <1>1, <1>3, <1>4, <2>1
  <1>6. data = c.data
    <2>1. m >= d
      <3> HIDE DEF m, d
      <3> QED
        BY <1>4, <1>5
    <2> QED
      BY <1>3, <1>4, <2>1, BeginsAll
  <1>7. RunText(Render(c), c.name, c.arg, c.data)
    BY <1>2, <1>3, RunTextIs
  <1>8. p = x
    <2>1. x = 2 + n + a + d
      BY <1>7 DEF RunText
    <2> QED
      BY <1>3, <1>5, <2>1
  <1>9. Stored = files /\ Stored' = files'
    BY <1>1 DEF Stored
  <1>10. Stored' = Append(Stored, [name |-> c.arg, data |-> c.data])
    BY <1>1, <1>3, <1>6, <1>9 DEF Entry
  <1>11. Promise!Exists(Stored, c.name)
    BY <1>3, <1>9 DEF Exists, Promise!Exists
  <1>12. Promise!Effect(c)
    BY <1>1, <1>3, <1>10, <1>11 DEF Promise!Effect, Promise!Store
  <1>13. files' \in Seq(FileRecords)
    <2>1. Extends(Append(files, [name |-> out, data |-> data]), files, out, data)
      BY <1>4, OneMoreFile
    <2> QED
      BY <1>1, <2>1 DEF Entry, Extends
  <1>14. Types'
    BY <1>1, <1>13 DEF Here, Types
  <1> QED
    BY <1>1, <1>8, <1>12, <1>14 DEF Ends

-----------------------------------------------------------------------------
(* One step between commands *)

LEMMA FlushedTyped ==
    ASSUME Types
    PROVE  Flushed \in Seq(Bytes)
  BY NewestTyped DEF Types, Flushed

\* A command begins; on a run of a program f has everything flushed.
StartsWith(c) ==
    /\ Under(c, 1)' /\ Busy' /\ c.op # "blank"
    /\ disk' = IF c.op = "run" /\ enable_flush THEN Flushed ELSE disk
    /\ UNCHANGED <<Stored, enable_flush>>

\* An empty line is nothing but its end.
Blank(c) ==
    /\ c.op = "blank" /\ Len(Render(c)) = 1 /\ mode' = "loop"
    /\ UNCHANGED <<Stored, enable_flush, disk>>

LEMMA FirstBytes ==
    ASSUME NEW c \in CommandRecords, NEW names, Clear(c, names)
    PROVE  /\ c.op = "src" => Render(c)[1] = LetterS
           /\ c.op = "hex0" => Render(c)[1] = LetterH
           /\ c.op = "f" => Render(c)[1] = LetterF
           /\ c.op = "comment" => Render(c)[1] = Hash
           /\ c.op = "blank" => Render(c)[1] = NL
           /\ c.op = "run" => /\ Render(c)[1] = c.name[1] /\ c.name[1] \in Bytes /\ Len(c.name) > 0
                              /\ Render(c)[1] \notin {NUL, NL, CR, Hash, LetterF, LetterH, LetterS}
  <1>1. CASE c.op = "src"
    <2>1. SrcText(Render(c), Decimal(Len(c.data)), c.name, c.data)
      BY <1>1, SrcTextIs
    <2> QED
      BY <1>1, <2>1 DEF SrcText
  <1>2. CASE c.op = "hex0"
    <2>1. Hex0Text(Render(c), c.name, c.arg)
      BY <1>2, Hex0TextIs
    <2> QED
      BY <1>2, <2>1 DEF Hex0Text
  <1>3. CASE c.op = "comment"
    <2>1. CommentText(Render(c), c.data)
      BY <1>3, CommentTextIs
    <2> QED
      BY <1>3, <2>1 DEF CommentText
  <1>4. CASE c.op \in {"f", "blank"}
    BY <1>4, ShortTextsAre
  <1>5. CASE c.op = "run"
    <2>1. RunText(Render(c), c.name, c.arg, c.data)
      BY <1>5, RunTextIs
    <2>2. c.name # <<>> /\ c.name[1] \notin {NUL, NL, CR, Hash, LetterF, LetterH, LetterS}
      BY <1>5 DEF Clear
    <2>3. c.name \in Seq(Bytes) /\ Len(c.name) \in Nat
      BY FieldsTyped
    <2>4. 1 \in 1 .. Len(c.name) /\ Len(c.name) > 0
      BY <2>2, <2>3
    <2>5. Render(c)[1] = c.name[1]
      BY <2>1, <2>4 DEF RunText
    <2>6. c.name[1] \in Bytes
      BY <2>3, <2>4
    <2> QED
      BY <1>5, <2>2, <2>4, <2>5, <2>6
  <1> QED
    BY <1>1, <1>2, <1>3, <1>4, <1>5, FieldsTyped

LEMMA BytesDiffer ==
    /\ NUL # NL /\ NUL # CR /\ NUL # Hash /\ NUL # LetterF /\ NUL # LetterH /\ NUL # LetterS
    /\ NL # Hash /\ NL # LetterF /\ NL # LetterH /\ NL # LetterS
    /\ CR # Hash /\ CR # LetterF /\ CR # LetterH /\ CR # LetterS
    /\ Hash # LetterF /\ Hash # LetterH /\ Hash # LetterS
    /\ LetterF # LetterH /\ LetterF # LetterS /\ LetterH # LetterS
  BY DEF NUL, NL, CR, Hash, LetterF, LetterH, LetterS

LEMMA BuiltinStep ==
    ASSUME NEW c \in CommandRecords, NEW b, c.op \in {"src", "hex0", "f"}, Types, mode = "loop", Read,
           Builtin(b, c.op)
    PROVE  Types' /\ StartsWith(c)
  <1>1. /\ mode' = c.op /\ left' = Rest[c.op] /\ name' = <<>> /\ out' = <<>>
        /\ UNCHANGED <<count, data, files, enable_flush, disk>>
    BY DEF Builtin, stored
  <1>2. Rest[c.op] \in Nat /\ Rest[c.op] \in 1 .. Rest[c.op] /\ 1 = Rest[c.op] + 1 - Rest[c.op]
    BY RestIs
  <1>3. 1 \in 1 .. Len(Render(c))
    BY TextTyped
  <1>4. InWord(c, 1)'
    BY <1>1, <1>2, RestIs DEF InWord
  <1>5. Under(c, 1)'
    BY <1>3, <1>4 DEF Under
  <1>6. Stored' = Stored
    BY <1>1 DEF Stored
  <1>7. Types'
    <2>1. <<>> \in Seq(Bytes)
      OBVIOUS
    <2> QED
      BY <1>1, <1>2, <2>1, ReadOne DEF Types
  <1> QED
    BY <1>1, <1>5, <1>6, <1>7 DEF StartsWith, Busy

LEMMA LoopStep ==
    ASSUME NEW c \in CommandRecords, Types, mode = "loop", ShellLoop,
           Clear(c, NamesOf(Stored)), Byte = Render(c)[1]
    PROVE  Types' /\ (StartsWith(c) \/ Blank(c))
  <1>1. /\ Read
        /\ \/ Done \/ Skipped \/ Comment \/ Other
           \/ Builtin(LetterS, "src") \/ Builtin(LetterH, "hex0") \/ Builtin(LetterF, "f")
    BY DEF ShellLoop
  <1>2. c.op \in {"src", "hex0", "f", "run", "comment", "blank"} /\ 1 \in 1 .. Len(Render(c))
    BY FieldsTyped, TextTyped
  <1>3. CASE c.op = "src"
    <2>1. Byte = LetterS
      BY <1>3, FirstBytes
    <2>2. Builtin(LetterS, c.op)
      BY <1>1, <1>3, <2>1, BytesDiffer DEF Done, Skipped, Comment, Other, Builtin
    <2> QED
      BY <1>1, <1>3, <2>2, BuiltinStep
  <1>4. CASE c.op = "hex0"
    <2>1. Byte = LetterH
      BY <1>4, FirstBytes
    <2>2. Builtin(LetterH, c.op)
      BY <1>1, <1>4, <2>1, BytesDiffer DEF Done, Skipped, Comment, Other, Builtin
    <2> QED
      BY <1>1, <1>4, <2>2, BuiltinStep
  <1>5. CASE c.op = "f"
    <2>1. Byte = LetterF
      BY <1>5, FirstBytes
    <2>2. Builtin(LetterF, c.op)
      BY <1>1, <1>5, <2>1, BytesDiffer DEF Done, Skipped, Comment, Other, Builtin
    <2> QED
      BY <1>1, <1>5, <2>2, BuiltinStep
  <1>6. CASE c.op = "comment"
    <2>1. Byte = Hash
      BY <1>6, FirstBytes
    <2>2. Comment
      BY <1>1, <2>1, BytesDiffer DEF Done, Skipped, Other, Builtin
    <2>3. mode' = "comment" /\ UNCHANGED <<left, count, name, out, data, files, enable_flush, disk>>
      BY <2>2 DEF Comment, parsed, stored
    <2>4. Stored' = Stored /\ Types'
      BY <1>1, <2>3, ReadOne DEF Stored, Types
    <2>5. InComment(c, 1)'
      <3>1. Len(c.data) \in Nat
        BY FieldsTyped
      <3>2. 1 \in 1 .. Len(c.data) + 1
        BY <3>1
      <3> QED
        BY <1>6, <2>3, <3>2 DEF InComment
    <2>6. Under(c, 1)'
      BY <1>2, <2>5 DEF Under
    <2> QED
      BY <1>6, <2>3, <2>4, <2>6 DEF StartsWith, Busy
  <1>7. CASE c.op = "blank"
    <2>1. Byte = NL /\ Len(Render(c)) = 1
      BY <1>7, FirstBytes, ShortTextsAre
    <2>2. Skipped
      BY <1>1, <2>1, BytesDiffer DEF Done, Comment, Other, Builtin
    <2>3. UNCHANGED <<mode, left, count, name, out, data, files, enable_flush, disk>>
      BY <2>2 DEF Skipped, parsed, stored
    <2>4. Stored' = Stored /\ Types'
      BY <1>1, <2>3, ReadOne DEF Stored, Types
    <2> QED
      BY <1>7, <2>1, <2>3, <2>4 DEF Blank
  <1>8. CASE c.op = "run"
    <2>1. /\ Byte = c.name[1] /\ c.name[1] \in Bytes /\ Len(c.name) > 0
          /\ Byte \notin {NUL, NL, CR, Hash, LetterF, LetterH, LetterS}
      BY <1>8, FirstBytes
    <2>2. Other
      BY <1>1, <2>1 DEF Done, Skipped, Comment, Builtin
    <2>3. /\ disk' = FlushedFirst /\ mode' = "command" /\ name' = <<Byte>> /\ out' = <<>>
          /\ UNCHANGED <<left, count, data, files, enable_flush>>
      BY <2>2 DEF Other
    <2>4. Stored' = Stored
      BY <2>3 DEF Stored
    <2>5. disk' \in Seq(Bytes)
      BY <2>3, FlushedTyped DEF FlushedFirst, Types
    <2>6. /\ name' \in Seq(Bytes) /\ out' \in Seq(Bytes) /\ Len(name') = 1 /\ Begins(name', c.name)
      <3>1. c.name \in Seq(Bytes) /\ Begins(<<>>, c.name) /\ Len(<<>>) = 0 /\ <<>> \in Seq(Bytes)
        BY FieldsTyped, BeginsNone
      <3>2. /\ Append(<<>>, c.name[Len(<<>>) + 1]) \in Seq(Bytes)
            /\ Len(Append(<<>>, c.name[Len(<<>>) + 1])) = Len(<<>>) + 1
            /\ Begins(Append(<<>>, c.name[Len(<<>>) + 1]), c.name)
        BY <2>1, <3>1, BeginsMore
      <3>3. Append(<<>>, c.name[Len(<<>>) + 1]) = <<c.name[1]>>
        BY <3>1
      <3> QED
        BY <2>1, <2>3, <3>1, <3>2, <3>3
    <2>7. Types'
      BY <1>1, <2>3, <2>5, <2>6, ReadOne DEF Types
    <2>8. InRun(c, 1)'
      BY <1>8, <2>3, <2>6 DEF InRun
    <2>9. Under(c, 1)'
      BY <1>2, <2>8 DEF Under
    <2> QED
      BY <1>8, <2>3, <2>4, <2>7, <2>9 DEF StartsWith, Busy, FlushedFirst
  <1> QED
    BY <1>2, <1>3, <1>4, <1>5, <1>6, <1>7, <1>8

\* Behind the script there are zeros, and the shell stops.
LEMMA EndStep ==
    ASSUME Types, mode = "loop", ShellLoop, Byte = NUL
    PROVE  Types' /\ mode' = "halted" /\ disk' = Flushed /\ UNCHANGED <<Stored, enable_flush>>
  <1>1. /\ Read
        /\ \/ Done \/ Skipped \/ Comment \/ Other
           \/ Builtin(LetterS, "src") \/ Builtin(LetterH, "hex0") \/ Builtin(LetterF, "f")
    BY DEF ShellLoop
  <1>2. Done
    BY <1>1, BytesDiffer DEF Skipped, Comment, Other, Builtin
  <1>3. mode' = "halted" /\ disk' = Flushed /\ UNCHANGED <<left, count, name, out, data, files, enable_flush>>
    BY <1>2 DEF Done, parsed
  <1>4. Stored' = Stored
    BY <1>3 DEF Stored
  <1>5. Types'
    BY <1>1, <1>3, FlushedTyped, ReadOne DEF Types
  <1> QED
    BY <1>3, <1>4, <1>5

-----------------------------------------------------------------------------
(* Every step *)

LEMMA StoredTyped ==
    ASSUME Types
    PROVE  Stored \in Seq(FileRecords)
  <1>1. files \in Seq(FileRecords) /\ Len(files) \in Nat
    BY DEF Types
  <1>2. SubSeq(files, 1, Len(files) - 1) \in Seq(FileRecords)
    <2> DEFINE z == Len(files) - 1
    <2>1. z < 1 \/ (1 \in 1 .. Len(files) /\ z \in 1 .. Len(files))
      BY <1>1
    <2>2. CASE z < 1
      <3>1. z \in Int
        BY <1>1
      <3> HIDE DEF z
      <3>2. SubSeq(files, 1, z) = <<>>
        BY <1>1, <2>2, <3>1
      <3> QED
        BY <3>2 DEF z
    <2>3. CASE 1 \in 1 .. Len(files) /\ z \in 1 .. Len(files)
      <3> HIDE DEF z
      <3>1. SubSeq(files, 1, z) \in Seq(FileRecords)
        BY <1>1, <2>3
      <3> QED
        BY <3>1 DEF z
    <2> QED
      BY <2>1, <2>2, <2>3
  <1> QED
    BY <1>1, <1>2 DEF Stored

LEMMA SameFiles ==
    /\ \A fs, n : Promise!Exists(fs, n) <=> Exists(fs, n)
    /\ \A fs, n : Promise!Newest(fs, n) = Newest(fs, n)
  BY DEF Exists, Newest, Promise!Exists, Promise!Newest

\* What a command does to the names of files.
LEMMA EffectNames ==
    ASSUME NEW c \in CommandRecords, Types, Meant, Promise!Effect(c)
    PROVE  NamesOf(Stored') = NamesAfter(c, NamesOf(Stored))
  <1>1. /\ Stored \in Seq(FileRecords)
        /\ c.name \in Seq(Bytes) /\ c.arg \in Seq(Bytes) /\ c.data \in Seq(Bytes)
        /\ c.op \in {"src", "hex0", "f", "run", "comment", "blank"}
    BY StoredTyped, FieldsTyped
  <1>2. Exists(Stored, c.name) <=> c.name \in NamesOf(Stored)
    BY <1>1, ExistsIs
  <1>3. ASSUME NEW n \in Seq(Bytes), NEW d \in Seq(Bytes), Stored' = Append(Stored, [name |-> n, data |-> d])
        PROVE  NamesOf(Stored') = NamesOf(Stored) \cup {n}
    <2>1. Extends(Append(Stored, [name |-> n, data |-> d]), Stored, n, d)
      BY <1>1, OneMoreFile
    <2> QED
      BY <1>3, <2>1 DEF Extends
  <1>4. CASE c.op = "src"
    <2>1. Stored' = Append(Stored, [name |-> c.name, data |-> c.data])
      BY <1>4 DEF Promise!Effect, Promise!Store
    <2>2. NamesOf(Stored') = NamesOf(Stored) \cup {c.name}
      BY <1>1, <1>3, <2>1
    <2> QED
      BY <1>4, <2>2 DEF NamesAfter
  <1>5. CASE c.op \in {"hex0", "run"} /\ ~Exists(Stored, c.name)
    <2>1. Stored' = Stored
      BY <1>5, SameFiles DEF Promise!Effect
    <2> QED
      BY <1>2, <1>5, <2>1 DEF NamesAfter
  <1>6. CASE c.op = "hex0" /\ Exists(Stored, c.name)
    <2> DEFINE d == Compiled(Newest(Stored, c.name))
    <2>1. Stored' = Append(Stored, [name |-> c.arg, data |-> d])
      BY <1>6, SameFiles DEF Promise!Effect, Promise!Store
    <2>2. d \in Seq(Bytes)
      BY <1>1, <1>6, NewestTyped DEF Meant
    <2> HIDE DEF d
    <2>3. NamesOf(Stored') = NamesOf(Stored) \cup {c.arg}
      BY <1>1, <1>3, <2>1, <2>2
    <2> QED
      BY <1>2, <1>6, <2>3 DEF NamesAfter
  <1>7. CASE c.op = "run" /\ Exists(Stored, c.name)
    <2>1. Stored' = Append(Stored, [name |-> c.arg, data |-> c.data])
      BY <1>7, SameFiles DEF Promise!Effect, Promise!Store
    <2>2. NamesOf(Stored') = NamesOf(Stored) \cup {c.arg}
      BY <1>1, <1>3, <2>1
    <2> QED
      BY <1>2, <1>7, <2>2 DEF NamesAfter
  <1>8. CASE c.op \in {"f", "comment", "blank"}
    <2>1. Stored' = Stored
      BY <1>8 DEF Promise!Effect
    <2> QED
      BY <1>8, <2>1 DEF NamesAfter
  <1> QED
    BY <1>1, <1>4, <1>5, <1>6, <1>7, <1>8

LEMMA BusyStep ==
    ASSUME NEW c, NEW p, Here(c, p), Next, Meant
    PROVE  /\ Types' /\ input' = input
           /\ \/ pos' = pos + 1 /\ (GoesOn(c, p + 1) \/ Ends(c, p + 1))
              \/ pos' = pos /\ Ends(c, p)
  <1>1. mode \notin {"loop", "halted"}
    BY Where DEF Here
  <1>2. CASE SkipComment
    <2>1. pos' = pos + 1 /\ input' = input
      BY <1>2 DEF SkipComment, Read
    <2> QED
      BY <1>2, <2>1, CommentStep
  <1>3. CASE SkipWord
    <2>1. pos' = pos + 1 /\ input' = input
      BY <1>3 DEF SkipWord, Read
    <2> QED
      BY <1>3, <2>1, WordStep
  <1>4. CASE ParseCount
    <2>1. pos' = pos + 1 /\ input' = input
      BY <1>4 DEF ParseCount, Read
    <2> QED
      BY <1>4, <2>1, CountStep
  <1>5. CASE ReadName
    <2>1. pos' = pos + 1 /\ input' = input
      BY <1>5 DEF ReadName, Read
    <2> QED
      BY <1>5, <2>1, NameStep
  <1>6. CASE ReadData
    <2>1. pos' = pos + 1 /\ input' = input
      BY <1>6 DEF ReadData, Read
    <2> QED
      BY <1>6, <2>1, DataStep
  <1>7. CASE ReadInputName
    <2>1. pos' = pos + 1 /\ input' = input
      BY <1>7 DEF ReadInputName, Read
    <2> QED
      BY <1>7, <2>1, InputNameStep
  <1>8. CASE ReadOutputName
    <2>1. pos' = pos + 1 /\ input' = input
      BY <1>8 DEF ReadOutputName, Read
    <2> QED
      BY <1>8, <2>1, OutputNameStep
  <1>9. CASE ReadCommandName
    <2>1. pos' = pos + 1 /\ input' = input
      BY <1>9 DEF ReadCommandName, Read
    <2> QED
      BY <1>9, <2>1, CommandStep
  <1>10. CASE ReadArgument
    <2>1. pos' = pos + 1 /\ input' = input
      BY <1>10 DEF ReadArgument, Read
    <2> QED
      BY <1>10, <2>1, ArgumentStep
  <1>11. CASE ProgramReads
    <2>1. pos' = pos + 1 /\ input' = input
      BY <1>11 DEF ProgramReads, Read
    <2> QED
      BY <1>11, <2>1, ReadsStep
  <1>12. CASE ProgramExits
    <2>1. pos' = pos /\ input' = input
      BY <1>12 DEF ProgramExits
    <2> QED
      BY <1>12, <2>1, ExitsStep
  <1>13. ~ShellLoop
    BY <1>1 DEF ShellLoop
  <1> QED
    BY <1>2, <1>3, <1>4, <1>5, <1>6, <1>7, <1>8, <1>9, <1>10, <1>11, <1>12, <1>13 DEF Next

-----------------------------------------------------------------------------
(* Where the shell is in its script *)

\* p is in a command, or between commands, with k of them behind it.
Place(cs, k, ahead, p) ==
    IF ahead THEN k < Len(cs) /\ End(cs, k) < p /\ p <= End(cs, k + 1)
    ELSE End(cs, k) <= p /\ (k < Len(cs) => p < End(cs, k + 1))

\* What is known of command k + 1 of a script that is meant.
Stands(in, k) ==
    LET cs == in.commands
        c == cs[k + 1]
    IN /\ cs \in Seq(CommandRecords) /\ Len(cs) \in Nat /\ End(cs, k) \in Nat
       /\ Known(cs)[0] = {}
       /\ k = Len(cs) => End(cs, k) = Len(in.text)
       /\ k < Len(cs) =>
            /\ c \in CommandRecords /\ Clear(c, Known(cs)[k]) /\ Known(cs)[k + 1] = NamesAfter(c, Known(cs)[k])
            /\ Len(Render(c)) \in Nat \ {0} /\ End(cs, k + 1) = End(cs, k) + Len(Render(c))
            /\ \A i \in 1 .. Len(Render(c)) :
                 /\ End(cs, k) + i <= Len(in.text)
                 /\ in.text[End(cs, k) + i] = Render(c)[i]

LEMMA Standing ==
    ASSUME Meant, NEW in \in Inputs, NEW k \in 0 .. Len(in.commands)
    PROVE  Stands(in, k)
  <1> DEFINE cs == in.commands
             c == cs[k + 1]
             text == RenderAll(cs)
  <1>1. /\ cs \in Seq(CommandRecords) /\ in.text = text
        /\ \A i \in 1 .. Len(cs) : Clear(cs[i], Known(cs)[i - 1])
    BY DEF Meant, WellWritten
  <1>2. Len(cs) \in Nat /\ EndsAre(cs)
    BY <1>1, EndsPlaced
  <1>3. Known(cs)[0] = {} /\ \A i \in 1 .. Len(cs) : Known(cs)[i] = NamesAfter(cs[i], Known(cs)[i - 1])
    BY <1>1, KnownSteps
  <1>4. End(cs, k) \in Nat
    BY <1>2 DEF EndsAre
  <1>5. k = Len(cs) => End(cs, k) = Len(text)
    BY <1>2 DEF EndsAre
  <1>6. ASSUME k < Len(cs)
        PROVE  /\ c \in CommandRecords /\ Clear(c, Known(cs)[k]) /\ Known(cs)[k + 1] = NamesAfter(c, Known(cs)[k])
               /\ Len(Render(c)) \in Nat \ {0} /\ End(cs, k + 1) = End(cs, k) + Len(Render(c))
               /\ \A i \in 1 .. Len(Render(c)) : End(cs, k) + i <= Len(text) /\ text[End(cs, k) + i] = Render(c)[i]
    <2> HIDE DEF cs, text
    <2>1. k + 1 \in 1 .. Len(cs) /\ (k + 1) - 1 = k
      BY <1>2, <1>6 DEF cs
    <2>2. c \in CommandRecords
      BY <1>1, <2>1
    <2>3. Len(Render(c)) \in Nat \ {0}
      <3> HIDE DEF c
      <3> QED
        BY <2>2, TextTyped
    <2>4. Clear(c, Known(cs)[k]) /\ Known(cs)[k + 1] = NamesAfter(c, Known(cs)[k])
      BY <1>1, <1>3, <2>1
    <2> DEFINE j == k + 1
    <2>5. j \in 1 .. Len(cs) /\ j - 1 = k /\ c = cs[j] /\ j = k + 1 /\ j \in 0 .. Len(cs)
      BY <2>1, <1>2
    <2> HIDE DEF c, j
    <2>6. /\ End(cs, j) = End(cs, j - 1) + Len(Render(cs[j])) /\ End(cs, j) <= Len(text)
          /\ \A i \in 1 .. Len(Render(cs[j])) : text[End(cs, j - 1) + i] = Render(cs[j])[i]
      BY <1>2, <2>5, Zenon DEF EndsAre, text
    <2>7. /\ End(cs, j) = End(cs, k) + Len(Render(c)) /\ End(cs, j) <= Len(text)
          /\ \A i \in 1 .. Len(Render(c)) : text[End(cs, k) + i] = Render(c)[i]
      BY <2>5, <2>6
    <2>8. \A i \in 1 .. Len(Render(c)) : End(cs, k) + i <= Len(text)
      <3> DEFINE x == Len(Render(c))
                 e == End(cs, k)
                 f == End(cs, j)
                 t == Len(text)
      <3>1. f = e + x /\ f <= t /\ e \in Nat /\ x \in Nat /\ t \in Nat
        <4>1. text \in Seq(Bytes)
          BY <1>2 DEF EndsAre, text
        <4>2. t \in Nat
          BY <4>1
        <4> QED
          BY <1>4, <2>3, <2>7, <4>2
      <3> HIDE DEF x, e, f, t
      <3>2. \A i \in 1 .. x : e + i <= t
        BY <3>1
      <3> QED
        BY <3>2 DEF x, e, t
    <2> QED
      BY <2>2, <2>3, <2>4, <2>5, <2>7, <2>8
  <1> HIDE DEF text, c, cs
  <1> QED
    BY <1>1, <1>2, <1>3, <1>4, <1>5, <1>6 DEF Stands, cs, c

LEMMA PlaceBehind ==
    ASSUME NEW cs \in Seq(CommandRecords), NEW k \in 0 .. Len(cs), NEW ahead \in BOOLEAN, NEW p \in Nat,
           Place(cs, k, ahead, p)
    PROVE  Behind(cs, ahead, p) = k
  BY BehindIs DEF Place

-----------------------------------------------------------------------------
(* One step of the script *)

LEMMA WithinIs ==
    ASSUME NEW in, NEW k \in Nat, Stands(in, k), k < Len(in.commands), NEW p \in 1 .. Len(Render(in.commands[k + 1]))
    PROVE  Place(in.commands, k, TRUE, End(in.commands, k) + p)
  <1> DEFINE e == End(in.commands, k)
             f == End(in.commands, k + 1)
             l == Len(Render(in.commands[k + 1]))
  <1>1. e \in Nat /\ l \in Nat /\ f = e + l /\ p \in 1 .. l
    BY DEF Stands
  <1> HIDE DEF e, f, l
  <1>2. e < e + p /\ e + p <= f
    BY <1>1
  <1> QED
    BY <1>2 DEF Place, e, f

LEMMA BetweenIs ==
    ASSUME NEW in, NEW k \in Nat, Stands(in, k)
    PROVE  Place(in.commands, k, FALSE, End(in.commands, k))
  <1> DEFINE e == End(in.commands, k)
             f == End(in.commands, k + 1)
             l == Len(Render(in.commands[k + 1]))
  <1>1. e \in Nat /\ (k < Len(in.commands) => l \in Nat \ {0} /\ f = e + l)
    BY DEF Stands
  <1> HIDE DEF e, f, l
  <1>2. e <= e /\ (k < Len(in.commands) => e < f)
    BY <1>1
  <1> QED
    BY <1>2 DEF Place, e, f

\* What a step is for Commands, when k commands of the script are executed.
Moves(cs, k) ==
    \/ /\ Busy /\ Place(cs, k, TRUE, pos)
       /\ Busy' /\ Place(cs, k, TRUE, pos')
       /\ UNCHANGED <<Stored, enable_flush, disk>>
    \/ /\ mode = "loop" /\ Place(cs, k, FALSE, pos) /\ k < Len(cs)
       /\ Busy' /\ Place(cs, k, TRUE, pos')
       /\ StartsWith(cs[k + 1])
    \/ /\ Busy /\ Place(cs, k, TRUE, pos) /\ k < Len(cs)
       /\ mode' = "loop" /\ Place(cs, k + 1, FALSE, pos')
       /\ Promise!Effect(cs[k + 1]) /\ UNCHANGED disk
    \/ /\ mode = "loop" /\ Place(cs, k, FALSE, pos) /\ k < Len(cs)
       /\ mode' = "loop" /\ Place(cs, k + 1, FALSE, pos')
       /\ Blank(cs[k + 1])
    \/ /\ mode = "loop" /\ Place(cs, k, FALSE, pos) /\ k = Len(cs)
       /\ mode' = "halted" /\ Place(cs, k, FALSE, pos')
       /\ disk' = Flushed /\ UNCHANGED <<Stored, enable_flush>>

\* The shell is p bytes into command k + 1 of cs.
At(cs, k, p) == k < Len(cs) /\ pos = End(cs, k) + p /\ Under(cs[k + 1], p)

LEMMA TextLength ==
    ASSUME Meant, NEW in \in Inputs
    PROVE  Len(in.text) \in Nat
  <1>1. in.commands \in Seq(CommandRecords) /\ in.text = RenderAll(in.commands)
    BY DEF Meant, WellWritten
  <1>2. in.text \in Seq(Bytes)
    BY <1>1, EndsPlaced DEF EndsAre
  <1> QED
    BY <1>2

LEMMA ReachedThen ==
    ASSUME NEW cs, NEW k, NEW p \in Int, input'.commands = cs, End(cs, k) \in Nat
    PROVE  /\ NamesOf(Stored)' = Known(cs)[k] /\ mode' = "loop" /\ pos' = End(cs, k) => Reached(k)'
           /\ NamesOf(Stored)' = Known(cs)[k] /\ mode' = "halted" /\ k = Len(cs) /\ pos' = End(cs, k) + 1 => Reached(k)'
           /\ NamesOf(Stored)' = Known(cs)[k] /\ At(cs, k, p)' => Reached(k)'
  <1>1. ASSUME pos' = End(cs, k) + p PROVE pos' - End(cs, k) = p
    BY <1>1
  <1> QED
    BY <1>1 DEF Reached, At, Under, InWord, InComment, InSrc, InHex0, InRun

LEMMA InCommand ==
    ASSUME Meant, Types, Next, NEW in, in = input, NEW k \in 0 .. Len(in.commands), NEW p \in Int,
           NamesOf(Stored) = Known(in.commands)[k], At(in.commands, k, p)
    PROVE  Types' /\ Moves(in.commands, k) /\ \E l \in {k, k + 1} : l <= Len(in.commands) /\ Reached(l)'
  <1> DEFINE cs == in.commands
             c == cs[k + 1]
             x == Len(Render(c))
  <1>1. in \in Inputs /\ Stands(in, k)
    BY Standing DEF Types
  <1>2. /\ k < Len(cs) /\ k \in Nat /\ Len(cs) \in Nat /\ End(cs, k) \in Nat /\ c \in CommandRecords
        /\ Clear(c, NamesOf(Stored)) /\ Known(cs)[k + 1] = NamesAfter(c, Known(cs)[k])
        /\ x \in Nat \ {0} /\ End(cs, k + 1) = End(cs, k) + x
    BY <1>1 DEF Stands, At
  <1>3. pos = End(cs, k) + p /\ Under(c, p) /\ p \in 1 .. x
    BY DEF At, Under
  <1>4. p < x => Byte = Render(c)[p + 1]
    <2> SUFFICES ASSUME p < x PROVE Byte = Render(c)[p + 1]
      OBVIOUS
    <2>1. p + 1 \in 1 .. x
      BY <1>2, <1>3
    <2>2. End(cs, k) + (p + 1) <= Len(in.text) /\ in.text[End(cs, k) + (p + 1)] = Render(c)[p + 1]
      BY <1>1, <1>2, <2>1, Zenon DEF Stands
    <2> DEFINE e == End(cs, k)
               t == Len(in.text)
    <2>3. pos = e + p /\ e \in Nat /\ e + (p + 1) <= t /\ t \in Int
      <3>1. t \in Int
        BY <1>1, ShellAssumption, TextLength
      <3> QED
        BY <1>2, <1>3, <2>2, <3>1
    <2> HIDE DEF e, t
    <2>4. pos < t /\ pos + 1 = e + (p + 1)
      BY <2>3
    <2> QED
      BY <2>2, <2>4 DEF Byte, e, t
  <1>5. Here(c, p)
    BY <1>2, <1>3, <1>4 DEF Here
  <1>6. /\ Types' /\ input' = input
        /\ \/ pos' = pos + 1 /\ (GoesOn(c, p + 1) \/ Ends(c, p + 1))
           \/ pos' = pos /\ Ends(c, p)
    BY <1>5, BusyStep
  <1>7. Busy /\ Place(cs, k, TRUE, pos)
    <2>1. mode \notin {"loop", "halted"}
      BY <1>3, Where
    <2>2. Place(cs, k, TRUE, End(cs, k) + p)
      BY <1>1, <1>2, <1>3, WithinIs
    <2> QED
      BY <1>3, <2>1, <2>2 DEF Busy
  <1>8. input'.commands = cs /\ End(cs, k) \in Nat /\ k + 1 \in Nat /\ k + 1 <= Len(cs) /\ k <= Len(cs)
    BY <1>2, <1>6
  <1>9. CASE pos' = pos + 1 /\ GoesOn(c, p + 1)
    <2>1. Under(c, p + 1)' /\ Busy' /\ UNCHANGED <<Stored, enable_flush, disk>>
      BY <1>9 DEF GoesOn
    <2>2. p + 1 \in 1 .. x /\ p + 1 \in Int
      <3>1. (p + 1 \in 1 .. Len(Render(c)))
        BY <2>1 DEF Under
      <3> QED
        BY <3>1
    <2>3. pos' = End(cs, k) + (p + 1)
      <3> DEFINE e == End(cs, k)
      <3>1. pos' = (e + p) + 1 /\ e \in Nat
        BY <1>2, <1>3, <1>9
      <3> HIDE DEF e
      <3>2. pos' = e + (p + 1)
        BY <3>1
      <3> QED
        BY <3>2 DEF e
    <2>4. Place(cs, k, TRUE, End(cs, k) + (p + 1))
      BY <1>1, <1>2, <2>2, WithinIs
    <2>5. Moves(cs, k)
      BY <1>7, <2>1, <2>3, <2>4 DEF Moves
    <2>6. At(cs, k, p + 1)'
      BY <1>2, <2>1, <2>3 DEF At
    <2>7. NamesOf(Stored)' = Known(cs)[k]
      BY <2>1 DEF NamesOf
    <2>8. Reached(k)'
      BY <1>8, <2>2, <2>6, <2>7, ReachedThen
    <2> QED
      BY <1>6, <1>8, <2>5, <2>8
  <1>10. ASSUME NEW q \in Int, pos' = End(cs, k) + q, Ends(c, q)
         PROVE  Moves(cs, k) /\ Reached(k + 1)'
    <2>1. mode' = "loop" /\ Promise!Effect(c) /\ disk' = disk /\ q = x
      BY <1>10 DEF Ends
    <2>2. pos' = End(cs, k + 1)
      BY <1>2, <1>10, <2>1
    <2>3. k + 1 \in 0 .. Len(in.commands)
      BY <1>2
    <2>4. Stands(in, k + 1)
      BY <1>1, <2>3, Standing
    <2>5. Place(cs, k + 1, FALSE, End(cs, k + 1))
      BY <1>8, <2>4, BetweenIs
    <2>10. End(cs, k + 1) \in Nat
      BY <2>4, Zenon DEF Stands
    <2>6. Moves(cs, k)
      BY <1>2, <1>7, <2>1, <2>2, <2>5 DEF Moves
    <2>7. NamesOf(Stored') = NamesAfter(c, NamesOf(Stored))
      BY <1>2, <2>1, EffectNames
    <2>8. NamesOf(Stored)' = Known(cs)[k + 1]
      BY <1>2, <2>7 DEF NamesOf
    <2>9. Reached(k + 1)'
      BY <1>8, <2>1, <2>2, <2>8, <2>10, ReachedThen
    <2> QED
      BY <2>6, <2>9
  <1>11. CASE pos' = pos + 1 /\ Ends(c, p + 1)
    <2>1. pos' = End(cs, k) + (p + 1) /\ p + 1 \in Int
      <3> DEFINE e == End(cs, k)
      <3>1. pos' = (e + p) + 1 /\ e \in Nat
        BY <1>2, <1>3, <1>11
      <3> HIDE DEF e
      <3>2. pos' = e + (p + 1) /\ p + 1 \in Int
        BY <3>1
      <3> QED
        BY <3>2 DEF e
    <2>2. Moves(cs, k) /\ Reached(k + 1)'
      BY <1>10, <1>11, <2>1
    <2> QED
      BY <1>6, <1>8, <2>2
  <1>12. CASE pos' = pos /\ Ends(c, p)
    <2>1. Moves(cs, k) /\ Reached(k + 1)'
      BY <1>3, <1>10, <1>12
    <2> QED
      BY <1>6, <1>8, <2>1
  <1> QED
    BY <1>6, <1>9, <1>11, <1>12

LEMMA Between ==
    ASSUME Meant, Types, Next, NEW in, in = input, NEW k \in 0 .. Len(in.commands),
           NamesOf(Stored) = Known(in.commands)[k], mode = "loop", pos = End(in.commands, k)
    PROVE  Types' /\ Moves(in.commands, k) /\ \E l \in {k, k + 1} : l <= Len(in.commands) /\ Reached(l)'
  <1> DEFINE cs == in.commands
             c == cs[k + 1]
             x == Len(Render(c))
  <1>1. in \in Inputs /\ Stands(in, k)
    BY Standing DEF Types
  <1>2. k \in Nat /\ Len(cs) \in Nat /\ End(cs, k) \in Nat /\ k <= Len(cs) /\ (k = Len(cs) \/ k < Len(cs))
    BY <1>1 DEF Stands
  <1>3. ShellLoop
    BY RestIs DEF Next, SkipComment, SkipWord, ParseCount, ReadName, ReadData, ReadInputName, ReadOutputName,
                  ReadCommandName, ReadArgument, ProgramReads, ProgramExits
  <1>4. pos' = pos + 1 /\ input' = input /\ input'.commands = cs
    BY <1>3 DEF ShellLoop, Read
  <1>5. Place(cs, k, FALSE, pos)
    BY <1>1, <1>2, BetweenIs
  <1>6. CASE k < Len(cs)
    <2>1. /\ c \in CommandRecords
          /\ Clear(c, NamesOf(Stored)) /\ Known(cs)[k + 1] = NamesAfter(c, Known(cs)[k])
          /\ x \in Nat \ {0} /\ End(cs, k + 1) = End(cs, k) + x
      BY <1>1, <1>6 DEF Stands
    <2>2. Byte = Render(c)[1]
      <3>1. 1 \in 1 .. x
        BY <2>1
      <3>2. End(cs, k) + 1 <= Len(in.text) /\ in.text[End(cs, k) + 1] = Render(c)[1]
        BY <1>1, <1>6, <3>1, Zenon DEF Stands
      <3>3. Len(in.text) \in Nat
        BY <1>1, TextLength
      <3> DEFINE e == End(cs, k)
                 t == Len(in.text)
      <3>4. pos = e /\ e \in Nat /\ t \in Nat /\ e + 1 <= t
        BY <1>2, <3>2, <3>3
      <3> HIDE DEF e, t
      <3>5. pos < t
        BY <3>4
      <3> QED
        BY <3>2, <3>5 DEF Byte, e, t
    <2>3. Types' /\ (StartsWith(c) \/ Blank(c))
      BY <1>3, <2>1, <2>2, LoopStep
    <2>4. pos' = End(cs, k) + 1 /\ k + 1 \in 0 .. Len(cs) /\ k + 1 <= Len(cs) /\ k + 1 \in Nat /\ 1 \in 1 .. x
      BY <1>2, <1>4, <1>6, <2>1
    <2>5. CASE StartsWith(c)
      <3>1. Under(c, 1)' /\ Busy' /\ Stored' = Stored
        BY <2>5 DEF StartsWith
      <3>2. Place(cs, k, TRUE, pos')
        BY <1>1, <1>2, <1>6, <2>4, WithinIs
      <3>3. Moves(cs, k)
        BY <1>5, <1>6, <2>5, <3>1, <3>2 DEF Moves
      <3>4. NamesOf(Stored)' = Known(cs)[k]
        BY <3>1 DEF NamesOf
      <3>5. At(cs, k, 1)'
        BY <1>6, <2>4, <3>1 DEF At
      <3>6. Reached(k)'
        BY <1>2, <1>4, <2>4, <3>4, <3>5, ReachedThen
      <3> QED
        BY <1>2, <2>3, <3>3, <3>6
    <2>6. CASE Blank(c)
      <3>1. c.op = "blank" /\ x = 1 /\ mode' = "loop" /\ Stored' = Stored
        BY <2>6 DEF Blank
      <3>2. pos' = End(cs, k + 1)
        BY <2>1, <2>4, <3>1
      <3>3. Stands(in, k + 1)
        BY <1>1, <2>4, Standing
      <3>4. Place(cs, k + 1, FALSE, End(cs, k + 1))
        BY <2>4, <3>3, BetweenIs
      <3>5. End(cs, k + 1) \in Nat
        BY <3>3, Zenon DEF Stands
      <3>6. Moves(cs, k)
        BY <1>5, <1>6, <2>6, <3>1, <3>2, <3>4 DEF Moves
      <3>7. NamesOf(Stored)' = Known(cs)[k + 1]
        BY <2>1, <3>1 DEF NamesOf, NamesAfter
      <3>8. Reached(k + 1)'
        BY <1>4, <3>1, <3>2, <3>5, <3>7, ReachedThen
      <3> QED
        BY <2>3, <2>4, <3>6, <3>8
    <2> QED
      BY <2>3, <2>5, <2>6
  <1>7. CASE k = Len(cs)
    <2>1. Byte = NUL
      <3>1. pos = Len(in.text)
        BY <1>1, <1>7 DEF Stands
      <3>2. ~(pos < Len(in.text))
        BY <1>1, <3>1, TextLength
      <3> QED
        BY <3>2 DEF Byte
    <2>2. Types' /\ mode' = "halted" /\ disk' = Flushed /\ UNCHANGED <<Stored, enable_flush>>
      BY <1>3, <2>1, EndStep
    <2>3. pos' = End(cs, k) + 1
      BY <1>4
    <2>4. Place(cs, k, FALSE, pos')
      BY <1>2, <1>7, <2>3 DEF Place
    <2>5. Moves(cs, k)
      BY <1>5, <1>7, <2>2, <2>4 DEF Moves
    <2>6. NamesOf(Stored)' = Known(cs)[k]
      BY <2>2 DEF NamesOf
    <2>7. Reached(k)'
      BY <1>2, <1>4, <1>7, <2>2, <2>3, <2>6, ReachedThen
    <2> QED
      BY <1>2, <2>2, <2>5, <2>7
  <1> QED
    BY <1>2, <1>6, <1>7

\* Every step keeps to the script.
LEMMA StepOutcome ==
    ASSUME Meant, Types, Next, NEW in, in = input, NEW k \in 0 .. Len(in.commands), Reached(k)
    PROVE  Types' /\ Moves(in.commands, k) /\ \E l \in {k, k + 1} : l <= Len(in.commands) /\ Reached(l)'
  <1> DEFINE cs == in.commands
  <1>1. NamesOf(Stored) = Known(cs)[k] /\ input.commands = cs
    BY DEF Reached
  <1>2. /\ in \in Inputs /\ Stands(in, k)
    BY Standing DEF Types
  <1>3. End(cs, k) \in Nat /\ pos \in Nat /\ k \in Nat
    BY <1>2 DEF Stands, Types
  <1>4. CASE mode = "loop" /\ pos = End(cs, k)
    BY <1>1, <1>4, Between
  <1>5. mode # "halted"
    BY RestIs DEF Next, ShellLoop, SkipComment, SkipWord, ParseCount, ReadName, ReadData, ReadInputName, ReadOutputName,
                  ReadCommandName, ReadArgument, ProgramReads, ProgramExits
  <1>6. CASE k < Len(cs) /\ Under(cs[k + 1], pos - End(cs, k))
    <2>1. PICK p \in Int : p = pos - End(cs, k)
      BY <1>3
    <2>2. pos = End(cs, k) + p
      BY <1>3, <2>1
    <2>3. At(cs, k, p)
      BY <1>6, <2>1, <2>2 DEF At
    <2> QED
      BY <1>1, <2>3, InCommand
  <1> QED
    BY <1>1, <1>4, <1>5, <1>6 DEF Reached

-----------------------------------------------------------------------------
(* Theorems *)

LEMMA KeepsInput ==
    ASSUME Next
    PROVE  input' = input
  BY DEF Next, ShellLoop, SkipComment, SkipWord, ParseCount, ReadName, ReadData, ReadInputName, ReadOutputName,
         ReadCommandName, ReadArgument, ProgramReads, ProgramExits, Read

\* What is left of a script after k of its commands.
Remaining(cs, k) == SubSeq(cs, k + 1, Len(cs))

LEMMA RemainingIs ==
    ASSUME NEW cs \in Seq(CommandRecords), NEW k \in 0 .. Len(cs)
    PROVE  /\ k = Len(cs) => Remaining(cs, k) = <<>>
           /\ k < Len(cs) => /\ Remaining(cs, k) # <<>> /\ Head(Remaining(cs, k)) = cs[k + 1]
                             /\ Tail(Remaining(cs, k)) = Remaining(cs, k + 1)
  <1> DEFINE n == Len(cs)
  <1>1. n \in Nat /\ k \in Nat
    OBVIOUS
  <1>2. CASE k = n
    <2>1. n + 1 \in Int /\ n + 1 > n
      BY <1>1
    <2>2. SubSeq(cs, n + 1, n) = <<>>
      BY <1>1, <2>1
    <2> QED
      BY <1>2, <2>2 DEF Remaining
  <1>3. CASE k < n
    <2> DEFINE s == Remaining(cs, k)
               t == Remaining(cs, k + 1)
    <2>1. k + 1 \in 1 .. n /\ n \in 1 .. n
      BY <1>1, <1>3
    <2>2. s \in Seq(CommandRecords) /\ Len(s) = n - k /\ \A i \in 1 .. n - k : s[i] = cs[k + i]
      <3>1. SubSeq(cs, k + 1, n) \in Seq(CommandRecords) /\ Len(SubSeq(cs, k + 1, n)) = n - k
        BY <1>1, <2>1
      <3>2. \A i \in 1 .. n - k : SubSeq(cs, k + 1, n)[i] = cs[k + i]
        BY <1>1, <2>1
      <3> QED
        BY <3>1, <3>2 DEF Remaining
    <2>3. t \in Seq(CommandRecords) /\ Len(t) = n - (k + 1) /\ \A i \in 1 .. n - (k + 1) : t[i] = cs[(k + 1) + i]
      <3>1. CASE k + 1 < n
        <4>1. (k + 1) + 1 \in 1 .. n
          BY <1>1, <3>1
        <4>2. SubSeq(cs, (k + 1) + 1, n) \in Seq(CommandRecords) /\ Len(SubSeq(cs, (k + 1) + 1, n)) = n - (k + 1)
          BY <1>1, <2>1, <4>1
        <4>3. \A i \in 1 .. n - (k + 1) : SubSeq(cs, (k + 1) + 1, n)[i] = cs[(k + 1) + i]
          BY <1>1, <2>1, <4>1
        <4> QED
          BY <4>2, <4>3 DEF Remaining
      <3>2. CASE k + 1 = n
        <4>1. SubSeq(cs, n + 1, n) = <<>>
          BY <1>1
        <4>2. t = <<>> /\ n - (k + 1) = 0
          BY <1>1, <3>2, <4>1 DEF Remaining
        <4> HIDE DEF t, n
        <4>3. t \in Seq(CommandRecords) /\ Len(t) = 0
          BY <4>2
        <4>4. \A i \in 1 .. 0 : FALSE
          OBVIOUS
        <4> QED
          BY <4>2, <4>3, <4>4
      <3> QED
        BY <1>1, <1>3, <3>1, <3>2
    <2> HIDE DEF s, t, n
    <2>4. n - k \in Nat \ {0} /\ n - (k + 1) = (n - k) - 1
      BY <1>1, <1>3
    <2>5. s # <<>> /\ Head(s) = cs[k + 1]
      BY <2>2, <2>4
    <2>6. Tail(s) \in Seq(CommandRecords) /\ Len(Tail(s)) = n - (k + 1) /\ \A i \in 1 .. n - (k + 1) : Tail(s)[i] = cs[(k + 1) + i]
      <3>1. Tail(s) \in Seq(CommandRecords) /\ Len(Tail(s)) = Len(s) - 1 /\ \A i \in 1 .. Len(s) - 1 : Tail(s)[i] = s[i + 1]
        BY <2>2, <2>5
      <3>2. \A i \in 1 .. n - (k + 1) : i + 1 \in 1 .. n - k /\ k + (i + 1) = (k + 1) + i
        BY <1>1, <1>3
      <3> QED
        BY <2>2, <2>4, <3>1, <3>2
    <2>7. Tail(s) = t
      BY <2>3, <2>6
    <2> QED
      BY <1>3, <2>5, <2>7 DEF s, t, n
  <1> QED
    BY <1>1, <1>2, <1>3

LEMMA MovesKeepPromise ==
    ASSUME Meant, Types, NEW cs, input.commands = cs, input'.commands = cs, pos' \in Nat, NEW k \in 0 .. Len(cs),
           Moves(cs, k)
    PROVE  [Promise!Next]_Promise!cvars
  <1>1. cs \in Seq(CommandRecords) /\ pos \in Nat /\ Len(cs) \in Nat /\ k \in Nat
    BY DEF Meant, WellWritten, Types
  <1>2. \A l \in 0 .. Len(cs), p \in Nat :
          /\ Place(cs, l, TRUE, p) => Behind(cs, TRUE, p) = l
          /\ Place(cs, l, FALSE, p) => Behind(cs, FALSE, p) = l
    BY <1>1, PlaceBehind
  <1>3. /\ k = Len(cs) => Remaining(cs, k) = <<>>
        /\ k < Len(cs) => /\ Remaining(cs, k) # <<>> /\ Head(Remaining(cs, k)) = cs[k + 1]
                          /\ Tail(Remaining(cs, k)) = Remaining(cs, k + 1)
    BY <1>1, RemainingIs
  <1> DEFINE script == SubSeq(input.commands, Completed + 1, Len(input.commands))
  <1>4. /\ Busy /\ Place(cs, k, TRUE, pos) => script = Remaining(cs, k)
        /\ ~Busy /\ Place(cs, k, FALSE, pos) => script = Remaining(cs, k)
    BY <1>1, <1>2 DEF Completed, Remaining, Busy
  <1>5. ASSUME NEW l \in 0 .. Len(cs)
        PROVE  /\ Busy' /\ Place(cs, l, TRUE, pos') => script' = Remaining(cs, l)
               /\ ~Busy' /\ Place(cs, l, FALSE, pos') => script' = Remaining(cs, l)
    BY <1>1, <1>2 DEF Completed, Remaining, Busy
  <1>6. k < Len(cs) => k + 1 \in 0 .. Len(cs)
    BY <1>1
  <1> HIDE DEF script
  <1>7. CASE /\ Busy /\ Place(cs, k, TRUE, pos)
             /\ Busy' /\ Place(cs, k, TRUE, pos')
             /\ UNCHANGED <<Stored, enable_flush, disk>>
    <2>1. script' = script
      BY <1>4, <1>5, <1>7
    <2>2. mode # "halted" /\ mode' # "halted"
      BY <1>7 DEF Busy
    <2> QED
      BY <1>7, <2>1, <2>2 DEF Promise!cvars, script
  <1>8. CASE /\ mode = "loop" /\ Place(cs, k, FALSE, pos) /\ k < Len(cs)
             /\ Busy' /\ Place(cs, k, TRUE, pos')
             /\ StartsWith(cs[k + 1])
    <2>1. script = Remaining(cs, k) /\ script' = script
      BY <1>4, <1>5, <1>8 DEF Busy
    <2>2. ~Busy /\ mode # "halted" /\ mode' # "halted" /\ Stored = files
      BY <1>8 DEF Busy, Stored
    <2>3. /\ Head(script).op # "blank"
          /\ disk' = IF Head(script).op = "run" /\ enable_flush THEN Flushed ELSE disk
          /\ UNCHANGED <<Stored, enable_flush>>
      BY <1>3, <1>8, <2>1 DEF StartsWith
    <2>4. IF Head(script).op = "run" /\ enable_flush THEN Promise!WriteBack ELSE UNCHANGED disk
      BY <2>2, <2>3, SameFiles DEF Promise!WriteBack, Flushed
    <2>5. Promise!Begin
      BY <1>3, <1>8, <2>1, <2>2, <2>3, <2>4 DEF Promise!Begin, script
    <2> QED
      BY <2>5 DEF Promise!Next
  <1>9. CASE /\ Busy /\ Place(cs, k, TRUE, pos) /\ k < Len(cs)
             /\ mode' = "loop" /\ Place(cs, k + 1, FALSE, pos')
             /\ Promise!Effect(cs[k + 1]) /\ UNCHANGED disk
    <2>1. script = Remaining(cs, k) /\ script' = Remaining(cs, k + 1) /\ script' = Tail(script)
      BY <1>3, <1>4, <1>5, <1>6, <1>9 DEF Busy
    <2>2. Busy /\ ~Busy' /\ mode # "halted" /\ mode' # "halted"
      BY <1>9 DEF Busy
    <2>3. Promise!Effect(Head(script))
      BY <1>3, <1>9, <2>1
    <2>4. (mode = "halted")' = (mode = "halted") /\ Busy' = FALSE
      BY <2>2
    <2>5. Promise!Complete
      BY <1>9, <2>1, <2>2, <2>3, <2>4, Zenon DEF Promise!Complete, script
    <2> QED
      BY <2>5 DEF Promise!Next
  <1>10. CASE /\ mode = "loop" /\ Place(cs, k, FALSE, pos) /\ k < Len(cs)
              /\ mode' = "loop" /\ Place(cs, k + 1, FALSE, pos')
              /\ Blank(cs[k + 1])
    <2>1. script = Remaining(cs, k) /\ script' = Tail(script) /\ script # <<>> /\ Head(script).op = "blank"
      BY <1>3, <1>4, <1>5, <1>6, <1>10 DEF Busy, Blank
    <2>2. ~Busy /\ ~Busy' /\ mode # "halted" /\ mode' # "halted" /\ UNCHANGED <<Stored, enable_flush, disk>>
      BY <1>10 DEF Busy, Blank
    <2>3. (mode = "halted")' = (mode = "halted") /\ Busy' = Busy
      BY <2>2 DEF Busy
    <2>4. Promise!BlankLine
      BY <2>1, <2>2, <2>3, Zenon DEF Promise!BlankLine, script
    <2> QED
      BY <2>4 DEF Promise!Next
  <1>11. CASE /\ mode = "loop" /\ Place(cs, k, FALSE, pos) /\ k = Len(cs)
              /\ mode' = "halted" /\ Place(cs, k, FALSE, pos')
              /\ disk' = Flushed /\ UNCHANGED <<Stored, enable_flush>>
    <2>1. script = <<>> /\ script' = script
      BY <1>3, <1>4, <1>5, <1>11 DEF Busy
    <2>2. ~Busy /\ ~Busy' /\ Stored = files
      BY <1>11 DEF Busy, Stored
    <2>3. Promise!WriteBack
      BY <1>11, <2>2, SameFiles DEF Promise!WriteBack, Flushed
    <2>4. (mode = "halted")' = TRUE /\ Busy' = Busy /\ ~mode = "halted"
      BY <1>11, <2>2 DEF Busy
    <2>5. Promise!Halt
      BY <1>11, <2>1, <2>2, <2>3, <2>4, Zenon DEF Promise!Halt, script
    <2> QED
      BY <2>5 DEF Promise!Next
  <1> QED
    BY <1>7, <1>8, <1>9, <1>10, <1>11 DEF Moves

LEMMA StartsInPlace ==
    ASSUME Meant, Init
    PROVE  IInv /\ Promise!Init
  <1>1. /\ input \in Inputs /\ pos = 0 /\ mode = "loop" /\ left = 0 /\ count = 0
        /\ name = <<>> /\ out = <<>> /\ data = <<>> /\ files = <<>> /\ enable_flush = FALSE /\ disk = <<>>
    BY DEF Init
  <1>2. Types
    <2>1. <<>> \in Seq(Bytes) /\ <<>> \in Seq(FileRecords) /\ 0 \in 0 .. Limit
      BY ShellAssumption
    <2> QED
      BY <1>1, <2>1 DEF Types
  <1> DEFINE cs == input.commands
  <1>3. cs \in Seq(CommandRecords) /\ Len(cs) \in Nat
    BY <1>1 DEF Meant, WellWritten
  <1>4. 0 \in 0 .. Len(cs) /\ Stored = <<>> /\ NamesOf(<<>>) = {}
    BY <1>1, <1>3 DEF Stored, NamesOf
  <1>5. Stands(input, 0)
    BY <1>1, <1>4, Standing
  <1>6. EndsAre(cs)
    BY <1>3, EndsPlaced
  <1>7. End(cs, 0) = 0 /\ Known(cs)[0] = {}
    BY <1>5, <1>6 DEF EndsAre, Stands
  <1>8. Reached(0)
    BY <1>1, <1>4, <1>7 DEF Reached
  <1>9. Place(cs, 0, FALSE, 0)
    BY <1>5, <1>7, BetweenIs
  <1>10. Behind(cs, FALSE, 0) = 0
    BY <1>3, <1>4, <1>9, PlaceBehind
  <1>11. Completed = 0
    <2>1. Busy = FALSE
      BY <1>1 DEF Busy
    <2> QED
      BY <1>1, <1>10, <2>1 DEF Completed
  <1>12. SubSeq(cs, Completed + 1, Len(cs)) = cs
    <2>1. SubSeq(cs, 1, Len(cs)) = cs
      BY <1>3
    <2> QED
      BY <1>11, <2>1
  <1>13. Promise!Init
    BY <1>1, <1>4, <1>12 DEF Promise!Init, Busy
  <1> QED
    BY <1>2, <1>4, <1>8, <1>13 DEF IInv

LEMMA UnderKept ==
    ASSUME UNCHANGED <<mode, left, count, name, out, data, files>>, NEW c, NEW p, Under(c, p)
    PROVE  Under(c, p)'
  <1>1. InWord(c, p) => InWord(c, p)'
    BY DEF InWord
  <1>2. InComment(c, p) => InComment(c, p)'
    BY DEF InComment
  <1>3. InSrc(c, p) => InSrc(c, p)'
    BY DEF InSrc
  <1>4. InHex0(c, p) => InHex0(c, p)'
    BY DEF InHex0
  <1>5. InRun(c, p) => InRun(c, p)'
    BY DEF InRun
  <1> QED
    BY <1>1, <1>2, <1>3, <1>4, <1>5 DEF Under

LEMMA StepKeeps ==
    ASSUME Meant, IInv, [Next]_vars
    PROVE  IInv' /\ [Promise!Next]_Promise!cvars
  <1>1. CASE Next
    <2>1. PICK in \in {input} : in = input
      OBVIOUS
    <2>2. PICK k \in 0 .. Len(in.commands) : Reached(k)
      BY <2>1 DEF IInv
    <2>3. Types /\ in = input /\ input' = input
      BY <1>1, <2>1, KeepsInput DEF IInv
    <2>4. Types' /\ Moves(in.commands, k) /\ \E l \in {k, k + 1} : l <= Len(in.commands) /\ Reached(l)'
      BY <1>1, <2>2, <2>3, StepOutcome
    <2>5. Len(in.commands) \in Nat /\ k \in Nat /\ k + 1 \in Nat
      BY <2>3 DEF Types, Meant, WellWritten
    <2>6. \E l \in 0 .. Len(in.commands) : Reached(l)'
      BY <2>4, <2>5
    <2>7. IInv'
      BY <2>3, <2>4, <2>6 DEF IInv
    <2>8. pos' \in Nat
      BY <2>4 DEF Types
    <2> QED
      BY <2>3, <2>4, <2>7, <2>8, MovesKeepPromise
  <1>2. CASE UNCHANGED vars
    <2>1. UNCHANGED <<input, pos, mode, left, count, name, out, data, files, enable_flush, disk>>
      BY <1>2 DEF vars, parsed, stored
    <2>2. IInv'
      <3>1. Types' /\ Stored' = Stored /\ NamesOf(Stored)' = NamesOf(Stored)
        BY <2>1 DEF IInv, Types, Stored, NamesOf
      <3>2. PICK in \in {input} : in = input
        OBVIOUS
      <3>3. PICK k \in 0 .. Len(in.commands) : Reached(k)
        BY <3>2 DEF IInv
      <3> DEFINE cs == in.commands
      <3>4. NamesOf(Stored) = Known(cs)[k] /\ input.commands = cs /\ input'.commands = cs
        BY <2>1, <3>2, <3>3 DEF Reached
      <3>5. Stands(in, k)
        BY <3>2, <3>3, Standing DEF IInv, Types
      <3>6. End(cs, k) \in Nat /\ pos \in Nat
        BY <3>5 DEF Stands, IInv, Types
      <3>7. CASE mode \in {"loop", "halted"}
        <4>1. \/ mode = "loop" /\ pos = End(cs, k)
              \/ mode = "halted" /\ k = Len(cs) /\ pos = End(cs, k) + 1
          BY <3>3, <3>4, <3>7, Where DEF Reached
        <4>2. Reached(k)'
          BY <2>1, <3>1, <3>4, <3>6, <4>1, ReachedThen
        <4> QED
          BY <3>1, <3>3, <3>4, <4>2 DEF IInv
      <3>8. CASE mode \notin {"loop", "halted"}
        <4>1. k < Len(cs) /\ Under(cs[k + 1], pos - End(cs, k))
          BY <3>3, <3>4, <3>8 DEF Reached
        <4>2. PICK p \in Int : p = pos - End(cs, k)
          BY <3>6
        <4>3. pos = End(cs, k) + p
          BY <3>6, <4>2
        <4>4. Under(cs[k + 1], p)'
          BY <2>1, <4>1, <4>2, UnderKept
        <4>5. At(cs, k, p)'
          BY <2>1, <4>1, <4>3, <4>4 DEF At
        <4>6. Reached(k)'
          BY <3>1, <3>4, <3>6, <4>5, ReachedThen
        <4> QED
          BY <3>1, <3>3, <3>4, <4>6 DEF IInv
      <3> QED
        BY <3>7, <3>8
    <2>3. UNCHANGED Promise!cvars
      BY <2>1 DEF Promise!cvars, Completed, Busy, Stored
    <2> QED
      BY <2>2, <2>3
  <1> QED
    BY <1>1, <1>2

LEMMA InvTyped ==
    ASSUME Meant, IInv
    PROVE  TypeOK
  <1>1. Types
    BY DEF IInv
  <1>2. PICK k \in 0 .. Len(input.commands) : Reached(k)
    BY DEF IInv
  <1>3. mode \in {"loop", "comment", "src", "hex0", "f", "count", "name", "data", "in", "out",
                  "command", "arg", "program", "halted"}
    BY <1>2, Where DEF Reached
  <1>4. mode = "data" => left > 0 /\ left + Len(data) = count
    <2> SUFFICES ASSUME mode = "data" PROVE left > 0 /\ left + Len(data) = count
      OBVIOUS
    <2> DEFINE c == input.commands[k + 1]
    <2>1. k < Len(input.commands) /\ Under(c, pos - End(input.commands, k))
      BY <1>2 DEF Reached
    <2>2. InSrc(c, pos - End(input.commands, k))
      BY <2>1, Where
    <2>3. left = Len(c.data) - Len(data) /\ left > 0 /\ count = Len(c.data)
      BY <2>2 DEF InSrc
    <2>4. data \in Seq(Bytes) /\ count \in Nat
      BY <1>1 DEF Types
    <2> DEFINE x == Len(data)
               y == Len(c.data)
    <2>5. left = y - x /\ left > 0 /\ count = y /\ x \in Nat /\ y \in Nat
      BY <2>3, <2>4
    <2> HIDE DEF x, y
    <2>6. left > 0 /\ left + x = count
      BY <2>5
    <2> QED
      BY <2>6 DEF x
  <1>5. \A i \in 1 .. Len(files) : files[i] \in [name : Seq(Bytes), data : Seq(Bytes)]
    <2>1. files \in Seq(FileRecords)
      BY <1>1 DEF Types
    <2>2. \A i \in 1 .. Len(files) : files[i] \in FileRecords
      BY <2>1
    <2> QED
      BY <2>2, Zenon DEF FileRecords
  <1> QED
    BY <1>1, <1>3, <1>4, <1>5 DEF Types, TypeOK

LEMMA IInvHolds ==
    ASSUME Meant
    PROVE  Spec => []IInv
  <1>1. Init => IInv
    BY StartsInPlace
  <1>2. IInv /\ [Next]_vars => IInv'
    BY StepKeeps
  <1> QED
    BY <1>1, <1>2, PTL DEF Spec

\* The state of the shell keeps its types, whatever the script: digits of src
\* are never below zero, and data end where they were said to.
THEOREM ShellTypeCorrect ==
    ASSUME Meant
    PROVE  Spec => []TypeOK
  <1>1. Spec => []IInv
    BY IInvHolds
  <1>2. IInv => TypeOK
    BY InvTyped
  <1> QED
    BY <1>1, <1>2, PTL

\* internalshell executes every script that is written the way it expects, of
\* any length and with any files: each command takes effect once, in order, on
\* the bytes it was given.
THEOREM ScriptIsExecuted ==
    ASSUME Meant
    PROVE  Spec => ExecutesTheScript
  <1>1. Spec => []IInv
    BY IInvHolds
  <1>2. Init => Promise!Init
    BY StartsInPlace
  <1>3. IInv /\ [Next]_vars => [Promise!Next]_Promise!cvars
    BY StepKeeps
  <1> QED
    BY <1>1, <1>2, <1>3, PTL DEF Spec, ExecutesTheScript, Promise!Spec
=============================================================================
